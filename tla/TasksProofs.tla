---------------------------- MODULE TasksProofs ----------------------------
(***************************************************************************)
(* Theorems about Tasks, for every number of tasks, reminders, members,    *)
(* requests and jobs.                                                      *)
(***************************************************************************)
EXTENDS Tasks, TLAPS

\* The records of Task, Reminder and Request, and what their fields are.
LEMMA RowFacts ==
  /\ \A x \in Task : x # Absent /\ x.status \in TaskStatus /\ x.owner \in Users
  /\ \A x \in Reminder : /\ x # Absent
                         /\ x.status \in ReminderStatus
                         /\ x.task \in TaskIds
                         /\ x.actor \in Users
                         /\ x.remind_at \in 0 .. MaxTime
BY DEF Task, Reminder, Absent, TaskStatus, ReminderStatus

\* What a request in flight refers to.
LEMMA RequestFacts ==
  /\ IdleRequest.op = "idle"
  /\ \A x \in Request \cup {IdleRequest} :
       /\ x.op = "status" => x.task \in TaskIds /\ x.target \in TaskStatus
       /\ x.op \in {"confirm", "cancel"} => x.reminder \in ReminderIds
BY DEF Request, IdleRequest

\* The initial state satisfies the invariant.
LEMMA InitEstablishes == Init => TasksInvariant
<1> SUFFICES ASSUME Init PROVE TasksInvariant
  OBVIOUS
<1> USE DEF Init, Absent, IdleRequest
<1>1. TypeOK
  BY TasksAssumption DEF TypeOK
<1>2. HeldRows
  BY DEF HeldRows
<1>3. HistoryIsTheStatus
  BY DEF HistoryIsTheStatus
<1>4. CompletionIsToldOnce
  BY DEF CompletionIsToldOnce
<1>5. NoticeWasConfirmed
  BY DEF NoticeWasConfirmed
<1> QED
  BY <1>1, <1>2, <1>3, <1>4, <1>5 DEF TasksInvariant

-----------------------------------------------------------------------------
(* The tasks' part of the invariant.                                       *)

\* A step that leaves the tasks' tables alone keeps what is said of them.
LEMMA TasksUnchanged ==
  ASSUME HistoryIsTheStatus, CompletionIsToldOnce, UNCHANGED taskVars
  PROVE  HistoryIsTheStatus' /\ CompletionIsToldOnce'
BY DEF HistoryIsTheStatus, CompletionIsToldOnce, taskVars

\* create_task starts a history.
LEMMA CreateKeeps ==
  ASSUME TasksInvariant, NEW u \in Users, NEW t \in TaskIds, create_task(u, t)
  PROVE  TasksInvariant'
<1> DEFINE row == [status |-> "TODO", owner |-> u]
           first == [from |-> "none", to |-> "TODO"]
<1>1. TypeOK /\ task[t] = Absent
  BY DEF TasksInvariant, create_task
<1>2. row \in Task /\ first \in Change /\ <<first>> \in Seq(Change) /\ row # Absent
  BY DEF Task, TaskStatus, Change, Absent
<1>3. TypeOK'
  BY <1>1, <1>2 DEF TypeOK, create_task, reminderVars, jobVars
<1>4. HeldRows'
  BY <1>1, <1>2, RequestFacts DEF TasksInvariant, HeldRows, create_task, TypeOK, reminderVars, jobVars
<1>5. HistoryIsTheStatus'
  <2> SUFFICES ASSUME NEW x \in TaskIds
               PROVE  LET h == history'[x]
                      IN  IF task'[x] = Absent THEN h = <<>>
                          ELSE /\ h # <<>>
                               /\ h[1].from = "none"
                               /\ h[Len(h)].to = task'[x].status
                               /\ \A i \in 2 .. Len(h) :
                                    /\ h[i].from = h[i - 1].to
                                    /\ h[i].to \in ALLOWED_TASK_TRANSITIONS(h[i].from)
    BY DEF HistoryIsTheStatus
  <2>1. CASE x = t
    <3>1. history'[x] = <<first>> /\ task'[x] = row
      BY <1>1, <2>1 DEF create_task, TypeOK
    <3> QED
      BY <1>2, <3>1
  <2>2. CASE x # t
    <3>1. history'[x] = history[x] /\ task'[x] = task[x]
      BY <1>1, <2>2 DEF create_task, TypeOK
    <3> QED
      BY <3>1 DEF TasksInvariant, HistoryIsTheStatus
  <2> QED
    BY <2>1, <2>2
<1>6. CompletionIsToldOnce'
  BY <1>1, <1>2 DEF TasksInvariant, CompletionIsToldOnce, create_task, TypeOK
<1>7. NoticeWasConfirmed'
  BY DEF TasksInvariant, NoticeWasConfirmed, create_task, reminderVars, jobVars
<1> QED
  BY <1>3, <1>4, <1>5, <1>6, <1>7 DEF TasksInvariant

\* A status change extends the history by one edge that starts where the
\* history ends, because the status it starts from is the locked row's.
LEMMA ChangeKeeps ==
  ASSUME TasksInvariant, NEW r \in Requests, change_task_status(r)
  PROVE  TasksInvariant'
<1> DEFINE t == request[r].task
           target == request[r].target
           from == task[t].status
           edge == [from |-> from, to |-> target]
<1>1. TypeOK
  BY DEF TasksInvariant
<1>2. /\ t \in TaskIds
      /\ target \in TaskStatus
      /\ task[t] \in Task
      /\ task[t] # Absent
  BY <1>1, RequestFacts DEF TypeOK, change_task_status, TasksInvariant, HeldRows
<1>3. /\ from \in TaskStatus
      /\ target \in ALLOWED_TASK_TRANSITIONS(from)
      /\ edge \in Change
      /\ from # "DONE"
  BY <1>2, RowFacts DEF change_task_status, WriteStatus, Change, ALLOWED_TASK_TRANSITIONS
<1>4. /\ task' = [task EXCEPT ![t].status = target]
      /\ history' = [history EXCEPT ![t] = Append(@, edge)]
      /\ told' = IF target = "DONE"
                 THEN create_notification(told, t, task[t].owner, "COMPLETED_TASK")
                 ELSE told
      /\ request' = [request EXCEPT ![r] = IdleRequest]
      /\ UNCHANGED reminderVars
      /\ UNCHANGED jobVars
  BY DEF change_task_status, WriteStatus, EndRequest
<1>5. /\ task'[t] = [task[t] EXCEPT !.status = target]
      /\ task'[t] \in Task
      /\ task'[t] # Absent
      /\ task'[t].status = target
      /\ task'[t].owner = task[t].owner
      /\ \A x \in TaskIds \ {t} : task'[x] = task[x]
  <2>1. task[t] = [status |-> from, owner |-> task[t].owner] /\ task[t].owner \in Users
    BY <1>2 DEF Task
  <2>2. /\ task'[t] = [task[t] EXCEPT !.status = target]
        /\ \A x \in TaskIds \ {t} : task'[x] = task[x]
    BY <1>1, <1>2, <1>4 DEF TypeOK
  <2>3. [task[t] EXCEPT !.status = target] = [status |-> target, owner |-> task[t].owner]
    BY <2>1
  <2>4. [status |-> target, owner |-> task[t].owner] \in Task
    BY <1>2, <2>1 DEF Task
  <2> QED
    BY <2>2, <2>3, <2>4, RowFacts
<1>6. TypeOK'
  <2>1. task' \in [TaskIds -> Task \cup {Absent}]
    BY <1>1, <1>2, <1>4, <1>5 DEF TypeOK
  <2>2. history' \in [TaskIds -> Seq(Change)]
    BY <1>1, <1>2, <1>3, <1>4 DEF TypeOK
  <2>3. told' \in [TaskIds -> Nat]
    BY <1>1, <1>2, <1>4 DEF TypeOK, create_notification
  <2>4. request' \in [Requests -> Request \cup {IdleRequest}]
    BY <1>1, <1>4 DEF TypeOK
  <2> QED
    BY <1>1, <1>4, <2>1, <2>2, <2>3, <2>4 DEF TypeOK, reminderVars, jobVars
<1>7. HeldRows'
  BY <1>1, <1>2, <1>4, <1>5, RequestFacts
  DEF TasksInvariant, HeldRows, TypeOK, reminderVars, jobVars
<1>8. HistoryIsTheStatus'
  <2> SUFFICES ASSUME NEW x \in TaskIds
               PROVE  LET h == history'[x]
                      IN  IF task'[x] = Absent THEN h = <<>>
                          ELSE /\ h # <<>>
                               /\ h[1].from = "none"
                               /\ h[Len(h)].to = task'[x].status
                               /\ \A i \in 2 .. Len(h) :
                                    /\ h[i].from = h[i - 1].to
                                    /\ h[i].to \in ALLOWED_TASK_TRANSITIONS(h[i].from)
    BY DEF HistoryIsTheStatus
  <2>1. CASE x = t
    <3> DEFINE h == history[t]
               g == Append(h, edge)
    <3>1. h \in Seq(Change) /\ history'[x] = g
      BY <1>1, <1>2, <1>4, <2>1 DEF TypeOK
    <3>2. /\ h # <<>>
          /\ h[1].from = "none"
          /\ h[Len(h)].to = from
          /\ \A i \in 2 .. Len(h) :
               /\ h[i].from = h[i - 1].to
               /\ h[i].to \in ALLOWED_TASK_TRANSITIONS(h[i].from)
      BY <1>2 DEF TasksInvariant, HistoryIsTheStatus
    <3>3. /\ Len(h) \in Nat \ {0}
          /\ Len(g) = Len(h) + 1
          /\ \A i \in 1 .. Len(h) : g[i] = h[i]
          /\ g[Len(h) + 1] = edge
          /\ g # <<>>
      BY <1>3, <3>1, <3>2
    <3>4. g[1].from = "none" /\ g[Len(g)].to = target
      BY <3>2, <3>3
    <3>5. ASSUME NEW i \in 2 .. Len(g)
          PROVE  /\ g[i].from = g[i - 1].to
                 /\ g[i].to \in ALLOWED_TASK_TRANSITIONS(g[i].from)
      <4>1. CASE i \in 2 .. Len(h)
        <5>1. i \in 1 .. Len(h) /\ i - 1 \in 1 .. Len(h)
          BY <3>3, <4>1
        <5> QED
          BY <3>2, <3>3, <4>1, <5>1
      <4>2. CASE i = Len(h) + 1
        <5>1. i - 1 = Len(h) /\ Len(h) \in 1 .. Len(h)
          BY <3>3, <4>2
        <5> QED
          BY <1>3, <3>2, <3>3, <4>2, <5>1
      <4> QED
        BY <3>3, <4>1, <4>2
    <3> HIDE DEF g
    <3> QED
      BY <1>5, <2>1, <3>1, <3>3, <3>4, <3>5
  <2>2. CASE x # t
    <3>1. history'[x] = history[x] /\ task'[x] = task[x]
      BY <1>1, <1>4, <1>5, <2>2 DEF TypeOK
    <3> QED
      BY <3>1 DEF TasksInvariant, HistoryIsTheStatus
  <2> QED
    BY <2>1, <2>2
<1>9. CompletionIsToldOnce'
  <2> SUFFICES ASSUME NEW x \in TaskIds
               PROVE  told'[x] = IF /\ task'[x] # Absent
                                    /\ task'[x].status = "DONE"
                                    /\ <<task'[x].owner, "COMPLETED_TASK">> \notin Muted
                                 THEN 1 ELSE 0
    BY DEF CompletionIsToldOnce
  <2>1. CASE x = t
    <3>1. told[t] = 0
      BY <1>2, <1>3 DEF TasksInvariant, CompletionIsToldOnce
    <3> QED
      BY <1>1, <1>2, <1>4, <1>5, <2>1, <3>1 DEF TypeOK, create_notification
  <2>2. CASE x # t
    <3>1. told'[x] = told[x] /\ task'[x] = task[x]
      BY <1>1, <1>4, <1>5, <2>2 DEF TypeOK, create_notification
    <3> QED
      BY <3>1 DEF TasksInvariant, CompletionIsToldOnce
  <2> QED
    BY <2>1, <2>2
<1>10. NoticeWasConfirmed'
  BY <1>4 DEF TasksInvariant, NoticeWasConfirmed, reminderVars, jobVars
<1> QED
  BY <1>6, <1>7, <1>8, <1>9, <1>10 DEF TasksInvariant

\* A request begins with rows that exist.
LEMMA BeginKeeps ==
  ASSUME TasksInvariant, NEW r \in Requests, NEW operation \in Request,
         Begin(r, operation),
         operation.op = "status" => task[operation.task] # Absent,
         operation.op \in {"confirm", "cancel"} => reminder[operation.reminder] # Absent
  PROVE  TasksInvariant'
<1>1. TypeOK'
  BY DEF TasksInvariant, TypeOK, Begin, taskVars, reminderVars, jobVars
<1>2. HeldRows'
  BY DEF TasksInvariant, TypeOK, HeldRows, Begin, taskVars, reminderVars, jobVars
<1>3. HistoryIsTheStatus' /\ CompletionIsToldOnce'
  BY TasksUnchanged DEF TasksInvariant, Begin
<1>4. NoticeWasConfirmed'
  BY DEF TasksInvariant, NoticeWasConfirmed, Begin, reminderVars, jobVars
<1> QED
  BY <1>1, <1>2, <1>3, <1>4 DEF TasksInvariant

\* A rolled back request leaves nothing behind.
LEMMA AbortKeeps ==
  ASSUME TasksInvariant, NEW r \in Requests, AbortRequest(r)
  PROVE  TasksInvariant'
<1>1. TypeOK'
  BY DEF TasksInvariant, TypeOK, AbortRequest, EndRequest, taskVars, reminderVars, jobVars
<1>2. HeldRows'
  BY RequestFacts
  DEF TasksInvariant, TypeOK, HeldRows, AbortRequest, EndRequest, taskVars, reminderVars, jobVars
<1>3. HistoryIsTheStatus' /\ CompletionIsToldOnce'
  BY TasksUnchanged DEF TasksInvariant, AbortRequest
<1>4. NoticeWasConfirmed'
  BY DEF TasksInvariant, NoticeWasConfirmed, AbortRequest, reminderVars, jobVars
<1> QED
  BY <1>1, <1>2, <1>3, <1>4 DEF TasksInvariant

\* The task endpoints keep the invariant.
LEMMA TaskNextKeeps == TasksInvariant /\ TaskNext => TasksInvariant'
<1> SUFFICES ASSUME TasksInvariant, TaskNext PROVE TasksInvariant'
  OBVIOUS
<1>1. ASSUME NEW u \in Users, NEW t \in TaskIds, create_task(u, t)
      PROVE  TasksInvariant'
  BY <1>1, CreateKeeps
<1>2. ASSUME NEW r \in Requests, NEW u \in Users, NEW t \in TaskIds, NEW target \in TaskStatus,
             BeginStatus(r, u, t, target)
      PROVE  TasksInvariant'
  <2> DEFINE operation ==
        [op |-> "status", task |-> t, loaded |-> task[t].status, target |-> target]
  <2>1. task[t] # Absent /\ Begin(r, operation)
    BY <1>2 DEF BeginStatus, MayMutate
  <2>2. operation \in Request
    BY <2>1, RowFacts DEF Request, TasksInvariant, TypeOK
  <2> QED
    BY <2>1, <2>2, BeginKeeps
<1>3. ASSUME NEW r \in Requests, change_task_status(r) PROVE TasksInvariant'
  BY <1>3, ChangeKeeps
<1>4. ASSUME NEW r \in Requests, AbortRequest(r) PROVE TasksInvariant'
  BY <1>4, AbortKeeps
<1> QED
  BY <1>1, <1>2, <1>3, <1>4 DEF TaskNext

-----------------------------------------------------------------------------
(* The reminders' part.                                                    *)

\* A new status leaves a reminder a reminder, with its time.
LEMMA NewStatus ==
  ASSUME NEW x \in Reminder, NEW s \in ReminderStatus
  PROVE  /\ [x EXCEPT !.status = s] \in Reminder
         /\ [x EXCEPT !.status = s] # Absent
         /\ [x EXCEPT !.status = s].status = s
         /\ [x EXCEPT !.status = s].remind_at = x.remind_at
<1>1. x = [status |-> x.status, task |-> x.task, actor |-> x.actor, remind_at |-> x.remind_at]
  BY DEF Reminder
<1>2. [x EXCEPT !.status = s]
        = [status |-> s, task |-> x.task, actor |-> x.actor, remind_at |-> x.remind_at]
  BY <1>1
<1>3. [x EXCEPT !.status = s] \in Reminder
  BY <1>2, RowFacts DEF Reminder
<1> QED
  BY <1>2, <1>3, RowFacts

\* A new reminder has neither notice nor confirmation.
LEMMA RequestReminderKeeps ==
  ASSUME TasksInvariant, NEW u \in Users, NEW t \in TaskIds, NEW m \in ReminderIds,
         NEW at \in 0 .. MaxTime, request_reminder(u, t, m, at)
  PROVE  TasksInvariant'
<1> DEFINE row == [status |-> "PENDING_CONFIRMATION", task |-> t, actor |-> u, remind_at |-> at]
<1>1. /\ TypeOK
      /\ reminder[m] = Absent
      /\ reminder' = [reminder EXCEPT ![m] = row]
      /\ UNCHANGED <<notified, confirmations, request, taskVars, jobVars>>
  BY DEF TasksInvariant, request_reminder
<1>2. row \in Reminder /\ row # Absent /\ row.status # "CONFIRMED"
  BY DEF Reminder, ReminderStatus, Absent
<1>3. /\ reminder'[m] = row
      /\ \A x \in ReminderIds \ {m} : reminder'[x] = reminder[x]
  BY <1>1 DEF TypeOK
<1> HIDE DEF row
<1>4. TypeOK'
  BY <1>1, <1>2 DEF TypeOK, taskVars, jobVars
<1>5. HeldRows'
  BY <1>1, <1>2, <1>3, RequestFacts DEF TasksInvariant, HeldRows, TypeOK, taskVars, jobVars
<1>6. HistoryIsTheStatus' /\ CompletionIsToldOnce'
  BY <1>1, TasksUnchanged DEF TasksInvariant
<1>7. NoticeWasConfirmed'
  BY <1>1, <1>3 DEF TasksInvariant, NoticeWasConfirmed, jobVars
<1> QED
  BY <1>4, <1>5, <1>6, <1>7 DEF TasksInvariant

\* confirm_reminder and cancel_reminder write their status to a row that
\* exists, whatever its status is by then.
LEMMA ConfirmKeeps ==
  ASSUME TasksInvariant, NEW r \in Requests, confirm_reminder(r)
  PROVE  TasksInvariant'
<1> DEFINE m == request[r].reminder
<1>1. TypeOK /\ HeldRows
  BY DEF TasksInvariant
<1>2. m \in ReminderIds /\ reminder[m] \in Reminder
  BY <1>1, RequestFacts DEF TypeOK, HeldRows, confirm_reminder
<1>3. /\ reminder' = [reminder EXCEPT ![m].status = "CONFIRMED"]
      /\ confirmations' = [confirmations EXCEPT ![m] = @ + 1]
      /\ request' = [request EXCEPT ![r] = IdleRequest]
      /\ UNCHANGED <<notified, taskVars, jobVars>>
  BY DEF confirm_reminder, EndRequest
<1>4. /\ reminder'[m] = [reminder[m] EXCEPT !.status = "CONFIRMED"]
      /\ confirmations'[m] = confirmations[m] + 1
      /\ \A x \in ReminderIds \ {m} : /\ reminder'[x] = reminder[x]
                                       /\ confirmations'[x] = confirmations[x]
  BY <1>1, <1>2, <1>3 DEF TypeOK
<1>5. /\ reminder'[m] \in Reminder
      /\ reminder'[m] # Absent
      /\ reminder'[m].remind_at = reminder[m].remind_at
  <2>1. \A s \in ReminderStatus :
          /\ [reminder[m] EXCEPT !.status = s] \in Reminder
          /\ [reminder[m] EXCEPT !.status = s] # Absent
          /\ [reminder[m] EXCEPT !.status = s].status = s
          /\ [reminder[m] EXCEPT !.status = s].remind_at = reminder[m].remind_at
    BY <1>2, NewStatus
  <2> QED
    BY <1>4, <2>1 DEF ReminderStatus
<1>6. TypeOK'
  <2>1. reminder' \in [ReminderIds -> Reminder \cup {Absent}]
    BY <1>1, <1>2, <1>3, <1>5 DEF TypeOK
  <2> QED
    BY <1>1, <1>2, <1>3, <2>1 DEF TypeOK, taskVars, jobVars
<1>7. HeldRows'
  BY <1>1, <1>2, <1>3, <1>4, <1>5, RequestFacts DEF HeldRows, TypeOK, taskVars, jobVars
<1>8. HistoryIsTheStatus' /\ CompletionIsToldOnce'
  BY <1>3, TasksUnchanged DEF TasksInvariant
<1>9. NoticeWasConfirmed'
  BY <1>1, <1>2, <1>3, <1>4, <1>5 DEF TasksInvariant, TypeOK, NoticeWasConfirmed, jobVars
<1> QED
  BY <1>6, <1>7, <1>8, <1>9 DEF TasksInvariant

\* So does a cancellation, which confirms nothing.
LEMMA CancelKeeps ==
  ASSUME TasksInvariant, NEW r \in Requests, cancel_reminder(r)
  PROVE  TasksInvariant'
<1> DEFINE m == request[r].reminder
<1>1. TypeOK /\ HeldRows
  BY DEF TasksInvariant
<1>2. m \in ReminderIds /\ reminder[m] \in Reminder
  BY <1>1, RequestFacts DEF TypeOK, HeldRows, cancel_reminder
<1>3. /\ reminder' = [reminder EXCEPT ![m].status = "CANCELLED"]
      /\ request' = [request EXCEPT ![r] = IdleRequest]
      /\ UNCHANGED <<notified, confirmations, taskVars, jobVars>>
  BY DEF cancel_reminder, EndRequest
<1>4. /\ reminder'[m] = [reminder[m] EXCEPT !.status = "CANCELLED"]
      /\ \A x \in ReminderIds \ {m} : reminder'[x] = reminder[x]
  BY <1>1, <1>2, <1>3 DEF TypeOK
<1>5. /\ reminder'[m] \in Reminder
      /\ reminder'[m] # Absent
      /\ reminder'[m].status = "CANCELLED"
      /\ reminder'[m].remind_at = reminder[m].remind_at
  <2>1. \A s \in ReminderStatus :
          /\ [reminder[m] EXCEPT !.status = s] \in Reminder
          /\ [reminder[m] EXCEPT !.status = s] # Absent
          /\ [reminder[m] EXCEPT !.status = s].status = s
          /\ [reminder[m] EXCEPT !.status = s].remind_at = reminder[m].remind_at
    BY <1>2, NewStatus
  <2> QED
    BY <1>4, <2>1 DEF ReminderStatus
<1>6. TypeOK'
  <2>1. reminder' \in [ReminderIds -> Reminder \cup {Absent}]
    BY <1>1, <1>2, <1>3, <1>5 DEF TypeOK
  <2> QED
    BY <1>1, <1>3, <2>1 DEF TypeOK, taskVars, jobVars
<1>7. HeldRows'
  BY <1>1, <1>2, <1>3, <1>4, <1>5, RequestFacts DEF HeldRows, TypeOK, taskVars, jobVars
<1>8. HistoryIsTheStatus' /\ CompletionIsToldOnce'
  BY <1>3, TasksUnchanged DEF TasksInvariant
<1>9. NoticeWasConfirmed'
  BY <1>1, <1>2, <1>3, <1>4, <1>5 DEF TasksInvariant, NoticeWasConfirmed, jobVars
<1> QED
  BY <1>6, <1>7, <1>8, <1>9 DEF TasksInvariant

\* The reminder endpoints keep the invariant.
LEMMA ReminderNextKeeps == TasksInvariant /\ ReminderNext => TasksInvariant'
<1> SUFFICES ASSUME TasksInvariant, ReminderNext PROVE TasksInvariant'
  OBVIOUS
<1>1. ASSUME NEW u \in Users, NEW t \in TaskIds, NEW m \in ReminderIds, NEW at \in 0 .. MaxTime,
             request_reminder(u, t, m, at)
      PROVE  TasksInvariant'
  BY <1>1, RequestReminderKeeps
<1>2. ASSUME NEW r \in Requests, NEW u \in Users, NEW m \in ReminderIds, NEW at \in 0 .. MaxTime,
             BeginConfirm(r, u, m, at)
      PROVE  TasksInvariant'
  <2> DEFINE operation == [op |-> "confirm", reminder |-> m]
  <2>1. operation \in Request /\ reminder[m] # Absent /\ Begin(r, operation)
    BY <1>2 DEF BeginConfirm, Touches, Request
  <2> QED
    BY <2>1, BeginKeeps
<1>3. ASSUME NEW r \in Requests, NEW u \in Users, NEW m \in ReminderIds, BeginCancel(r, u, m)
      PROVE  TasksInvariant'
  <2> DEFINE operation == [op |-> "cancel", reminder |-> m]
  <2>1. operation \in Request /\ reminder[m] # Absent /\ Begin(r, operation)
    BY <1>3 DEF BeginCancel, Touches, Request
  <2> QED
    BY <2>1, BeginKeeps
<1>4. ASSUME NEW r \in Requests, confirm_reminder(r) PROVE TasksInvariant'
  BY <1>4, ConfirmKeeps
<1>5. ASSUME NEW r \in Requests, cancel_reminder(r) PROVE TasksInvariant'
  BY <1>5, CancelKeeps
<1> QED
  BY <1>1, <1>2, <1>3, <1>4, <1>5 DEF ReminderNext

-----------------------------------------------------------------------------
(* The job.                                                                *)

\* What a job's commit does to a reminder it holds, and to the others.
LEMMA Firing ==
  ASSUME TypeOK, HeldRows, NEW j \in Jobs, FireSelected(j), NEW m \in ReminderIds
  PROVE  /\ m \in job[j] => /\ reminder'[m] \in Reminder
                            /\ reminder'[m] # Absent
                            /\ reminder'[m].status = "FIRED"
                            /\ reminder'[m].remind_at = reminder[m].remind_at
                            /\ notified'[m] \in
                                 {notified[m], [notified[m] EXCEPT ![j] = @ + 1]}
         /\ m \notin job[j] => reminder'[m] = reminder[m] /\ notified'[m] = notified[m]
<1>1. CASE m \in job[j]
  <2>1. reminder[m] \in Reminder
    BY <1>1 DEF TypeOK, HeldRows
  <2>2. reminder'[m] = [reminder[m] EXCEPT !.status = "FIRED"]
    BY <1>1 DEF FireSelected
  <2>3. notified'[m] \in {notified[m], [notified[m] EXCEPT ![j] = @ + 1]}
    BY <1>1 DEF FireSelected, Notices, create_notification, TypeOK
  <2>4. \A s \in ReminderStatus :
          /\ [reminder[m] EXCEPT !.status = s] \in Reminder
          /\ [reminder[m] EXCEPT !.status = s] # Absent
          /\ [reminder[m] EXCEPT !.status = s].status = s
          /\ [reminder[m] EXCEPT !.status = s].remind_at = reminder[m].remind_at
    BY <2>1, NewStatus
  <2> QED
    BY <1>1, <2>2, <2>3, <2>4 DEF ReminderStatus
<1>2. CASE m \notin job[j]
  BY <1>2 DEF FireSelected, Notices
<1> QED
  BY <1>1, <1>2

\* The job notifies only what it has selected, which was confirmed and due.
LEMMA FireKeeps ==
  ASSUME TasksInvariant, NEW j \in Jobs, FireSelected(j)
  PROVE  TasksInvariant'
<1>1. TypeOK /\ HeldRows
  BY DEF TasksInvariant
<1>2. /\ job' = [job EXCEPT ![j] = {}]
      /\ UNCHANGED <<confirmations, request, now, failures, taskVars>>
  BY DEF FireSelected
<1>3. TypeOK'
  <2>1. reminder' \in [ReminderIds -> Reminder \cup {Absent}]
    <3>1. reminder' = [m \in ReminderIds |-> reminder'[m]]
      BY DEF FireSelected
    <3>2. \A m \in ReminderIds : reminder'[m] \in Reminder \cup {Absent}
      BY <1>1, Firing DEF TypeOK
    <3> QED
      BY <3>1, <3>2
  <2>2. notified' \in [ReminderIds -> [Jobs -> Nat]]
    <3>1. notified' = [m \in ReminderIds |-> notified'[m]]
      BY DEF FireSelected, Notices
    <3>2. ASSUME NEW m \in ReminderIds PROVE notified'[m] \in [Jobs -> Nat]
      <4>1. notified'[m] \in {notified[m], [notified[m] EXCEPT ![j] = @ + 1]}
        BY <1>1, Firing
      <4>2. notified[m] \in [Jobs -> Nat]
        BY <1>1 DEF TypeOK
      <4>3. [notified[m] EXCEPT ![j] = @ + 1] \in [Jobs -> Nat]
        BY <4>2
      <4> QED
        BY <4>1, <4>2, <4>3
    <3> QED
      BY <3>1, <3>2
  <2> QED
    BY <1>1, <1>2, <2>1, <2>2 DEF TypeOK, taskVars
<1>4. HeldRows'
  <2>1. \A r \in Requests :
          /\ request'[r].op = "status" => task'[request'[r].task] # Absent
          /\ request'[r].op \in {"confirm", "cancel"} => reminder'[request'[r].reminder] # Absent
    <3>1. ASSUME NEW m \in ReminderIds, reminder[m] # Absent
          PROVE  reminder'[m] # Absent
      BY <1>1, <3>1, Firing
    <3>2. task' = task /\ request' = request
      BY <1>2 DEF taskVars
    <3>3. \A r \in Requests :
            request[r].op \in {"confirm", "cancel"} => request[r].reminder \in ReminderIds
      BY <1>1, RequestFacts DEF TypeOK
    <3> QED
      BY <1>1, <3>1, <3>2, <3>3 DEF HeldRows
  <2>2. \A m \in ReminderIds : reminder'[m].status = "CONFIRMED" => confirmations'[m] > 0
    BY <1>1, <1>2, Firing DEF HeldRows
  <2>3. ASSUME NEW i \in Jobs, NEW m \in job'[i]
        PROVE  /\ confirmations'[m] > 0
               /\ reminder'[m] # Absent
               /\ reminder'[m].remind_at <= now'
    <3>1. m \in job[i] /\ m \in ReminderIds
      BY <1>1, <1>2, <2>3 DEF TypeOK
    <3> QED
      BY <1>1, <1>2, <3>1, Firing DEF HeldRows
  <2> QED
    BY <2>1, <2>2, <2>3 DEF HeldRows
<1>5. HistoryIsTheStatus' /\ CompletionIsToldOnce'
  BY <1>2, TasksUnchanged DEF TasksInvariant
<1>6. NoticeWasConfirmed'
  <2> SUFFICES ASSUME NEW m \in ReminderIds, NEW i \in Jobs, notified'[m][i] > 0
               PROVE  /\ confirmations'[m] > 0
                      /\ reminder'[m] # Absent
                      /\ reminder'[m].remind_at <= now'
    BY DEF NoticeWasConfirmed
  <2>1. CASE m \in job[j]
    BY <1>1, <1>2, <2>1, Firing DEF HeldRows
  <2>2. CASE m \notin job[j]
    BY <1>1, <1>2, <2>2, Firing DEF TasksInvariant, NoticeWasConfirmed
  <2> QED
    BY <2>1, <2>2
<1> QED
  BY <1>3, <1>4, <1>5, <1>6 DEF TasksInvariant

\* The job and the clock keep the invariant.
LEMMA JobNextKeeps == TasksInvariant /\ JobNext => TasksInvariant'
<1> SUFFICES ASSUME TasksInvariant, JobNext PROVE TasksInvariant'
  OBVIOUS
<1>1. TypeOK /\ HeldRows
  BY DEF TasksInvariant
<1>2. ASSUME NEW j \in Jobs, SelectDue(j) PROVE TasksInvariant'
  <2>1. TypeOK'
    BY <1>1, <1>2 DEF TypeOK, SelectDue, Due, taskVars, reminderVars
  <2>2. HeldRows'
    BY <1>1, <1>2 DEF TypeOK, HeldRows, SelectDue, Due, taskVars, reminderVars
  <2>3. HistoryIsTheStatus' /\ CompletionIsToldOnce'
    BY <1>2, TasksUnchanged DEF TasksInvariant, SelectDue
  <2>4. NoticeWasConfirmed'
    BY <1>2 DEF TasksInvariant, NoticeWasConfirmed, SelectDue, reminderVars
  <2> QED
    BY <2>1, <2>2, <2>3, <2>4 DEF TasksInvariant
<1>3. ASSUME NEW j \in Jobs, FireSelected(j) PROVE TasksInvariant'
  BY <1>3, FireKeeps
<1>4. ASSUME NEW j \in Jobs, JobFails(j) PROVE TasksInvariant'
  <2>1. TypeOK'
    BY <1>1, <1>4, TasksAssumption DEF TypeOK, JobFails, taskVars, reminderVars
  <2>2. HeldRows'
    BY <1>1, <1>4 DEF TypeOK, HeldRows, JobFails, taskVars, reminderVars
  <2>3. HistoryIsTheStatus' /\ CompletionIsToldOnce'
    BY <1>4, TasksUnchanged DEF TasksInvariant, JobFails
  <2>4. NoticeWasConfirmed'
    BY <1>4 DEF TasksInvariant, NoticeWasConfirmed, JobFails, reminderVars
  <2> QED
    BY <2>1, <2>2, <2>3, <2>4 DEF TasksInvariant
<1>5. ASSUME Tick PROVE TasksInvariant'
  <2>1. /\ now \in Int
        /\ now' = now + 1
        /\ \A m \in ReminderIds : reminder[m] # Absent => reminder[m].remind_at \in Int
    BY <1>1, <1>5, RowFacts, TasksAssumption DEF TypeOK, Tick
  <2>2. TypeOK'
    BY <1>1, <1>5, TasksAssumption DEF TypeOK, Tick, taskVars, reminderVars
  <2>3. HeldRows'
    BY <1>1, <1>5, <2>1 DEF TypeOK, HeldRows, Tick, taskVars, reminderVars
  <2>4. HistoryIsTheStatus' /\ CompletionIsToldOnce'
    BY <1>5, TasksUnchanged DEF TasksInvariant, Tick
  <2>5. NoticeWasConfirmed'
    BY <1>5, <2>1 DEF TasksInvariant, NoticeWasConfirmed, Tick, reminderVars
  <2> QED
    BY <2>2, <2>3, <2>4, <2>5 DEF TasksInvariant
<1> QED
  BY <1>2, <1>3, <1>4, <1>5 DEF JobNext

-----------------------------------------------------------------------------
(* Theorems.                                                               *)

\* A step that changes nothing keeps the invariant.
LEMMA StutteringKeeps == TasksInvariant /\ UNCHANGED vars => TasksInvariant'
BY DEF TasksInvariant, TypeOK, HeldRows, HistoryIsTheStatus, CompletionIsToldOnce,
       NoticeWasConfirmed, vars

\* The invariant holds in every reachable state, with any number of requests
\* and of overlapping runs of the firing job.
THEOREM TasksInvariantHolds == Spec => []TasksInvariant
<1>1. TasksInvariant /\ [Next]_vars => TasksInvariant'
  BY TaskNextKeeps, ReminderNextKeeps, JobNextKeeps, StutteringKeeps DEF Next
<1> QED
  BY InitEstablishes, <1>1, PTL DEF Spec

\* Racing status changes leave one gapless history that ends in the status
\* of the task (change_task_status).
THEOREM HistoryIsFaithful == Spec => []HistoryIsTheStatus
<1>1. TasksInvariant => HistoryIsTheStatus
  BY DEF TasksInvariant
<1> QED
  BY TasksInvariantHolds, <1>1, PTL

\* The owner of a task hears of its completion exactly once, unless muted.
THEOREM CompletionToldOnce == Spec => []CompletionIsToldOnce
<1>1. TasksInvariant => CompletionIsToldOnce
  BY DEF TasksInvariant
<1> QED
  BY TasksInvariantHolds, <1>1, PTL

\* No reminder is notified unconfirmed or early (fire_due_reminders).
THEOREM NothingFiresUnconfirmed == Spec => []NoticeWasConfirmed
<1>1. TasksInvariant => NoticeWasConfirmed
  BY DEF TasksInvariant
<1> QED
  BY TasksInvariantHolds, <1>1, PTL

-----------------------------------------------------------------------------
(* Overlapping runs of the job.                                            *)

\* What job j still owes to a reminder that is CONFIRMED or that it selected.
Owes(m, j) == reminder[m].status = "CONFIRMED" \/ m \in job[j]

\* Steps that touch neither a reminder's account nor its status keep it.
LEMMA AccountKept ==
  ASSUME ConfirmationsAreOpen, NoRunRepeatsANotice, UNCHANGED reminderVars,
         \A m \in ReminderIds, j \in Jobs : Owes(m, j)' => Owes(m, j)
  PROVE  ConfirmationsAreOpen' /\ NoRunRepeatsANotice'
BY DEF ConfirmationsAreOpen, NoRunRepeatsANotice, reminderVars, Owes

\* Every step keeps each job's account of notices and confirmations.
LEMMA AccountStep ==
  ASSUME TasksInvariant, ConfirmationsAreOpen, NoRunRepeatsANotice, [Next]_vars
  PROVE  ConfirmationsAreOpen' /\ NoRunRepeatsANotice'
<1>1. TypeOK /\ HeldRows
  BY DEF TasksInvariant
<1>2. CASE UNCHANGED <<reminderVars, job>>
  BY <1>2, AccountKept DEF Owes, reminderVars
<1>3. CASE TaskNext
  <2>1. UNCHANGED <<reminderVars, job>>
    BY <1>3 DEF TaskNext, create_task, BeginStatus, Begin, change_task_status, WriteStatus,
                AbortRequest, jobVars
  <2> QED
    BY <1>2, <2>1
<1>4. CASE ReminderNext
  <2>1. ASSUME NEW u \in Users, NEW t \in TaskIds, NEW m \in ReminderIds,
               NEW at \in 0 .. MaxTime, request_reminder(u, t, m, at)
        PROVE  ConfirmationsAreOpen' /\ NoRunRepeatsANotice'
    BY <1>1, <2>1
    DEF TypeOK, request_reminder, ConfirmationsAreOpen, NoRunRepeatsANotice, jobVars
  <2>2. ASSUME NEW r \in Requests,
               \/ \E u \in Users, m \in ReminderIds, at \in 0 .. MaxTime : BeginConfirm(r, u, m, at)
               \/ \E u \in Users, m \in ReminderIds : BeginCancel(r, u, m)
        PROVE  ConfirmationsAreOpen' /\ NoRunRepeatsANotice'
    <3>1. UNCHANGED <<reminderVars, job>>
      BY <2>2 DEF BeginConfirm, BeginCancel, Begin, jobVars
    <3> QED
      BY <1>2, <3>1
  <2>3. ASSUME NEW r \in Requests, confirm_reminder(r)
        PROVE  ConfirmationsAreOpen' /\ NoRunRepeatsANotice'
    <3> DEFINE m == request[r].reminder
    <3>1. m \in ReminderIds
      BY <1>1, <2>3, RequestFacts DEF TypeOK, confirm_reminder
    <3>2. /\ confirmations'[m] = confirmations[m] + 1
          /\ notified' = notified
          /\ job' = job
          /\ \A x \in ReminderIds \ {m} : /\ reminder'[x] = reminder[x]
                                           /\ confirmations'[x] = confirmations[x]
      BY <1>1, <2>3, <3>1 DEF TypeOK, confirm_reminder, jobVars
    <3>3. ASSUME NEW x \in ReminderIds, NEW i \in Jobs
          PROVE  /\ Owes(x, i)' => notified'[x][i] < confirmations'[x]
                 /\ notified'[x][i] <= confirmations'[x]
      <4>1. notified[x][i] \in Nat /\ confirmations[x] \in Nat
        BY <1>1 DEF TypeOK
      <4>2. /\ Owes(x, i) => notified[x][i] < confirmations[x]
            /\ notified[x][i] <= confirmations[x]
        BY DEF ConfirmationsAreOpen, NoRunRepeatsANotice, Owes
      <4>3. CASE x = m
        BY <3>2, <4>1, <4>2, <4>3
      <4>4. CASE x # m
        BY <3>2, <4>1, <4>2, <4>4 DEF Owes
      <4> QED
        BY <4>3, <4>4
    <3> QED
      BY <3>3 DEF ConfirmationsAreOpen, NoRunRepeatsANotice, Owes
  <2>4. ASSUME NEW r \in Requests, cancel_reminder(r)
        PROVE  ConfirmationsAreOpen' /\ NoRunRepeatsANotice'
    <3> DEFINE m == request[r].reminder
    <3>1. m \in ReminderIds /\ reminder[m] \in Reminder
      BY <1>1, <2>4, RequestFacts DEF TypeOK, HeldRows, cancel_reminder
    <3>2. /\ confirmations' = confirmations
          /\ notified' = notified
          /\ job' = job
          /\ reminder'[m].status = "CANCELLED"
          /\ \A x \in ReminderIds \ {m} : reminder'[x] = reminder[x]
      BY <1>1, <2>4, <3>1 DEF TypeOK, cancel_reminder, jobVars, Reminder
    <3> QED
      BY <3>1, <3>2 DEF ConfirmationsAreOpen, NoRunRepeatsANotice
  <2> QED
    BY <1>4, <2>1, <2>2, <2>3, <2>4 DEF ReminderNext
<1>5. CASE JobNext
  <2>1. ASSUME NEW j \in Jobs, SelectDue(j)
        PROVE  ConfirmationsAreOpen' /\ NoRunRepeatsANotice'
    <3>1. \A m \in ReminderIds, i \in Jobs : Owes(m, i)' => Owes(m, i)
      BY <1>1, <2>1 DEF TypeOK, SelectDue, Due, Owes, reminderVars
    <3> QED
      BY <2>1, <3>1, AccountKept DEF SelectDue
  <2>2. ASSUME NEW j \in Jobs, FireSelected(j)
        PROVE  ConfirmationsAreOpen' /\ NoRunRepeatsANotice'
    <3>1. /\ confirmations' = confirmations
          /\ job'[j] = {}
          /\ \A i \in Jobs \ {j} : job'[i] = job[i]
      BY <1>1, <2>2 DEF FireSelected, TypeOK
    <3>2. ASSUME NEW m \in ReminderIds, NEW i \in Jobs
          PROVE  /\ Owes(m, i)' => notified'[m][i] < confirmations'[m]
                 /\ notified'[m][i] <= confirmations'[m]
      <4>1. /\ notified[m] \in [Jobs -> Nat]
            /\ notified[m][i] \in Nat /\ confirmations[m] \in Nat
        BY <1>1 DEF TypeOK
      <4>2. /\ Owes(m, i) => notified[m][i] < confirmations[m]
            /\ notified[m][i] <= confirmations[m]
        BY DEF ConfirmationsAreOpen, NoRunRepeatsANotice, Owes
      <4>3. CASE m \in job[j]
        <5>1. /\ reminder'[m].status = "FIRED"
              /\ notified'[m] \in {notified[m], [notified[m] EXCEPT ![j] = @ + 1]}
          BY <1>1, <2>2, <4>3, Firing
        <5>2. CASE i = j
          <6>1. notified'[m][i] \in {notified[m][i], notified[m][i] + 1}
            BY <4>1, <5>1, <5>2
          <6>2. ~Owes(m, i)' /\ notified[m][i] < confirmations[m]
            BY <3>1, <4>2, <4>3, <5>1, <5>2 DEF Owes
          <6> QED
            BY <3>1, <4>1, <6>1, <6>2
        <5>3. CASE i # j
          <6>1. notified'[m][i] = notified[m][i]
            BY <4>1, <5>1, <5>3
          <6>2. Owes(m, i)' => Owes(m, i)
            BY <3>1, <5>1, <5>3 DEF Owes
          <6> QED
            BY <3>1, <4>2, <6>1, <6>2
        <5> QED
          BY <5>2, <5>3
      <4>4. CASE m \notin job[j]
        <5>1. reminder'[m] = reminder[m] /\ notified'[m] = notified[m]
          BY <1>1, <2>2, <4>4, Firing
        <5>2. Owes(m, i)' => Owes(m, i)
          BY <3>1, <5>1 DEF Owes
        <5> QED
          BY <3>1, <4>2, <5>1, <5>2
      <4> QED
        BY <4>3, <4>4
    <3> QED
      BY <3>2 DEF ConfirmationsAreOpen, NoRunRepeatsANotice, Owes
  <2>3. ASSUME NEW j \in Jobs, JobFails(j)
        PROVE  ConfirmationsAreOpen' /\ NoRunRepeatsANotice'
    <3>1. \A m \in ReminderIds, i \in Jobs : Owes(m, i)' => Owes(m, i)
      BY <1>1, <2>3 DEF TypeOK, JobFails, Owes, reminderVars
    <3> QED
      BY <2>3, <3>1, AccountKept DEF JobFails
  <2>4. ASSUME Tick PROVE ConfirmationsAreOpen' /\ NoRunRepeatsANotice'
    <3>1. UNCHANGED <<reminderVars, job>>
      BY <2>4 DEF Tick
    <3> QED
      BY <1>2, <3>1
  <2> QED
    BY <1>5, <2>1, <2>2, <2>3, <2>4 DEF JobNext
<1>6. CASE UNCHANGED vars
  <2>1. UNCHANGED <<reminderVars, job>>
    BY <1>6 DEF vars, reminderVars
  <2> QED
    BY <1>2, <2>1
<1> QED
  BY <1>3, <1>4, <1>5, <1>6 DEF Next

\* A job that is run again and again answers a confirmation at most once,
\* however many jobs overlap with it: n overlapping runs send at most n
\* notices, and stale confirmations and cancellations cannot multiply them.
THEOREM NoticesPerConfirmation == Spec => []NoRunRepeatsANotice
<1> DEFINE Account == ConfirmationsAreOpen /\ NoRunRepeatsANotice
<1>1. Init => Account
  BY DEF Init, ConfirmationsAreOpen, NoRunRepeatsANotice, Absent
<1>2. TasksInvariant /\ Account /\ [Next]_vars => Account'
  BY AccountStep
<1>3. Spec => []Account
  <2> HIDE DEF Account
  <2> QED
    BY TasksInvariantHolds, <1>1, <1>2, PTL DEF Spec
<1>4. Account => NoRunRepeatsANotice
  OBVIOUS
<1> QED
  BY <1>3, <1>4, PTL
=============================================================================
