# DODA: a TLA+ development

DODA is a multi-tenant assistant: a FastAPI service over Postgres (row-level
security, READ COMMITTED), Redis Streams for what leaves the system, workers
that relay and execute, and gateways to language models.  The program's own
core is the *action pipeline*: an action is proposed, approved by a person when
it is risky, announced in a transactional outbox, relayed to a stream, executed
by a connector against the outside world and settled, with an audit trail, a
kill switch, cancellation and compensation.  This directory models that core,
and beside it the chat turn with the AI budget it spends, the settings it
depends on, sessions and login, memberships and authorization, tasks and
reminders and the audit hash chain; it checks them with TLC, and proves every
safety property that a passing run checks with TLAPS, for all values of the
constants.

Paths below are relative to `src/backend/src/doda/`.

## 1. Inventory

| Component | State | Operations | Hard behaviour | What makes it correct |
|---|---|---|---|---|
| action state machine, risk, tool policy (`domain/action/`) | none (pure) | transition table, risk floor | the table has edges no code path takes | every committed status is reachable by an edge; a tool's floor cannot be under-declared |
| action service (`application/action_service.py`, `api/actions.py`) | actions, approvals | propose, replay, consume, cancel, complete compensation | decisions on rows read before the row lock; exceptions roll all writes back | one action per key, one approval per risky action, consumed once, nonce private |
| kill switch (`application/kill_switch_service.py`) | one row per engaged scope | engage, disengage, `assert_not_killed` | insert race, DELETE of a row that is gone, unlocked check in two statements | no switch is off unaudited; one incident per engagement |
| outbox relay (`infrastructure/outbox_relay.py`) | `outbox_messages`, stream | lock a batch, XADD, commit | at-least-once, crash between XADD and commit | no READY action is lost, nothing is executed twice |
| telegram connector (`infrastructure/telegram_relay.py`, `telegram_client.py`) | consumer group, pending list | read, drive, send with retries, resolve, acknowledge | redelivery, ambiguous failures, crashes, racing cancellations | at most one delivery, SUCCEEDED only with a receipt |
| audit chain (`application/audit_service.py`) | events, tip row | append, verify, evidence | tip lock against the clock order of the walk | one unforked chain that verifies |
| membership and authorization (`application/customer_service.py`, `workspace_service.py`, `authz_service.py`) | customer and workspace memberships, indexes | invite, change role, remove, archive, resolve a context | roles read before locks, concurrent owners | a customer keeps an owner; rights follow the rows |
| AI budget (`application/ai_budget_service.py`) | a ledger per customer and month | reserve, reconcile | concurrent turns, month's end, failures of a turn | the cap holds and reservations are given back |
| tasks and reminders (`application/task_service.py`) | tasks, history, reminders | change status, request, confirm, cancel, fire | reminders are changed without a lock, runs of the job may overlap | history is the status; nothing fires unconfirmed; no run repeats a notice |
| conversations and the chat turn (`application/conversation_service.py`, `ai_tools.py`) | conversations, messages | turn with tool rounds, fallback, cancellation | generator closed at any yield; write tools propose actions | the reservation is settled once, an answer is one provider's, turns do not block each other for ever |
| AI provider settings and preferences (`application/ai_preference_service.py`, `ai_provider_settings_service.py`) | preference, switch and verification rows | save, clear, resolve, pick a substitute | insert races, several unlocked reads of one turn | a save stores its value; a choice is one tier's; a disabled provider is not called |
| sessions and login (`application/session_service.py`, `oidc_login_service.py`) | sessions, users, subject index | log in, resolve and touch, list, revoke | touch against revoke, concurrent first logins, callbacks that share a state cookie, two timeouts | a dead session stays dead; the listing is what would be accepted; a new device is reported |
| notifications (`application/notification_service.py`) | notifications, preferences | create, mute, mark read | preference races | security alerts cannot be muted |
| export, LLM gateways, error mapping, configuration, web client, migrations, operations jobs | – | – | – | not part of the core |

Components interact through Postgres rows and the stream only.  A request is
one transaction (`api/dependencies.py`, `db.py`): it commits when its handler
returns and rolls back on any exception.  The relay and the connector are
separate processes that loop for ever.  The chat turn reaches the pipeline
through `propose_action`, like the HTTP endpoint; `ChatTurn` models that call by the
audit tip it locks and the action it creates or finds, `ActionService` the rest.

`PROJECT.json` lists every component with its status, and under `hazards` what
is hard to test, each at its line.

## 2. Modules

| Module | Models | Notes |
|---|---|---|
| `ActionStates` | `domain/action/` | transition table, risk levels, tool floor; pure |
| `ActionStore` | the tables of one workspace, the stream, `apply_transition`, `enqueue_outbox_message`, `create_notification` | shared variables; a transaction is one step at its lock and commit |
| `KillSwitch` | `kill_switch_service.py` | a specification of its own (`SwitchSpec`), and a part of the pipeline |
| `ActionService` | `action_service.py`, `api/actions.py` | an HTTP request is two steps: what it loads without a lock, and its locked commit |
| `OutboxRelay` | `outbox_relay.py` | SELECT … SKIP LOCKED, each XADD, the commit, failure |
| `TelegramRelay` | `telegram_relay.py`, `telegram_client.py` | the consumer's program counter is its place in `process_entry` |
| `ActionPipeline` | their composition | properties, fairness, the inductive invariant |
| `ActionLifecycle` | – | the abstract specification: what the subsystem promises of one action |
| `Membership` | `customer_service.py`, `workspace_service.py`, `authz_service.py` and their endpoints | who belongs where with which role; a request is what it loads and its commit |
| `Tasks` | `task_service.py`, `api/tasks.py`, `fire_due_reminders_job.py` | locked status changes, unlocked reminders, the firing job and the clock |
| `AuditChain` | `audit_service.py` | the tip lock, the links, the walk of the verification, damaged rows |
| `BudgetLedger` | `ai_budget_service.py`, `ai_pricing.py` | a month's row, usage events, rounded prices |
| `ConversationHistory` | `list_messages`, `_messages_to_history` | which messages a provider is sent |
| `ChatTurn` | `stream_message`, `ai_tools.py`, `api/conversations.py` | composes the two above: turns as transactions that hold locks, with an external stream |
| `AISettings` | `ai_preference_service.py`, `ai_provider_settings_service.py`, `api/ai_settings.py`, `set_notification_preference` | saves statement by statement, and a turn's reads between them |
| `Sessions` | `session_service.py`, `oidc_login_service.py`, `identity_service.py`, `api/auth.py`, `api/sessions.py` | logins, authenticated requests, timeouts |
| `MCActionPipeline`, `MCMembership`, `MCTasks`, `MCAuditChain`, `MCChatTurn`, `MCAISettings`, `MCSessions` | – | values and symmetry for TLC |
| `PipelineStepProofs`, `ActionPipelineProofs` | – | lemmas and theorems about the pipeline: what each step does and preserves; the invariant, what follows from it, and the refinement |
| `MembershipProofs`, `TasksProofs`, `AuditChainProofs`, `ChatTurnProofs`, `AISettingsProofs`, `SessionsProofs` | – | lemmas and theorems about the module each is named after |

Conventions.

- **One transaction, one step.**  `apply_transition` takes the action's row lock
  with a refresh, checks the committed status and writes; the rest of the
  transaction is invisible until it commits.  So a transaction is one step at
  its commit, preceded by a step for what the code loaded *before* the lock and
  used after it: `req[r]` holds a cancellation's chosen target, a consumer's
  right to approve and whether the approval had expired, and a proposal is one
  step more, since `assert_not_killed` reads the two kill switches in two
  statements (`BeginPropose`, `CheckWorkspace`).  `CompleteCompensation`
  uses nothing it loaded before the lock and is one step.
- **Kill switch.**  A disengagement is its DELETE and its commit.  A DELETE that
  finds the row locks it until the commit (`DeleteRow`, `Disengage`); one that
  waited and finds it gone locks nothing, and its request audits a disengagement
  whenever it comes to it (`DeleteNothing`, `DisengageLate`).
- **Rollback.**  A request that raises changes nothing but its slot: lost races
  (`LoseRace`), refused approvals (`RefuseConsume`) and failures (`AbortRequest`).
  The audit event that `apply_transition` writes for a refused transition rolls
  back with the rest, so it is no part of the state.
- **XADD is not transactional**: `AddToStream` is a step of its own before
  `CommitBatch`, and `RelayFails` leaves the entries behind.
- **The outside world.**  `SendSucceeds`, `SendTransient`, `SendFails` and
  `SendRaises` are what Telegram may do; an ambiguous failure, or an accepted
  message whose response the client cannot use, may or may not have reached the
  chat (`Reaches`).
- **Time.**  An approval lapses at any moment (`ApprovalLapses`).  Backoff and
  poll intervals are left out.
- **Data.**  A payload is a model value, "malformed" when it has no string
  `chat_id` and `text`; its hash is taken as injective.  `audit` keeps an
  action's own transition events with the flag of the receipt.  Every action is
  of one workspace, since row-level security makes every transaction so.

- **Memberships.**  The `Begin…` steps are a request's authorization and the row
  it loads; `request[r].loaded` is the role it saw.  `remove_customer_member` is
  two steps more: `SelectOrphans` counts the owners under their row locks (which
  it holds until its commit, `held`) and selects the workspace memberships;
  `Remove` is the rest, one step because every transaction takes the audit tip's
  lock before it commits and the removal takes it before it looks for the user's
  other rows.  Ids are never used again: a row is fresh, live or gone.
- **Reminders.**  `confirm_reminder` and `cancel_reminder` test the row as it was
  loaded (`BeginConfirm`, `BeginCancel`) and overwrite whatever is there.  The
  job selects and then commits notices and statuses together; each member of
  `Jobs` runs again and again, and the runs of different ones overlap.
  `confirmations` counts the commits that set `confirmed_at`, `notified` the
  notices by reminder and job.
- **Hash chain.**  A hash is the sequence of the contents it covers, which is an
  injective `hash_payload`.  `created_at` is `now` plus the writer's `Skew`;
  readings of one clock under the lock are distinct.  `written` remembers what
  was committed; `AlterRow` and `LoseRow` are what verification must notice.
  The loop of `verify_audit_chain` carries the previous row's hash along; in the
  model a row is compared with the last of the rows that the walk's order puts
  before it (`Earlier`, `Previous`), which is the same comparison without a
  recursion.

- **Chat turns.**  A turn is one transaction from its first message to the end of
  its response, so its writes stay its own until `Finish`: `log` marks a message
  with the turn that flushed it, the ledger changes at the commit, and the row
  locks it holds in between are `Holds` and `HoldsTip`.  The steps end where the
  code waits: for a lock, for the provider, or at a `yield`, where the client may
  be gone (`Disconnect`).  A proposal is two steps, its insert and its audit event
  under the tip; a replay records nothing and takes no lock (`Propose`, `Record`,
  `Replay`).  A failure after the first chunk was sent settles and
  commits; before it, the exception rolls everything back (`primed`).  Tokens are
  one number and a provider has one price, since only the sum reaches the ledger;
  `round()` is modelled with its rounding to even.  A conversation is a set of
  messages with their `created_at`, which orders them; a message counts as one
  character, so that the page and the character budget both bite.  `reserve_budget` and
  `reconcile_budget` each read the clock (`reservedIn`, `settledIn`).
- **Settings.**  All upserts of the code have one shape: read, update or insert in
  a savepoint, after an IntegrityError read again and update.  Each of these
  statements is a step under READ COMMITTED, and an UPDATE writes only the columns
  whose value differs from the one that was loaded, which is what the ORM does
  (`Merge`).  `seen` collects what a row held at some instant of a turn.
  `pick_fallback_provider` reads one candidate's row after the other, and so does
  `Pick`.
- **Sessions.**  `resolve_session` is two steps, the read with its checks and the
  UPDATE of `last_seen_at`, in a transaction that commits before the handler's.
  `baseline` and `new` remember what a login knew and decided.  The state of a
  login is in the browser's cookie and nowhere else: any number of callbacks may
  come with it, each with a code of its own (a consent page opened twice, or tried
  again), and the cookie goes when its answer arrives (`EndLogin`) or when it
  expires.  A header that is the empty string is stored and counts as a known
  device, but is not compared (`Named`); none at all is NULL.

`TypeOK` documents the state of every module; the runs check it where it is part
of an inductive invariant.

Mutated forms ("Mutated form: …") stand before the definitions they alter; they
are used only to show that a property can fail.

## 3. Runs

| Run | Instance | Shows |
|---|---|---|
| `delivery` | one action; two relays, two connectors that read two entries at a time, one request slot, two users, both payload kinds, two faults, two attempts | the inductive invariant, at most one delivery, nothing sent unapproved, no READY action lost by the stores, the audit trail is the history, one report of a failure (the member has muted it), and the refinement of `ActionLifecycle` |
| `requests` | one key for two proposals, two users and request slots, a registered and an unregistered tool, both kill switches, two operators, two engagements; no workers | approvals consumed once and only by those entitled, nonces private; no switch is off unaudited, one incident per engagement; an engaged switch lets no more actions through than proposals had passed its check |
| `progress` | one action, two relays, two connectors, two faults, fairness | a READY action is taken up unless the entry that names it was lost with a consumer |
| `chat` | two turns in two conversations, two providers (one dearer), two rounds, a cap of four cents, two months, fairness | the cap holds, reservations come back, the events explain the ledger, one voice per turn, deadlocks need the month's end, turns end |
| `ai_settings` | eight rows of every kind, two overlapping saves, one turn, four of them in all | saves store their own values and do not clash, a choice is one tier's, a disabled provider is not called |
| `sessions` | one browser whose User-Agent names one of two devices, is empty or absent, two callbacks at a time, two sessions in all, two requests, one customer, five instants, idle timeout 1, absolute timeout 3 | the listing is what is accepted, new devices are reported, dead sessions stay dead |
| `membership` | two users, three membership ids, two workspace-role ids, one workspace, two request slots, all roles | the inductive invariant (unique rows, index, owner locks), the listing is the resolution, an invitation restores no right, the last owner is lost only to a request with an outdated role |
| `tasks` | one task, one reminder, a member and an admin, two request slots, two jobs that overlap and one failure, two instants, fairness | the inductive invariant, gapless histories, nothing fires unconfirmed or early, no job repeats a notice of one confirmation, a confirmed reminder is settled |
| `audit_chain` | two writers whose clocks differ by two readings, four events, two contents, two damages | the tip is the history, an intact chain verifies exactly when the clocks follow the order of writing, a verified one is a prefix of what was written, the report pinpoints |

Bounds.  The hazards are races of pairs: two relays, two connectors and two
request slots give every pairwise race, and two faults a crash of one process
while another recovers.  Actions meet in their key alone: two proposals of one key
are the race that matters, and give one action.  Beyond that an action's row,
entries and consumers never mention another, and a batch of two holds two entries
of the one action; what several actions add is left to the theorems, which hold
for any number.  `MaxFaults` and `MaxIncidents` are the
bounds of otherwise endless behaviour: two engagements are two of one switch, with
a late deletion in between, or one of each.  The MC modules declare what is interchangeable (generated ids, keys,
workers, contents), and the runs that check no liveness use it.
Three membership ids let a user be removed and invited again while
an old request is in flight; four events put an undamaged one between damaged
neighbours; the clock's two instants are before and at a reminder's time.
The request slots of `requests` run with `RequestedRisks = {2}`, the highest
level that is approved automatically, so both routes of `validate_action` occur.
In `chat` the cap admits one estimate of the dearer provider, or two of the
cheaper, so that turns meet at it, a turn costs less or more than its estimate,
and the second month gives a turn a row to settle on that it did not reserve on;
two rounds are the first and the last.  In `ai_settings` four saves and turns let
a row be set, cleared and set again around a turn.  In `sessions` the absolute
timeout outlasts several idle ones, and the clock runs past both.  Its two
sessions are two callbacks of one cookie, or a first login and a later one; two
concurrent logins of one new device beside a known one need a third, and are
covered by the theorem `NewDevicesAreReported` only.

Fairness.  `FairSpec` assumes weak fairness of each relay's and each consumer's
own steps: both programs are `run_forever` loops.  A step of a send counts:
`httpx` has a timeout, so an attempt ends.  `Tasks!FairSpec` assumes that time
passes and that the firing job is run again and again, as its script says it is
scheduled.  `ChatTurn!FairSpec` assumes that an open turn takes some step when one
is enabled: the server runs it, the providers' client libraries end a stream with
its last event, an error or a timeout, and PostgreSQL grants locks and breaks
deadlocks.  Neither users nor faults are fair.

Runs that expect a violation show where a document or an assertion and the code
part ways; each is a finding in `PROJECT.json`.

| Run | The text says | The code does |
|---|---|---|
| `refused_approval` | a failed check "moves the action to a terminal state rather than leaving it pending" | the exception rolls the status back, the action stays AWAITING_APPROVAL |
| `membership_last_owner` | the owner count avoids "leaving zero owners" | whether it is made depends on a role loaded before the lock |
| `long_conversation` | the history is "most-recent messages first" | `list_messages` returns the oldest 200, so a longer conversation's new question is not sent |

Other places where text and code part ways, met while modelling.  The actions
contain them, and the properties named hold in spite of them:

- The outbox row is a "promise to eventually cause a side effect"
  (domain/outbox/models.py:4) and an entry "can be redelivered" after a crash
  (telegram_relay.py:18): relay_once reads only new entries (telegram_relay.py:235),
  so an action whose entry was in a dead consumer's hands stays READY.
  `ReadyIsTakenUp` names this exception, `Stranded`, and holds otherwise;
  `ReadyIsRecoverable` says that the stores still name the action.
- A reminder that is CANCELLED or FIRED cannot be confirmed, "an ordinary
  state-machine guard" (task_service.py:45): the guard is on a row loaded without
  a lock, so a late confirmation makes it CONFIRMED again.  Nor does the job look
  at the status again: a reminder cancelled after its SELECT is notified and
  marked FIRED, and `ConfirmedIsSettled` takes either end for settled.
- A "schedule (cron/systemd timer)" (scripts/fire_due_reminders_job.py:9) keeps
  no two runs apart, and the SELECT takes no
  lock (task_service.py:257): two that overlap notify one confirmation twice.
  What holds is that no run repeats what it or an earlier run of its job has
  told (`NoRunRepeatsANotice`).
- `complete_compensation` "COMPENSATING -> COMPENSATED, or -> FAILED"
  (action_service.py:299): RUNNING -> FAILED is an edge of the table as well, so
  an admin's FAILED is accepted for an action that is being sent
  (`ImplementsLifecycle`, `FailureIsReportedOnce`).
- Completing a compensation "is a human attesting" it (action_service.py:304): a
  send that fails after a cancellation closes it as the system, `ResolveAs`.
- An engaged switch "blocks every NEW action from that point on"
  (kill_switch_service.py:2): a proposal past its check still commits;
  `EngagedSwitchDrains` is what holds.  It holds of each switch by itself: the
  customer's is read before the workspace's (kill_switch_service.py:33, 35), so a
  proposal can pass both while they are engaged in turn and one of them always is.
- A disengagement is audited if a row was found by the first read
  (kill_switch_service.py:121-133): when another request has deleted the row and
  a third has engaged the switch again, the trail ends "disengaged" with the
  switch on.  `OffIsAudited` is the direction that holds: no switch is off without
  a disengagement at the end of its trail.
- `assert existing is not None` (kill_switch_service.py:81): a disengagement in
  between removes the row, and the request ends in `ReportAssertion`.
- A removal "Also removes every WorkspaceMembership" (customer_service.py:169):
  one that commits after its SELECT stays, and resolves to nothing
  (`InvitationRestoresNoRight`, `ListingMatchesResolution`).
- The order of verify_audit_chain "matches true write order"
  (audit_service.py:129): it is the order of several processes' clocks
  (`IntactChainVerifies`).
- Verification "proves nothing was … deleted" (audit_service.py:187): the walk
  is not compared with the tip, so the newest events can be missing
  (`VerifiedIsAPrefix`).
- A failure mid-turn gives the reservation back (conversation_service.py:606-616):
  a turn that sees the month end lowers the new month's row, where the result is
  clamped at zero, and its reservation stays in the old one
  (`ReservationsComeBack` is about the current month).
- Failed turns are recorded too (conversation_service.py:626-631), and
  `LedgerMatchesEvents` holds of what commits; the tokens of a round that breaks
  off, and of a turn that fails before its first chunk and rolls back, were billed
  by the provider and are in neither.
- "summing them in is exactly right", says get_usage_report of REFUNDED rows
  (ai_budget_service.py:162-167); its query takes RECONCILED ones only, so the report
  misses what failed turns cost and the ledger has.
- Listing has the "same liveness definition as resolve_session"
  (session_service.py:115): at the very instant of a timeout it is stricter
  (`ListingMatchesUse`).
- The state of a login is "a random nonce" kept in "just the cookie the browser
  already carries back on the one request that matters" (api/auth.py:12-18).
  There may be several such requests: after an answer that was lost, or from a
  second consent page, a callback with a code of its own makes a second session
  from one state.  The model lets it; no property bounds the sessions of a state.
- A request with "no User-Agent header at all" skips the check for new devices
  (session_service.py:68-74).  So does an empty header, by `if user_agent`
  (oidc_login_service.py:96), which is stored as a device that is known from then
  on and gives the next login something to differ from (`NewDeviceIsReported`).
- `assert_provider_enabled` is called "before every gateway call"
  (ai_provider_settings_service.py:11): it is called once per turn, before the
  first one, and a provider that is switched off later is called in the turn's
  further rounds.  `DisabledIsNeverCalled` covers a provider that is off
  throughout the turn.
- The loser of two inserts applies "its own (last-write-wins) value"
  (ai_preference_service.py:104-107): two overlapping updates write the columns
  each has changed, so provider and model of a row can come from two saves, and a
  row cleared between the IntegrityError and the second read ends in the
  `assert` (`OwnValueIsStored` and `SetsDoNotClash` name both exceptions).
- Gemini's calls get the ids `gemini-call-{name}-{index}`, which repeat from turn
  to turn; the idempotency key of a write call is made from them, so a later call
  can be answered with an earlier action (the choice of `Replay`).

## 4. Proofs

All theorems are for every value of the constants, under the assumptions
declared with them: admins are members, counts and bounds are naturals (batch
sizes, attempts, rounds and page sizes positive), the null values are no
members of the sets they stand beside, there is a provider, a mode and a usage
a provider may report, and providers and usages are finitely many.  `Spec` is
without fairness: what is proved needs none.

Every theorem follows one pattern.  The property is seldom inductive, so the
module states an inductive invariant, a conjunction of named parts that says
what an open request, job, login, save or turn relies on between its steps; TLC
has checked each of these invariants on the instance of the module's run.  One
lemma says what a step writes, one per step and part that the part is
preserved, and the theorem combines them.

**The action pipeline** (`PipelineStepProofs`, `ActionPipelineProofs`).

- `PipelineInvariantHolds`: `Spec => []PipelineInvariant`.  `TypeOK` alone is
  not inductive (`ResolveAs` and `Append` need what entries refer to), so
  `References` says that approvals, requests, locked rows and entries name what
  exists; `Consumers` what a consumer knows at each place of its code;
  `Authorised` that the risk floor holds from the proposal on and a risky action
  has an approval from its creation; `Execution` that an action before its start
  has no delivery, that one consumer holds it after, and that this consumer has
  not delivered before it sends; `Recoverable` that each outbox row is
  unpublished and unadded, or its action no longer waits, or a live entry covers
  it.
- From it: `DeliveredAtMostOnce`, `ExecutedByOne`, `CancellationHolds`,
  `ApprovalIsEnforced`, `NothingIsSentUnapproved`, `ReadyStaysRecoverable`,
  `TypeCorrect`, and `LifecycleIsImplemented`, the refinement of
  `ActionLifecycle` step by step.
- `HistoryIsAudited` and `FailureReported`: every step of the pipeline is of one
  of a few kinds (an action is created, makes one transition with its audit
  event and its notice, or keeps all three), so the history and the reports need
  one argument per kind and not one per step.
- `AnnouncedOnce`: the cardinality of an action's outbox rows is replaced by the
  index of the one row there is; `NonceIsConfined` holds because every step that
  shows a nonce has compared the reader with the proposer, replays included.
- `TrailTellsOfDisengagement` and `IncidentsAreCounted`: the switch's own
  invariant, carried into the pipeline, whose steps leave it alone or are the
  switch's.
- `SwitchDrains` is a property of steps.  That there are finitely many actions
  and proposals in flight is itself proved as an invariant; then no step under
  an engaged switch makes the number of actions and of proposals past this
  switch's read grow, for each scope by itself.

**Memberships** (`MembershipProofs`).  Uniqueness of rows and the mirror in the
index are not inductive alone.  `References` adds that requests and roles name
ids once generated (so that a fresh id has no leftover role) and that a removal
knows whose row it removes; `LocksProtectOwners` that the owner rows a removal
has locked stay owner rows and are more than one.  From
`MembershipInvariantHolds`: `ListingIsResolution`, `InvitationsGrantNothing`
and `OwnersSurviveKnownRoles`.

**Tasks** (`TasksProofs`).  `HeldRows` is the strengthening (what requests and
jobs hold exists, and what a job holds was confirmed and is due).  From
`TasksInvariantHolds`: `HistoryIsFaithful`, `CompletionToldOnce`,
`NothingFiresUnconfirmed`; `NoticesPerConfirmation` adds, for any number of
overlapping jobs, `ConfirmationsAreOpen`: a reminder that is CONFIRMED, or that a
job has selected, has a confirmation which this job has not answered yet.

**The audit chain** (`AuditChainProofs`).  `ChainInvariantHolds`: each hash, in a
row or in the transaction that has the tip, tells a beginning of `written`
(`Tells`), no two rows stand at one depth, and without damage every depth has
its intact row.  From it `TipHashesTheHistory`, and by induction along the walk
`VerifiedIsGenuine` (in a verified walk the n-th row has depth n) and
`UntouchedVerifies`, which holds in both directions: with clocks that follow the
order of writing the row before depth n + 1 is that of depth n, and with clocks
that do not, some row has a wrong predecessor.  `ReportIsExact` needs the
invariant of two neighbours only.  Induction over numbers is used through the
least counterexample (`LeastNat`, from the well-foundedness of `<`), which needs
no operator parameter.

**Chat turns and the budget** (`ChatTurnProofs`).  `ChatInvariantHolds`:
`RowsAreHeldByOne` (a month's row is one turn's from its reservation to its
end), `SpendingOK` (an open turn's estimate fits under the cap beside what its
row says, it has read the clock in order, and its tokens are at most the dearest
round's times the rounds it had) and `VoiceOK` (what was said is the present
provider's).  A commit changes only rows the turn holds, so it disturbs no other
turn's `SpendingOK`.

- `CapIsPassedByOneTurn`: the row has room for the estimate until the commit,
  the estimate is at least `LeastEstimate` and the cost at most `DearestTurn`,
  because `RoundedQuotient` is monotone (`RoundingIsMonotone`).
- `EveryCentHasAnEvent`: `Total` is a recursive function over the months;
  `TotalIsDefined` shows that its recursion has a solution and `TotalAdds` that
  a cent added to a month is added to the total.
- `NothingStaysReserved`, `OneVoice` and `WaitingInACircleNeedsMonthEnd`: two
  turns in a circle are past their reservation, and hold the current month's row
  unless one of them has reserved before its end.

**Settings** (`AISettingsProofs`).  `SettingsInvariantHolds`: `SaveOK` says what
a save knows of its row at each statement, `TurnOK` that what a turn has read
was in the row at some instant of the turn (`seen`).  From it
`OverlappingSetsSucceed`, `ChoiceIsNotMixed`, `OffStaysUncalled`, and the
property of steps `AnsweredIsStored`.

**Sessions** (`SessionsProofs`).  `SessionInvariantHolds`: what a login knew when
it looked for the device (`LoginOK`), that a request touches a session there is
(`RequestOK`), and the report of new devices, for any number of browsers and of
callbacks that share a cookie.  From it `NewDevicesAreReported`,
`ListingIsOfUsableSessions`, and the property of steps `DeadSessionsStayDead`.

Only model-checked: the liveness properties `ReadyIsTakenUp`,
`ConfirmedIsSettled` and `TurnsEnd`; fairness and ENABLED are out of the
prover's reach.  The three findings are counterexamples of TLC.  Proved and
checked by no run under their own names are the invariants of `AuditChain`,
`ChatTurn`, `AISettings` and `Sessions`, whose consequences the runs check, and
`ExecutedByOne`, `CancellationHolds`, `CompletionToldOnce` and `TypeCorrect`, parts or consequences of invariants.

## 5. What is not modelled, and the plan

Next, in this order:

1. An abstract append-only log that `AuditChain` implements, and an abstract
   account that `ChatTurn` implements, with their refinements proved.
2. Composing `Sessions` and `Membership` into the context of a request.
3. The steps of the liveness arguments that are safety: what each fair step
   decreases in `Tasks` and `ChatTurn`.

Hazards known and not covered by a property: an approval that lapses while its
request waits for the row lock is accepted (no text bounds the delay); a role
change and a removal may deadlock over the membership row and the audit tip
(PostgreSQL aborts one, which is `AbortRequest`); a reminder cancelled while a run
of the job has it in hand is notified, and overlapping runs notify once each (the
actions contain both, and no property forbids them); a provider switched off in
the middle of a turn is called on; a fault in the middle of a
connector's batch of several actions (`EntryFails` goes on with the next entry;
the liveness run has one action).

Not modelled inside the modelled parts: the versioned language setting and the
provisioning of workspaces, task decisions, parents and due dates, a
conversation's language, marks of read notifications (inserts and data that no
other operation reads), CSRF and origin checks, the pages of the audit viewer and
the evidence package's assembly, an unknown model's missing price.

Left out for good: the wire formats of language models and Google, error mapping,
middleware and configuration (no state), the SQL of row-level security (every
model is of one tenant because of it), read-only jobs, exports, and the web
client.
