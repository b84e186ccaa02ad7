------------------------------ MODULE ChatTurn ------------------------------
(***************************************************************************)
(* Chat turns of one customer: POST .../messages, each turn one database   *)
(* transaction that holds the month's ledger row from its reservation on   *)
(* and the customer's audit tip from its proposal on.  A turn's own        *)
(* writes become visible when it commits.  The provider's stream is        *)
(* external: any text, tool calls, usage or error may come.  The           *)
(* customer's settings change at any time: disabled is the set of the      *)
(* providers that are switched off when a turn looks.                      *)
(***************************************************************************)
EXTENDS BudgetLedger, ConversationHistory, Sequences

CONSTANTS
  Turns,                \* requests that may be open at the same time
  ConversationOf,       \* turn -> the conversation it is posted to
  OutputTokens,         \* mode -> ai_max_output_tokens_<mode>
  ai_max_tool_rounds,
  DeepCeiling,          \* ai_deep_request_cost_ceiling_usd, in cents
  Configured,           \* providers with an API key
  RoundTokens,          \* the usages a provider may report for one round
  MaxPosts,             \* bound on the messages posted
  None

ASSUME ChatAssumption ==
  /\ ai_max_tool_rounds \in Nat \ {0}
  /\ DeepCeiling \in Nat
  /\ DOMAIN OutputTokens # {}
  /\ \A mode \in DOMAIN OutputTokens : OutputTokens[mode] \in Nat
  /\ Configured \subseteq Providers
  /\ RoundTokens \subseteq Nat /\ IsFiniteSet(RoundTokens) /\ RoundTokens # {}
  /\ MaxPosts \in Nat
  /\ None \notin Turns
  /\ DOMAIN ConversationOf = Turns

VARIABLES
  turn,         \* the state of each open turn
  log,          \* conversation -> its messages
  actions,      \* number of the actions proposed by committed turns
  carried,      \* month -> cents settled in it by turns reserved before it
  posts         \* number of messages posted

chatVars == <<turn, log, actions, carried, posts>>

vars == <<budgetVars, chatVars>>

Conversations == {ConversationOf[t] : t \in Turns}

FALLBACK_ORDER == <<"OPENAI", "CLAUDE", "GEMINI">>

ToolKinds == {"read", "write"}

\* Where a turn is: waiting for the month's row (reserve), in a round of the
\* provider's stream (stream), proposing the action of a write tool's call
\* (propose), waiting for the audit tip to record it (record), suspended at a
\* yield (text, status, done), settling (settle), or at its end (end).
Places ==
  {"idle", "reserve", "stream", "text", "propose", "record", "status", "settle", "done",
   "end"}

Suspended == {"text", "status", "done"}

IdleTurn ==
  [pc |-> "idle", provider |-> None, estimate |-> 0,
   reservedIn |-> 1, round |-> 0, text |-> FALSE, calls |-> {},
   primed |-> FALSE, tokens |-> 0, fellBack |-> FALSE, authors |-> {},
   proposed |-> FALSE, outcome |-> "RECONCILED", settledIn |-> 1, recordedIn |-> 1]

TurnRecord ==
  [pc : Places, provider : Providers \cup {None},
   estimate : Nat, reservedIn : Months, round : 0 .. ai_max_tool_rounds,
   text : BOOLEAN, calls : SUBSET ToolKinds, primed : BOOLEAN, tokens : Nat,
   fellBack : BOOLEAN, authors : SUBSET Providers,
   proposed : BOOLEAN, outcome : UsageEventStatus, settledIn : Months, recordedIn : Months]

MessageRecord ==
  [role : Roles, created_at : Nat, call : BOOLEAN,
   by : Turns \cup {None}]   \* the open turn that wrote it

TypeOK ==
  /\ BudgetTypeOK
  /\ turn \in [Turns -> TurnRecord]
  /\ log \in [Conversations -> SUBSET MessageRecord]
  /\ \A c \in Conversations : IsFiniteSet(log[c])
  /\ actions \in Nat
  /\ carried \in [Months -> Nat]
  /\ posts \in 0 .. MaxPosts

Init ==
  /\ BudgetInit
  /\ turn = [t \in Turns |-> IdleTurn]
  /\ log = [c \in Conversations |-> {}]
  /\ actions = 0
  /\ carried = [m \in Months |-> 0]
  /\ posts = 0

-----------------------------------------------------------------------------
(* Locks and transactions.                                                 *)

\* The turn holds the row of month m.
Holds(t, m) ==
  \/ /\ turn[t].pc \in Places \ {"idle", "reserve"}
     /\ turn[t].reservedIn = m
  \/ /\ turn[t].pc \in {"done", "end"}
     /\ turn[t].settledIn = m

HoldsTip(t) == turn[t].proposed

\* The other turns that hold the lock the turn's next step needs.
Blockers(t) ==
  {u \in Turns \ {t} :
     \/ turn[t].pc = "reserve" /\ Holds(u, turn[t].reservedIn)
     \/ turn[t].pc = "record" /\ HoldsTip(u)
     \/ turn[t].pc = "settle" /\ Holds(u, turn[t].settledIn)}

Free(t) == Blockers(t) = {}

Visible(t) == {m \in log[ConversationOf[t]] : m.by \in {t, None}}

Latest(c) == Max({0} \cup {m.created_at : m \in log[c]})

\* Messages are flushed, one after the other: their created_at are the latest,
\* and their rows are the turn's own until the commit.
Flush(t, messages) ==
  LET c == ConversationOf[t]
  IN  log' = [log EXCEPT ![c] =
                @ \cup {[messages[i] EXCEPT !.created_at = Latest(c) + i, !.by = t] :
                          i \in DOMAIN messages}]

Message(role) == [role |-> role, created_at |-> 0, call |-> FALSE, by |-> None]

\* The assistant's message that keeps a tool call and its arguments.
CallMessage == [Message("assistant") EXCEPT !.call = TRUE]

\* The transaction rolls back: whatever the turn wrote is gone.
Rollback(t) ==
  /\ turn' = [turn EXCEPT ![t] = IdleTurn]
  /\ log' = [log EXCEPT ![ConversationOf[t]] = {m \in @ : m.by # t}]
  /\ UNCHANGED <<budgetVars, actions, carried>>

\* The transaction of a settled turn commits.
Commit(t) ==
  LET r == turn[t]
      cost == estimate_cost_cents(r.provider, r.tokens)
  IN  /\ ledger' = Settled(r.reservedIn, r.settledIn, r.estimate, cost)
      /\ record_usage_event(r.recordedIn, r.outcome, cost)
      /\ carried' = [carried EXCEPT ![r.settledIn] =
                       @ + IF r.reservedIn # r.settledIn THEN cost ELSE 0]
      /\ log' = [log EXCEPT ![ConversationOf[t]] =
                   {IF m.by = t THEN [m EXCEPT !.by = None] ELSE m : m \in @}]
      /\ actions' = actions + IF r.proposed THEN 1 ELSE 0
      /\ turn' = [turn EXCEPT ![t] = IdleTurn]
      /\ UNCHANGED month

\* reconcile_budget reads the clock, then asks for that month's row.
GoSettle(r, outcome) ==
  [r EXCEPT !.pc = "settle", !.outcome = outcome, !.settledIn = month,
            !.round = 0, !.text = FALSE, !.calls = {}, !.fellBack = FALSE]

-----------------------------------------------------------------------------
(* One turn.                                                               *)

\* The history and the mode decide the estimate, for as many rounds as a turn
\* may have.
EstimateOf(p, mode, visible) ==
  ai_max_tool_rounds
    * estimate_cost_cents(p, Max({1, ContentChars(History(visible))}) + OutputTokens[mode])

\* Mutated form: the month is taken from the server's local time.
PostLocalTime(t, p, mode, disabled) ==
  /\ turn[t].pc = "idle"
  /\ posts < MaxPosts
  /\ p \notin disabled
  /\ Flush(t, <<Message("user")>>)
  /\ LET estimate == EstimateOf(p, mode, Visible(t)')
     IN  /\ mode = "DEEP" => estimate <= DeepCeiling
         /\ \E m \in {month, month + 1} \cap Months :
              turn' = [turn EXCEPT ![t] =
                     [IdleTurn EXCEPT !.pc = "reserve", !.provider = p,
                                      !.estimate = estimate,
                                      !.reservedIn = m]]
  /\ posts' = posts + 1
  /\ UNCHANGED <<budgetVars, actions, carried>>

\* stream_message up to reserve_budget's lock: the user's message is flushed,
\* the resolved provider is enabled, and a DEEP turn is below its ceiling.
\* Refusals before this point leave nothing behind.
Post(t, p, mode, disabled) ==
  /\ turn[t].pc = "idle"
  /\ posts < MaxPosts
  /\ p \notin disabled
  /\ Flush(t, <<Message("user")>>)
  /\ LET estimate == EstimateOf(p, mode, Visible(t)')
     IN  /\ mode = "DEEP" => estimate <= DeepCeiling
         /\ turn' = [turn EXCEPT ![t] =
                     [IdleTurn EXCEPT !.pc = "reserve", !.provider = p,
                                      !.estimate = estimate,
                                      !.reservedIn = month]]
  /\ posts' = posts + 1
  /\ UNCHANGED <<budgetVars, actions, carried>>

\* Mutated form: the row is read without FOR UPDATE.
ReserveUnlocked(t) ==
  /\ turn[t].pc = "reserve"
  /\ MayReserve(ledger[turn[t].reservedIn], turn[t].estimate)
  /\ turn' = [turn EXCEPT ![t].pc = "stream"]
  /\ UNCHANGED <<budgetVars, log, actions, carried, posts>>

\* The row is locked, and the estimate fits under the cap.
Reserve(t) ==
  /\ turn[t].pc = "reserve"
  /\ Free(t)
  /\ MayReserve(ledger[turn[t].reservedIn], turn[t].estimate)
  /\ turn' = [turn EXCEPT ![t].pc = "stream"]
  /\ UNCHANGED <<budgetVars, log, actions, carried, posts>>

\* BudgetExceededError ends the request before any provider is called.
ReserveRefused(t) ==
  /\ turn[t].pc = "reserve"
  /\ Free(t)
  /\ ~MayReserve(ledger[turn[t].reservedIn], turn[t].estimate)
  /\ Rollback(t)
  /\ UNCHANGED posts

\* The round's first TextDelta: the client is sent a chunk.  Later ones of the
\* round change nothing.
StreamText(t) ==
  /\ turn[t].pc = "stream"
  /\ ~turn[t].text
  /\ turn' = [turn EXCEPT ![t].pc = "text", ![t].text = TRUE, ![t].primed = TRUE,
                          ![t].authors = @ \cup {turn[t].provider}]
  /\ UNCHANGED <<budgetVars, log, actions, carried, posts>>

StreamToolCall(t, kind) ==
  /\ turn[t].pc = "stream"
  /\ kind \notin turn[t].calls
  /\ turn' = [turn EXCEPT ![t].calls = @ \cup {kind}]
  /\ UNCHANGED <<budgetVars, log, actions, carried, posts>>

\* The stream ends, with the usage Completed reported.  Without a tool call
\* the text is the answer; a write call stops the turn at its proposal; read
\* calls are answered and the next round begins, if there is one.
StreamEnds(t, tokens) ==
  LET r == [turn[t] EXCEPT !.tokens = @ + tokens,
                           !.authors = @ \cup {turn[t].provider}]
      asked == [i \in 1 .. Cardinality(r.calls) |-> CallMessage]
      last == r.round + 1 = ai_max_tool_rounds
  IN  /\ turn[t].pc = "stream"
      /\ \/ /\ r.calls = {}
            /\ Flush(t, <<Message("assistant")>>)
            /\ turn' = [turn EXCEPT ![t] = GoSettle(r, "RECONCILED")]
         \/ /\ "write" \in r.calls
            /\ Flush(t, asked)
            /\ turn' = [turn EXCEPT ![t] = [r EXCEPT !.pc = "propose"]]
         \/ /\ r.calls = {"read"}
            /\ Flush(t, asked \o <<Message("tool")>>
                          \o IF last THEN <<Message("assistant")>> ELSE <<>>)
            /\ turn' = [turn EXCEPT ![t] =
                          IF last THEN GoSettle(r, "RECONCILED")
                          ELSE [r EXCEPT !.round = @ + 1, !.text = FALSE, !.calls = {}]]
      /\ UNCHANGED <<budgetVars, actions, carried, posts>>

\* propose_write_tool_action inserts the action.
Propose(t) ==
  /\ turn[t].pc = "propose"
  /\ turn' = [turn EXCEPT ![t].pc = "record"]
  /\ UNCHANGED <<budgetVars, log, actions, carried, posts>>

\* The status message is stored and yielded.
ShowStatus(t, created) ==
  /\ Flush(t, <<Message("assistant")>>)
  /\ turn' = [turn EXCEPT ![t].pc = "status", ![t].primed = TRUE, ![t].calls = {},
                          ![t].text = FALSE, ![t].proposed = created]
  /\ UNCHANGED <<budgetVars, actions, carried, posts>>

\* An action with the call's key is there already: it is shown again, nothing
\* is recorded and no lock is taken.
Replay(t) ==
  /\ turn[t].pc = "propose"
  /\ actions > 0
  /\ ShowStatus(t, FALSE)

\* The new action is recorded under the audit tip, which the turn keeps.
Record(t) ==
  /\ turn[t].pc = "record"
  /\ Free(t)
  /\ ShowStatus(t, TRUE)

\* Any error that is not substituted for: the provider's, a refused proposal
\* or a bug.  The reservation is settled before the error goes on.
Fails(t) ==
  /\ turn[t].pc \in {"stream", "propose"}
  /\ turn' = [turn EXCEPT ![t] = GoSettle(@, "REFUNDED")]
  /\ UNCHANGED <<budgetVars, log, actions, carried, posts>>

\* The places in the order of the candidates that are enabled.
Eligible(excluding, disabled) ==
  {i \in DOMAIN FALLBACK_ORDER : FALLBACK_ORDER[i] \in Configured \ (disabled \cup {excluding})}

pick_fallback_provider(excluding, disabled) ==
  IF Eligible(excluding, disabled) = {} THEN None
  ELSE FALLBACK_ORDER[Min(Eligible(excluding, disabled))]

\* Mutated form: text that reached the client does not prevent a fallback.
FallBackAfterText(t, disabled) ==
  LET r == turn[t]
      substitute == pick_fallback_provider(r.provider, disabled)
  IN  /\ r.pc = "stream"
      /\ ~r.fellBack /\ r.round = 0 /\ r.calls = {}
      /\ substitute # None
      /\ turn' = [turn EXCEPT ![t].provider = substitute, ![t].fellBack = TRUE]
      /\ UNCHANGED <<budgetVars, log, actions, carried, posts>>

\* Mutated form: a fallback may be followed by another.
FallBackAgain(t, disabled) ==
  LET r == turn[t]
      substitute == pick_fallback_provider(r.provider, disabled)
  IN  /\ r.pc = "stream"
      /\ r.round = 0 /\ ~r.text /\ r.calls = {}
      /\ substitute # None
      /\ turn' = [turn EXCEPT ![t].provider = substitute, ![t].fellBack = TRUE]
      /\ UNCHANGED <<budgetVars, log, actions, carried, posts>>

\* A timeout, a rate limit or a provider error of the first round, before
\* anything was produced: once, and only where the customer opted in (where
\* not, the turn Fails), it goes on with the first other eligible provider.
FallBack(t, disabled) ==
  LET r == turn[t]
      substitute == pick_fallback_provider(r.provider, disabled)
  IN  /\ r.pc = "stream"
      /\ ~r.fellBack /\ r.round = 0 /\ ~r.text /\ r.calls = {}
      /\ substitute # None
      /\ turn' = [turn EXCEPT ![t].provider = substitute, ![t].fellBack = TRUE]
      /\ UNCHANGED <<budgetVars, log, actions, carried, posts>>

\* The client is there and takes the chunk: the generator goes on.
Resume(t) ==
  /\ turn[t].pc \in {"text", "status"}
  /\ turn' = [turn EXCEPT ![t] =
                IF @.pc = "text" THEN [@ EXCEPT !.pc = "stream"]
                ELSE GoSettle(@, "RECONCILED")]
  /\ UNCHANGED <<budgetVars, log, actions, carried, posts>>

\* The client is gone when a chunk is to be sent: aclose raises GeneratorExit
\* at the yield.
Disconnect(t) ==
  /\ turn[t].pc \in {"text", "status"}
  /\ turn' = [turn EXCEPT ![t] = GoSettle(@, "REFUNDED")]
  /\ UNCHANGED <<budgetVars, log, actions, carried, posts>>

\* _reconcile_and_record: the row of the month is locked (the turn's own, or
\* a later month's), and the usage event gets its created_at.  A completed
\* turn yields its last chunk.
Settle(t) ==
  /\ turn[t].pc = "settle"
  /\ Free(t)
  /\ turn' = [turn EXCEPT ![t].recordedIn = month,
                          ![t].pc = IF turn[t].outcome = "RECONCILED" THEN "done" ELSE "end"]
  /\ UNCHANGED <<budgetVars, log, actions, carried, posts>>

\* The response is over.  An error before the first chunk is the request's
\* own and rolls everything back; otherwise the transaction commits, also
\* where the client left before the last chunk.
Finish(t) ==
  /\ turn[t].pc \in {"done", "end"}
  /\ IF turn[t].pc = "done" \/ turn[t].primed THEN Commit(t) ELSE Rollback(t)
  /\ UNCHANGED posts

\* The process, the connection or the request's task dies.
Dies(t) ==
  /\ turn[t].pc # "idle"
  /\ Rollback(t)
  /\ UNCHANGED <<posts>>

Deadlocked(t) == \E u \in Blockers(t) : t \in Blockers(u)

\* PostgreSQL aborts a transaction that waits in a cycle.
DeadlockAborts(t) ==
  /\ Deadlocked(t)
  /\ Rollback(t)
  /\ UNCHANGED posts

\* What the server, the database and the provider do for an open turn.
TurnStep(t) ==
  \/ Reserve(t)
  \/ ReserveRefused(t)
  \/ StreamText(t)
  \/ \E kind \in ToolKinds : StreamToolCall(t, kind)
  \/ \E tokens \in RoundTokens : StreamEnds(t, tokens)
  \/ Propose(t)
  \/ Replay(t)
  \/ Record(t)
  \/ Fails(t)
  \/ \E disabled \in SUBSET Providers : FallBack(t, disabled)
  \/ Resume(t)
  \/ Disconnect(t)
  \/ Settle(t)
  \/ Finish(t)
  \/ DeadlockAborts(t)

Next ==
  \/ \E t \in Turns :
       \/ \E p \in Providers, mode \in DOMAIN OutputTokens, disabled \in SUBSET Providers :
            Post(t, p, mode, disabled)
       \/ TurnStep(t)
       \/ Dies(t)
  \/ NextMonth /\ UNCHANGED chatVars

Spec == Init /\ [][Next]_vars

\* A turn that can go on does: the server runs it, the provider's client
\* library ends every stream with its last event, an error or a timeout, and
\* PostgreSQL grants locks and breaks deadlocks.
FairSpec == Spec /\ \A t \in Turns : WF_vars(TurnStep(t))

-----------------------------------------------------------------------------
LeastEstimate ==
  ai_max_tool_rounds
    * Min({estimate_cost_cents(p, OutputTokens[mode] + 1) :
             p \in Providers, mode \in DOMAIN OutputTokens})

DearestTurn ==
  Max({estimate_cost_cents(p, ai_max_tool_rounds * tokens) :
         p \in Providers, tokens \in RoundTokens})

\* Turns of one customer cannot pass the hard cap together: however many are
\* open, a month exceeds the cap by no more than one turn's excess over its
\* estimate, and by what turns brought over the month's end.
HardCapHolds ==
  \A m \in Months :
    SpentCents(m) <= HardCap + carried[m] + Max({0, DearestTurn - LeastEstimate})

\* A reservation outlives its turn only when the month ended meanwhile: in the
\* current month nothing is reserved that no open turn has reserved, whether
\* turns complete, fail, are cancelled or die.
ReservationsComeBack == \A m \in Months : ledger[m].reserved > 0 => m < month

\* Every cent of the ledger is explained by a usage event, those of failed
\* and cancelled turns included (the comment in stream_message's handler).
LedgerMatchesEvents ==
  Total([m \in Months |-> ledger[m].actual])
    = Total([m \in Months |-> usage[m]["RECONCILED"] + usage[m]["REFUNDED"]])

\* What one turn shows and stores is one provider's, fallback or not.
OneVoicePerTurn == \A t \in Turns : Cardinality(turn[t].authors) <= 1

\* Turns lock the ledger before the tip, so two of them wait for each other
\* only when one has seen the month end.
DeadlockNeedsMonthEnd ==
  \A t, u \in Turns :
    t \in Blockers(u) /\ u \in Blockers(t) =>
      \E v \in {t, u} : turn[v].reservedIn < month

\* Once no more messages are posted every turn ends and gives its locks back,
\* whoever waited for whom.
TurnsEnd == []<>(\A t \in Turns : turn[t].pc = "idle")

-----------------------------------------------------------------------------
(* The inductive invariant behind the safety properties above.             *)

\* The month's row is one turn's from its reservation to its end.
RowsAreHeldByOne ==
  \A t, u \in Turns, m \in Months : Holds(t, m) /\ Holds(u, m) => t = u

\* What the ledger relies on: the clock was read in the order of the steps, an
\* open turn's estimate fits under the cap beside what its month's row says,
\* and it has used no more tokens than its rounds allow.
SpendingOK(r) ==
  /\ r.reservedIn <= month
  /\ r.settledIn <= month
  /\ r.pc \in {"settle", "done", "end"} => r.reservedIn <= r.settledIn
  /\ r.pc # "idle" => r.provider \in Providers /\ LeastEstimate <= r.estimate
  /\ r.pc \notin {"idle", "reserve"} => MayReserve(ledger[r.reservedIn], r.estimate)
  /\ r.round < ai_max_tool_rounds
  /\ \E n \in RoundTokens :
       r.tokens <= n * IF r.pc \in {"idle", "reserve", "stream", "text"} THEN r.round
                       ELSE ai_max_tool_rounds

\* What a turn has said is its provider's, which changes only before a word.
VoiceOK(r) ==
  /\ r.authors \subseteq {r.provider}
  /\ r.pc \in {"idle", "reserve"} => ~r.proposed /\ r.authors = {}
  /\ r.pc = "stream" /\ r.round = 0 /\ ~r.text => r.authors = {}
  /\ r.pc = "text" => r.text

ChatInvariant ==
  /\ TypeOK
  /\ RowsAreHeldByOne
  /\ \A t \in Turns : SpendingOK(turn[t]) /\ VoiceOK(turn[t])
  /\ HardCapHolds
  /\ ReservationsComeBack
  /\ LedgerMatchesEvents

-----------------------------------------------------------------------------
(* What the repository says of the program, and the program does not do.   *)

\* _messages_to_history: "most-recent messages first, up to a character
\* budget": what the provider is sent ends with the message it is to answer.
QuestionIsSent ==
  [][\A t \in Turns :
       turn[t].pc = "idle" /\ turn'[t].pc = "reserve" =>
         \E m \in History(Visible(t))' :
           /\ m.by = t
           /\ \A n \in History(Visible(t))' : n.created_at <= m.created_at]_vars
=============================================================================
