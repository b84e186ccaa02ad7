----------------------------- MODULE AISettings -----------------------------
(***************************************************************************)
(* The stored choices a chat turn depends on, and how they are saved: the  *)
(* conversation's pin, the user's and the workspace's default, the switch  *)
(* of each provider, the fallback switch, the last test of a provider, and *)
(* the notification preferences, which are saved the same way.  One        *)
(* customer, user, workspace and conversation.  A save is a transaction of *)
(* several statements under READ COMMITTED; a turn reads each row in a     *)
(* statement of its own, between which saves commit.                       *)
(***************************************************************************)
EXTENDS Integers, Sequences, FiniteSets

CONSTANTS
  Rows,             \* the rows of the instance
  Requests,         \* saves that may be open at the same time
  Turns,
  Providers,
  Models,
  ModelOf,          \* provider -> ai_model_<provider>
  ai_default_provider,
  Configured,       \* providers with an API key
  Errors,           \* what a failed test reports
  MaxSaves,         \* bound on the saves and on the turns
  None

FALLBACK_ORDER == <<"OPENAI", "CLAUDE", "GEMINI">>

Preferences == {"conversation", "user", "workspace"}

Switches == {"fallback", "TASK_REMINDER", "SECURITY_ALERT"} \cup Providers

ASSUME SettingsAssumption ==
  /\ {"conversation", "user", "workspace", "fallback"} \cup Providers \subseteq Rows
  /\ Rows \subseteq Preferences \cup Switches \cup {"verification"}
  /\ ai_default_provider \in Providers
  /\ Configured \subseteq Providers
  /\ DOMAIN ModelOf = Providers
  /\ None \notin Providers
  /\ None \notin [provider : Providers, model : Models \cup {None}]
  /\ MaxSaves \in Nat

VARIABLES
  stored,    \* the committed rows, None where there is none
  save,      \* the open save of each request
  turn,      \* the turns that choose a provider
  saves      \* number of the saves and turns begun; serves as the clock

vars == <<stored, save, turn, saves>>

\* Of these types' rows, none says FALSE.
ALWAYS_ON_TYPES == {"SECURITY_ALERT"}

\* The columns and the values a request may ask a row to have.
Wanted(row) ==
  IF row \in Preferences
  THEN [provider : Providers, model : Models \cup {None}]
  ELSE IF row = "verification"
  THEN [at : {saves}, ok : {TRUE}, error : {None}] \cup [at : {saves}, ok : {FALSE}, error : Errors]
  ELSE [enabled : IF row \in ALWAYS_ON_TYPES THEN {TRUE} ELSE BOOLEAN]

\* The values the rows have had set, whatever was merged.
Settable(row) ==
  IF row \in Preferences
  THEN [provider : Providers, model : Models \cup {None}]
  ELSE IF row = "verification"
  THEN [at : 0 .. MaxSaves, ok : BOOLEAN, error : Errors \cup {None}]
  ELSE [enabled : IF row \in ALWAYS_ON_TYPES THEN {TRUE} ELSE BOOLEAN]

\* All but the conversation's row can be absent; a pin can be empty.
NoPin == [provider |-> None, model |-> None]

Unset(row) == IF row = "conversation" THEN NoPin ELSE None

Value(row) == Settable(row) \cup {Unset(row)}

IdleSave ==
  [pc |-> "idle", row |-> None, want |-> None, loaded |-> None, pending |-> None,
   overtaken |-> FALSE, cleared |-> FALSE]

IdleTurn ==
  [pc |-> "idle", provider |-> None, model |-> None, candidate |-> 1,
   seen |-> [row \in Rows |-> {}]]

Values == {None} \cup UNION {Value(row) : row \in Rows}

SaveRecord ==
  [pc : {"idle", "insert", "reload", "update", "delete", "written", "ok", "error"},
   row : Rows \cup {None}, want : Values, loaded : Values, pending : Values,
   overtaken : BOOLEAN,   \* another save of the row has committed since
   cleared : BOOLEAN]     \* and one of those has removed it

TurnRecord ==
  [pc : {"idle", "user", "workspace", "check", "call", "fallback", "substitute"},
   provider : Providers \cup {None},
   model : Models \cup {ModelOf[p] : p \in Providers} \cup {None},
   candidate : 1 .. Len(FALLBACK_ORDER) + 1,   \* the place of the one asked about
   seen : [Rows -> SUBSET Values]]   \* what each row has been since the turn began

TypeOK ==
  /\ stored \in [Rows -> Values]
  /\ \A row \in Rows : stored[row] \in Value(row)
  /\ save \in [Requests -> SaveRecord]
  /\ turn \in [Turns -> TurnRecord]
  /\ saves \in 0 .. MaxSaves

Init ==
  /\ stored = [row \in Rows |-> Unset(row)]
  /\ save = [r \in Requests |-> IdleSave]
  /\ turn = [t \in Turns |-> IdleTurn]
  /\ saves = 0

-----------------------------------------------------------------------------
(* Saving.                                                                 *)

\* The request has changed the row and not committed yet.
Locks(r, row) == save[r].pc = "written" /\ save[r].row = row

Unlocked(r) == \A q \in Requests \ {r} : ~Locks(q, save[r].row)

Begin(r, row, pc, want) ==
  /\ save[r].pc \in {"idle", "ok", "error"}
  /\ saves < MaxSaves
  /\ saves' = saves + 1
  /\ save' = [save EXCEPT ![r] = [IdleSave EXCEPT !.pc = pc, !.row = row, !.want = want,
                                    !.loaded = stored[row]]]
  /\ UNCHANGED <<stored, turn>>

\* set_user_ai_preference and the others that set: the row is read; without
\* one it is to be inserted.  A test of a provider's connection has ended
\* before.
BeginSet(r, row) ==
  \E want \in Wanted(row) :
    Begin(r, row, IF stored[row] = None THEN "insert" ELSE "update", want)

\* clear_user_ai_preference, clear_workspace_ai_preference, which do nothing
\* where there is no row.
BeginClear(r, row) ==
  /\ row \in {"user", "workspace"}
  /\ stored[row] # None
  /\ Begin(r, row, "delete", None)

Goto(r, pc) == save' = [save EXCEPT ![r].pc = pc]

\* The request is answered, "ok" or "error".
Answer(r, outcome) ==
  save' = [save EXCEPT ![r] = [IdleSave EXCEPT !.pc = outcome, !.cleared = save[r].cleared]]

Write(r, value) == save' = [save EXCEPT ![r].pc = "written", ![r].pending = value]

\* The insert, in a savepoint: it waits for one who has the row, and violates
\* the key where there is one.
Insert(r) ==
  /\ save[r].pc = "insert"
  /\ Unlocked(r)
  /\ IF stored[save[r].row] = None THEN Write(r, save[r].want)
     ELSE save' = [save EXCEPT ![r].pc = "reload", ![r].overtaken = FALSE]
  /\ UNCHANGED <<stored, turn, saves>>

\* Mutated form: the loser of the race keeps the winner's value.
ReloadAndKeep(r) ==
  /\ save[r].pc = "reload"
  /\ Answer(r, IF stored[save[r].row] = None THEN "error" ELSE "ok")
  /\ UNCHANGED <<stored, turn, saves>>

\* Mutated form: the violated key is an error.
ReloadFails(r) ==
  /\ save[r].pc = "reload"
  /\ Answer(r, "error")
  /\ UNCHANGED <<stored, turn, saves>>

\* The violated key is caught and the row read again: it must be there.
Reload(r) ==
  /\ save[r].pc = "reload"
  /\ IF stored[save[r].row] = None
     THEN Answer(r, "error")
     ELSE save' = [save EXCEPT ![r].pc = "update", ![r].loaded = stored[save[r].row],
                               ![r].overtaken = FALSE]
  /\ UNCHANGED <<stored, turn, saves>>

\* The columns that differ from the row as it was loaded are written.
Merge(current, loaded, want) ==
  [column \in DOMAIN want |->
     IF want[column] # loaded[column] THEN want[column] ELSE current[column]]

\* The flush: nothing where nothing differs; an update of a row that is gone
\* is an error.
Update(r) ==
  /\ save[r].pc = "update"
  /\ LET s == save[r]
     IN  \/ /\ s.want = s.loaded
            /\ Answer(r, "ok")
         \/ /\ s.want # s.loaded
            /\ Unlocked(r)
            /\ IF stored[s.row] = None THEN Answer(r, "error")
               ELSE Write(r, Merge(stored[s.row], s.loaded, s.want))
  /\ UNCHANGED <<stored, turn, saves>>

\* A delete of a row that is gone does nothing.
Delete(r) ==
  /\ save[r].pc = "delete"
  /\ Unlocked(r)
  /\ Write(r, None)
  /\ UNCHANGED <<stored, turn, saves>>

\* The save commits.  The open saves of the row have been overtaken, and the
\* open turns may see the new value.
Commit(r) ==
  LET s == save[r]
      clears == s.pending = None
  IN  /\ s.pc = "written"
      /\ stored' = [stored EXCEPT ![s.row] = s.pending]
      /\ save' = [q \in Requests |->
                    IF q = r THEN [IdleSave EXCEPT !.pc = "ok", !.cleared = s.cleared]
                    ELSE IF save[q].row = s.row
                    THEN [save[q] EXCEPT !.overtaken = TRUE, !.cleared = @ \/ clears]
                    ELSE save[q]]
      /\ turn' = [t \in Turns |->
                    IF turn[t].pc = "idle" THEN turn[t]
                    ELSE [turn[t] EXCEPT !.seen[s.row] = @ \cup {s.pending}]]
      /\ UNCHANGED saves

\* The request dies: its transaction rolls back.
Dies(r) ==
  /\ save[r].pc \notin {"idle", "ok", "error"}
  /\ save' = [save EXCEPT ![r] = IdleSave]
  /\ UNCHANGED <<stored, turn, saves>>

-----------------------------------------------------------------------------
(* Choosing a provider.                                                    *)

\* A row that was saved without a model stands for the provider's own.
default_model_for(value) == IF value.model = None THEN ModelOf[value.provider] ELSE value.model

Advance(t, pc, value) ==
  turn' = [turn EXCEPT ![t].pc = pc, ![t].provider = value.provider,
                       ![t].model = default_model_for(value)]

GotoTurn(t, pc) == turn' = [turn EXCEPT ![t].pc = pc]

Default == [provider |-> ai_default_provider, model |-> None]

\* stream_message: the conversation has been read, and its pin comes first.
BeginTurn(t) ==
  /\ turn[t].pc = "idle"
  /\ saves < MaxSaves
  /\ saves' = saves + 1
  /\ LET seen == [row \in Rows |-> {stored[row]}]
         pin == stored["conversation"]
         began == [IdleTurn EXCEPT !.seen = seen]
     IN  turn' = [turn EXCEPT ![t] =
                    IF pin.provider = None THEN [began EXCEPT !.pc = "user"]
                    ELSE [began EXCEPT !.pc = "check", !.provider = pin.provider,
                                       !.model = default_model_for(pin)]]
  /\ UNCHANGED <<stored, save>>

\* Mutated form: the user's default without a model takes the workspace's.
ReadUserMixed(t) ==
  /\ turn[t].pc = "user"
  /\ IF stored["user"] = None THEN GotoTurn(t, "workspace")
     ELSE Advance(t, "check",
            [stored["user"] EXCEPT !.model =
               IF @ = None /\ stored["workspace"] # None THEN stored["workspace"].model ELSE @])
  /\ UNCHANGED <<stored, save, saves>>

ReadUser(t) ==
  /\ turn[t].pc = "user"
  /\ IF stored["user"] = None THEN GotoTurn(t, "workspace")
     ELSE Advance(t, "check", stored["user"])
  /\ UNCHANGED <<stored, save, saves>>

ReadWorkspace(t) ==
  /\ turn[t].pc = "workspace"
  /\ Advance(t, "check", IF stored["workspace"] = None THEN Default ELSE stored["workspace"])
  /\ UNCHANGED <<stored, save, saves>>

\* Absence of the row means enabled.
is_provider_enabled(value) == value # None => value.enabled

\* Absence of the row means disabled.
is_fallback_enabled(value) == value # None /\ value.enabled

\* assert_provider_enabled: the turn calls the provider, or is refused.
CheckProvider(t) ==
  /\ turn[t].pc = "check"
  /\ IF is_provider_enabled(stored[turn[t].provider]) THEN GotoTurn(t, "call")
     ELSE turn' = [turn EXCEPT ![t] = IdleTurn]
  /\ UNCHANGED <<stored, save, saves>>

\* The provider failed and the turn may fall back, if the customer opted in.
CallFails(t) ==
  /\ turn[t].pc = "call"
  /\ IF is_fallback_enabled(stored["fallback"]) THEN GotoTurn(t, "fallback")
     ELSE turn' = [turn EXCEPT ![t] = IdleTurn]
  /\ UNCHANGED <<stored, save, saves>>

\* Mutated form: a candidate is taken whether it is enabled or not.
ConfiguredAlone(t, p) == p \in Configured \ {turn[t].provider}

\* The candidates for the turn's substitute that are enabled.
Eligible(t, p) ==
  /\ p \in Configured \ {turn[t].provider}
  /\ is_provider_enabled(stored[p])

\* pick_fallback_provider asks about one candidate after the other, each in a
\* statement of its own, and takes the first that is eligible.
Pick(t) ==
  /\ turn[t].pc = "fallback"
  /\ turn[t].candidate <= Len(FALLBACK_ORDER)
  /\ LET p == FALLBACK_ORDER[turn[t].candidate]
     IN  IF Eligible(t, p) THEN Advance(t, "substitute", [provider |-> p, model |-> None])
         ELSE turn' = [turn EXCEPT ![t].candidate = @ + 1]
  /\ UNCHANGED <<stored, save, saves>>

\* None was: no fallback is possible.
NoSubstitute(t) ==
  /\ turn[t].pc = "fallback"
  /\ turn[t].candidate > Len(FALLBACK_ORDER)
  /\ turn' = [turn EXCEPT ![t] = IdleTurn]
  /\ UNCHANGED <<stored, save, saves>>

EndTurn(t) ==
  /\ turn[t].pc \in {"call", "substitute"}
  /\ turn' = [turn EXCEPT ![t] = IdleTurn]
  /\ UNCHANGED <<stored, save, saves>>

Next ==
  \/ \E r \in Requests :
       \/ \E row \in Rows : BeginSet(r, row) \/ BeginClear(r, row)
       \/ Insert(r)
       \/ Reload(r)
       \/ Update(r)
       \/ Delete(r)
       \/ Commit(r)
       \/ Dies(r)
  \/ \E t \in Turns :
       \/ BeginTurn(t)
       \/ ReadUser(t)
       \/ ReadWorkspace(t)
       \/ CheckProvider(t)
       \/ CallFails(t)
       \/ Pick(t)
       \/ NoSubstitute(t)
       \/ EndTurn(t)

Spec == Init /\ [][Next]_vars

-----------------------------------------------------------------------------
\* What a save answered for is stored when it commits, unless another save of
\* the row committed after the statement in which this one last met the row
\* (the docstrings of the upserts: the loser of two inserts applies its own
\* value, and does not keep the winner's).  Where one did, a row may hold
\* columns of both.
OwnValueIsStored ==
  [][\A r \in Requests :
       /\ save[r].pc \notin {"idle", "ok", "error"}
       /\ save'[r].pc = "ok"
       /\ ~save[r].overtaken
       => stored'[save[r].row] = save[r].want]_vars

\* No two saves that set can make each other fail, however they overlap: an
\* error needs a clear of the row that committed meanwhile.
SetsDoNotClash == \A r \in Requests : save[r].pc = "error" => save[r].cleared

Tiers == <<"conversation", "user", "workspace">>

\* The tier's row, at some instant of the turn, left the choice to the next.
WasSilent(t, tier) == {None, NoPin} \cap turn[t].seen[tier] # {}

\* Provider and model of a turn are one tier's, as it was stored at some
\* instant of the turn, and every tier before it was silent at some instant.
\* No mixing of tiers, whatever is saved between the reads.
ChoiceIsOneTiers ==
  \A t \in Turns : turn[t].pc \in {"check", "call"} =>
    \E n \in 1 .. 4 :
      /\ \A k \in 1 .. n - 1 : WasSilent(t, Tiers[k])
      /\ \E value \in (IF n = 4 THEN {Default} ELSE turn[t].seen[Tiers[n]] \ {None, NoPin}) :
           turn[t].provider = value.provider /\ turn[t].model = default_model_for(value)

\* A provider that was off for the whole of a turn is never called in it, not
\* even as a substitute, and a substitute is called only where fallback was
\* switched on at some instant of the turn.
DisabledIsNeverCalled ==
  \A t \in Turns :
    /\ turn[t].pc \in {"call", "substitute"} =>
         \E value \in turn[t].seen[turn[t].provider] : is_provider_enabled(value)
    /\ turn[t].pc = "substitute" =>
         \E value \in turn[t].seen["fallback"] : is_fallback_enabled(value)

-----------------------------------------------------------------------------
(* The inductive invariant behind the safety properties above.             *)

\* What an open save relies on: the value it is to set or has written, that a
\* row which was there is gone only where a clear committed, and, while no
\* other save of the row has committed, that it knows what the row holds.  A
\* pin that has been set is never empty again.
SaveOK(r) ==
  LET s == save[r]
  IN  /\ s.pc = "error" => s.cleared
      /\ s.pc \in {"insert", "reload", "update"} => s.row \in Rows /\ s.want \in Settable(s.row)
      /\ s.pc = "delete" => s.row \in Rows \ {"conversation"} /\ s.want = None
      /\ s.pc = "written" =>
           /\ s.row \in Rows
           /\ s.pending \in Settable(s.row) \/ (s.pending = None /\ s.row # "conversation")
           /\ ~s.overtaken => s.pending = s.want
      /\ s.pc \in {"reload", "update"} /\ stored[s.row] = None => s.cleared
      /\ s.pc = "update" /\ ~s.overtaken => s.loaded = stored[s.row]
      /\ s.pc = "update" /\ s.row = "conversation" /\ stored[s.row] = NoPin => s.loaded = NoPin

\* What an open turn relies on: it may have seen each row as it is now, and
\* every step of the choice was made on what was stored at some instant.
TurnOK(t) ==
  LET x == turn[t]
  IN  /\ x.pc # "idle" => \A row \in Rows : stored[row] \in x.seen[row]
      /\ x.pc \in {"user", "workspace"} => WasSilent(t, "conversation")
      /\ x.pc = "workspace" => WasSilent(t, "user")
      /\ x.pc \in {"check", "call", "fallback", "substitute"} => x.provider \in Providers
      /\ x.pc \in {"fallback", "substitute"} =>
           \E value \in x.seen["fallback"] : is_fallback_enabled(value)

SettingsInvariant ==
  /\ TypeOK
  /\ \A r \in Requests : SaveOK(r)
  /\ \A t \in Turns : TurnOK(t)
  /\ ChoiceIsOneTiers
  /\ DisabledIsNeverCalled
=============================================================================
