-------------------------- MODULE AISettingsProofs --------------------------
(***************************************************************************)
(* The theorems about the stored choices and the turns that read them, for *)
(* any rows, providers and models, and any number of overlapping saves and *)
(* turns.                                                                  *)
(***************************************************************************)
EXTENDS AISettings, TLAPS

-----------------------------------------------------------------------------
(* The values of the rows.                                                 *)

LEMMA RowsPresent ==
  /\ "conversation" \in Rows /\ "user" \in Rows /\ "workspace" \in Rows /\ "fallback" \in Rows
  /\ Providers \subseteq Rows /\ None \notin Providers
  BY SettingsAssumption

LEMMA ValuesOfRows ==
  /\ None \in Values
  /\ \A row \in Rows : /\ Value(row) \subseteq Values
                       /\ Settable(row) \subseteq Value(row)
                       /\ row # "conversation" => None \in Value(row)
  BY DEF Values, Value, Unset

\* A preference that is stored names a provider.
LEMMA StoredPreference ==
  ASSUME NEW row \in Preferences, NEW v \in Settable(row)
  PROVE  /\ v.provider \in Providers /\ v.model \in Models \cup {None}
         /\ v # None /\ v # NoPin
  <1>1. v \in [provider : Providers, model : Models \cup {None}]
    BY DEF Settable
  <1>2. NoPin.provider = None
    BY DEF NoPin
  <1>3. QED
    BY <1>1, <1>2, SettingsAssumption

\* What a request asks for can be set.
LEMMA WantedIsSettable ==
  ASSUME TypeOK, NEW row \in Rows, NEW want \in Wanted(row)
  PROVE  want \in Settable(row)
  <1>1. saves \in 0 .. MaxSaves
    BY DEF TypeOK
  <1>2. CASE row \in Preferences
    BY <1>2 DEF Wanted, Settable
  <1>3. CASE row \notin Preferences /\ row = "verification"
    <2>1. want \in [at : {saves}, ok : {TRUE}, error : {None}]
                     \cup [at : {saves}, ok : {FALSE}, error : Errors]
      BY <1>3 DEF Wanted
    <2>2. want \in [at : 0 .. MaxSaves, ok : BOOLEAN, error : Errors \cup {None}]
      BY <1>1, <2>1
    <2>3. QED
      BY <1>3, <2>2 DEF Settable
  <1>4. CASE row \notin Preferences /\ row # "verification"
    BY <1>4 DEF Wanted, Settable
  <1>5. QED
    BY <1>2, <1>3, <1>4

\* An update of the columns that differ gives a value that could have been
\* set, also where the row has changed since it was loaded.
LEMMA MergeIsSettable ==
  ASSUME NEW row \in Rows, NEW want \in Settable(row), NEW current \in Value(row),
         NEW loaded, current # None,
         row = "conversation" /\ current = NoPin => loaded = NoPin
  PROVE  Merge(current, loaded, want) \in Settable(row)
  <1>1. CASE row \in Preferences
    <2>1. want \in [provider : Providers, model : Models \cup {None}]
      BY <1>1 DEF Settable
    <2>2. DOMAIN want = {"provider", "model"}
      BY <2>1
    <2>3. CASE current = NoPin /\ row = "conversation"
      <3>1. loaded.provider = None /\ current.model = None
        BY <2>3 DEF NoPin
      <3>2. want.provider # loaded.provider
        BY <2>1, <3>1, RowsPresent
      <3>3. QED
        BY <1>1, <2>1, <2>2, <3>1, <3>2 DEF Merge, Settable
    <2>4. CASE current \in Settable(row)
      <3>1. current \in [provider : Providers, model : Models \cup {None}]
        BY <1>1, <2>4 DEF Settable
      <3>2. QED
        BY <1>1, <2>1, <2>2, <3>1 DEF Merge, Settable
    <2>5. QED
      BY <2>3, <2>4 DEF Value, Unset
  <1>2. CASE row \notin Preferences
    <2>0. current \in Settable(row)
      BY <1>2 DEF Value, Unset, Preferences
    <2>1. CASE row = "verification"
      <3>1. /\ want \in [at : 0 .. MaxSaves, ok : BOOLEAN, error : Errors \cup {None}]
            /\ current \in [at : 0 .. MaxSaves, ok : BOOLEAN, error : Errors \cup {None}]
        BY <1>2, <2>0, <2>1 DEF Settable
      <3>2. DOMAIN want = {"at", "ok", "error"}
        BY <3>1
      <3>3. Merge(current, loaded, want) \in
              [at : 0 .. MaxSaves, ok : BOOLEAN, error : Errors \cup {None}]
        BY <3>1, <3>2 DEF Merge
      <3>4. QED
        BY <1>2, <2>1, <3>3 DEF Settable
    <2>2. CASE row # "verification"
      <3> DEFINE E == IF row \in ALWAYS_ON_TYPES THEN {TRUE} ELSE BOOLEAN
      <3>1. want \in [enabled : E] /\ current \in [enabled : E]
        BY <1>2, <2>0, <2>2 DEF Settable
      <3> HIDE DEF E
      <3>2. Merge(current, loaded, want) \in [enabled : E]
        BY <3>1 DEF Merge
      <3>3. QED
        BY <1>2, <2>2, <3>2 DEF Settable, E
    <2>3. QED
      BY <2>1, <2>2
  <1>3. QED
    BY <1>1, <1>2

\* Without another save in between the update writes what was asked for.
LEMMA MergeIsWanted ==
  ASSUME NEW row \in Rows, NEW want \in Settable(row), NEW loaded
  PROVE  Merge(loaded, loaded, want) = want
  <1> DEFINE E == IF row \in ALWAYS_ON_TYPES THEN {TRUE} ELSE BOOLEAN
  <1>1. \/ want \in [provider : Providers, model : Models \cup {None}]
        \/ want \in [at : 0 .. MaxSaves, ok : BOOLEAN, error : Errors \cup {None}]
        \/ want \in [enabled : E]
    BY DEF Settable
  <1> HIDE DEF E
  <1>2. want = [column \in DOMAIN want |-> want[column]]
    BY <1>1
  <1>3. QED
    BY <1>2 DEF Merge

-----------------------------------------------------------------------------
(* What the steps of a save write.                                         *)

OthersKeepTheirSave(r) == \A q \in Requests : q # r => save'[q] = save[q]

\* A save has begun, with the row as it is.
LEMMA Began ==
  ASSUME TypeOK, NEW r \in Requests, NEW row \in Rows,
         NEW pc \in {"insert", "update", "delete"}, NEW want \in Values, Begin(r, row, pc, want)
  PROVE  /\ save' \in [Requests -> SaveRecord] /\ OthersKeepTheirSave(r)
         /\ save'[r].pc = pc /\ save'[r].row = row /\ save'[r].want = want
         /\ save'[r].loaded = stored[row] /\ ~save'[r].overtaken /\ ~save'[r].cleared
  <1> DEFINE n == [IdleSave EXCEPT !.pc = pc, !.row = row, !.want = want, !.loaded = stored[row]]
  <1>1. /\ save \in [Requests -> SaveRecord] /\ stored[row] \in Values
        /\ save' = [save EXCEPT ![r] = n]
    BY DEF TypeOK, Begin
  <1>2. /\ n \in SaveRecord /\ n.pc = pc /\ n.row = row /\ n.want = want
        /\ n.loaded = stored[row] /\ ~n.overtaken /\ ~n.cleared
    BY <1>1, ValuesOfRows DEF IdleSave, SaveRecord
  <1> HIDE DEF n
  <1>3. QED
    BY <1>1, <1>2 DEF OthersKeepTheirSave

\* A save has been answered.
LEMMA Answered ==
  ASSUME TypeOK, NEW r \in Requests, NEW outcome \in {"ok", "error"}, Answer(r, outcome)
  PROVE  /\ save' \in [Requests -> SaveRecord] /\ OthersKeepTheirSave(r)
         /\ save'[r].pc = outcome /\ save'[r].cleared = save[r].cleared
  <1> DEFINE n == [IdleSave EXCEPT !.pc = outcome, !.cleared = save[r].cleared]
  <1>1. /\ save \in [Requests -> SaveRecord] /\ save[r].cleared \in BOOLEAN
        /\ save' = [save EXCEPT ![r] = n]
    BY DEF TypeOK, Answer, SaveRecord
  <1>2. n \in SaveRecord /\ n.pc = outcome /\ n.cleared = save[r].cleared
    BY <1>1, ValuesOfRows DEF IdleSave, SaveRecord
  <1> HIDE DEF n
  <1>3. QED
    BY <1>1, <1>2 DEF OthersKeepTheirSave

\* A save has written its row, and waits to commit.
LEMMA Wrote ==
  ASSUME TypeOK, NEW r \in Requests, NEW value \in Values, Write(r, value)
  PROVE  /\ save' \in [Requests -> SaveRecord] /\ OthersKeepTheirSave(r)
         /\ save'[r].pc = "written" /\ save'[r].pending = value /\ save'[r].row = save[r].row
         /\ save'[r].want = save[r].want /\ save'[r].overtaken = save[r].overtaken
  <1>1. save \in [Requests -> SaveRecord]
    BY DEF TypeOK
  <1>2. QED
    BY <1>1 DEF Write, SaveRecord, OthersKeepTheirSave

\* A violated key, and the row read again.
LEMMA KeyViolated ==
  ASSUME TypeOK, NEW r \in Requests,
         save' = [save EXCEPT ![r].pc = "reload", ![r].overtaken = FALSE]
  PROVE  /\ save' \in [Requests -> SaveRecord] /\ OthersKeepTheirSave(r)
         /\ save'[r].pc = "reload" /\ save'[r].row = save[r].row
         /\ save'[r].want = save[r].want
  <1>1. save \in [Requests -> SaveRecord]
    BY DEF TypeOK
  <1>2. QED
    BY <1>1 DEF SaveRecord, OthersKeepTheirSave

LEMMA ReadAgain ==
  ASSUME TypeOK, NEW r \in Requests, save[r].row \in Rows,
         save' = [save EXCEPT ![r].pc = "update", ![r].loaded = stored[save[r].row],
                              ![r].overtaken = FALSE]
  PROVE  /\ save' \in [Requests -> SaveRecord] /\ OthersKeepTheirSave(r)
         /\ save'[r].pc = "update" /\ save'[r].row = save[r].row
         /\ save'[r].want = save[r].want /\ save'[r].loaded = stored[save[r].row]
         /\ ~save'[r].overtaken
  <1>1. save \in [Requests -> SaveRecord] /\ stored[save[r].row] \in Values
    BY DEF TypeOK
  <1>2. QED
    BY <1>1 DEF SaveRecord, OthersKeepTheirSave

LEMMA Died ==
  ASSUME TypeOK, NEW r \in Requests, Dies(r)
  PROVE  /\ save' \in [Requests -> SaveRecord] /\ OthersKeepTheirSave(r)
         /\ save'[r].pc = "idle"
  <1>1. IdleSave \in SaveRecord /\ IdleSave.pc = "idle"
    BY ValuesOfRows DEF IdleSave, SaveRecord
  <1>2. QED
    BY <1>1 DEF Dies, TypeOK, OthersKeepTheirSave

\* A commit: the saver is answered and the others of the row are overtaken.
LEMMA CommitMarks ==
  ASSUME TypeOK, NEW r \in Requests, Commit(r)
  PROVE  /\ save' \in [Requests -> SaveRecord]
         /\ save'[r].pc = "ok"
         /\ \A q \in Requests : q # r /\ save[q].row # save[r].row => save'[q] = save[q]
         /\ \A q \in Requests : q # r /\ save[q].row = save[r].row =>
              /\ save'[q].pc = save[q].pc /\ save'[q].row = save[q].row
              /\ save'[q].want = save[q].want /\ save'[q].loaded = save[q].loaded
              /\ save'[q].pending = save[q].pending /\ save'[q].overtaken
              /\ save'[q].cleared = (save[q].cleared \/ save[r].pending = None)
  <1> DEFINE n == [IdleSave EXCEPT !.pc = "ok", !.cleared = save[r].cleared]
             c == save[r].pending = None
             m(q) == [save[q] EXCEPT !.overtaken = TRUE, !.cleared = @ \/ c]
  <1>1. /\ save \in [Requests -> SaveRecord]
        /\ save' = [q \in Requests |-> IF q = r THEN n
                                       ELSE IF save[q].row = save[r].row THEN m(q) ELSE save[q]]
    BY DEF TypeOK, Commit
  <1>2. n \in SaveRecord /\ n.pc = "ok"
    BY <1>1, ValuesOfRows DEF IdleSave, SaveRecord
  <1>3. ASSUME NEW q \in Requests
        PROVE  /\ m(q) \in SaveRecord
               /\ m(q).pc = save[q].pc /\ m(q).row = save[q].row
               /\ m(q).want = save[q].want /\ m(q).loaded = save[q].loaded
               /\ m(q).pending = save[q].pending /\ m(q).overtaken = TRUE
               /\ m(q).cleared = (save[q].cleared \/ c)
    <2>1. c \in BOOLEAN /\ save[q] \in SaveRecord
      BY <1>1
    <2> HIDE DEF c
    <2>2. QED
      BY <2>1 DEF SaveRecord
  <1> HIDE DEF n, m, c
  <1>4. save' \in [Requests -> SaveRecord]
    BY <1>1, <1>2, <1>3
  <1>5. QED
    BY <1>1, <1>2, <1>3, <1>4 DEF c

-----------------------------------------------------------------------------
(* What the steps of a turn write.                                         *)

OthersKeepTheirTurn(t) == \A u \in Turns : u # t => turn'[u] = turn[u]

LEMMA OwnModel ==
  ASSUME NEW v, v.provider \in Providers, v.model \in Models \cup {None}
  PROVE  default_model_for(v) \in Models \cup {ModelOf[p] : p \in Providers} \cup {None}
  BY DEF default_model_for

LEMMA Advanced ==
  ASSUME TypeOK, NEW t \in Turns, NEW pc \in {"check", "substitute"}, NEW v,
         v.provider \in Providers, v.model \in Models \cup {None}, Advance(t, pc, v)
  PROVE  /\ turn' \in [Turns -> TurnRecord] /\ OthersKeepTheirTurn(t)
         /\ turn'[t].pc = pc /\ turn'[t].seen = turn[t].seen
         /\ turn'[t].provider = v.provider /\ turn'[t].model = default_model_for(v)
  <1> DEFINE p == v.provider
             m == default_model_for(v)
  <1>1. /\ turn \in [Turns -> TurnRecord] /\ p \in Providers
        /\ m \in Models \cup {ModelOf[q] : q \in Providers} \cup {None}
        /\ turn' = [turn EXCEPT ![t].pc = pc, ![t].provider = p, ![t].model = m]
    BY OwnModel DEF TypeOK, Advance
  <1> HIDE DEF p, m
  <1>2. /\ turn' \in [Turns -> TurnRecord] /\ OthersKeepTheirTurn(t)
        /\ turn'[t].pc = pc /\ turn'[t].seen = turn[t].seen
        /\ turn'[t].provider = p /\ turn'[t].model = m
    BY <1>1 DEF TurnRecord, OthersKeepTheirTurn
  <1>3. QED
    BY <1>2 DEF p, m

LEMMA WentOn ==
  ASSUME TypeOK, NEW t \in Turns, NEW pc \in {"workspace", "call", "fallback"}, GotoTurn(t, pc)
  PROVE  /\ turn' \in [Turns -> TurnRecord] /\ OthersKeepTheirTurn(t)
         /\ turn'[t].pc = pc /\ turn'[t].seen = turn[t].seen
         /\ turn'[t].provider = turn[t].provider /\ turn'[t].model = turn[t].model
  <1>1. turn \in [Turns -> TurnRecord]
    BY DEF TypeOK
  <1>2. QED
    BY <1>1 DEF GotoTurn, TurnRecord, OthersKeepTheirTurn

\* The candidate is not eligible, and the next is asked about.
LEMMA NextAsked ==
  ASSUME TypeOK, NEW t \in Turns, turn[t].candidate <= Len(FALLBACK_ORDER),
         turn' = [turn EXCEPT ![t].candidate = @ + 1]
  PROVE  /\ turn' \in [Turns -> TurnRecord] /\ OthersKeepTheirTurn(t)
         /\ turn'[t].pc = turn[t].pc /\ turn'[t].seen = turn[t].seen
         /\ turn'[t].provider = turn[t].provider
  <1> DEFINE n == [turn[t] EXCEPT !.candidate = @ + 1]
             k == turn[t].candidate + 1
  <1>1. /\ turn \in [Turns -> TurnRecord] /\ turn[t] \in TurnRecord
        /\ turn' = [turn EXCEPT ![t] = n]
    BY DEF TypeOK
  <1>2. k \in 1 .. Len(FALLBACK_ORDER) + 1
    BY <1>1 DEF TurnRecord, FALLBACK_ORDER
  <1>3. /\ n \in TurnRecord /\ n.pc = turn[t].pc /\ n.seen = turn[t].seen
        /\ n.provider = turn[t].provider
    BY <1>1, <1>2 DEF TurnRecord
  <1> HIDE DEF n
  <1>4. QED
    BY <1>1, <1>3 DEF OthersKeepTheirTurn

LEMMA TurnOver ==
  ASSUME TypeOK, NEW t \in Turns, turn' = [turn EXCEPT ![t] = IdleTurn]
  PROVE  /\ turn' \in [Turns -> TurnRecord] /\ OthersKeepTheirTurn(t)
         /\ turn'[t].pc = "idle"
  <1>1. IdleTurn \in TurnRecord /\ IdleTurn.pc = "idle"
    BY DEF IdleTurn, TurnRecord, FALLBACK_ORDER
  <1>2. QED
    BY <1>1 DEF TypeOK, OthersKeepTheirTurn

\* A turn begins with the pin of the conversation, where it has one.
LEMMA TurnBegan ==
  ASSUME TypeOK, NEW t \in Turns, BeginTurn(t)
  PROVE  LET pin == stored["conversation"] IN
         /\ turn' \in [Turns -> TurnRecord] /\ OthersKeepTheirTurn(t)
         /\ \A row \in Rows : turn'[t].seen[row] = {stored[row]}
         /\ \/ pin = NoPin /\ turn'[t].pc = "user"
            \/ /\ pin \in Settable("conversation") /\ turn'[t].pc = "check"
               /\ turn'[t].provider = pin.provider /\ turn'[t].model = default_model_for(pin)
  <1> DEFINE seen == [row \in Rows |-> {stored[row]}]
             pin == stored["conversation"]
             m == default_model_for(pin)
             began == [IdleTurn EXCEPT !.seen = seen]
  <1>1. /\ turn \in [Turns -> TurnRecord] /\ seen \in [Rows -> SUBSET Values]
        /\ pin \in Value("conversation")
    BY RowsPresent DEF TypeOK
  <1>2. turn' = [turn EXCEPT ![t] =
                   IF pin.provider = None THEN [began EXCEPT !.pc = "user"]
                   ELSE [began EXCEPT !.pc = "check", !.provider = pin.provider, !.model = m]]
    BY DEF BeginTurn
  <1>3. \A row \in Rows : seen[row] = {stored[row]}
    OBVIOUS
  <1>a. pin = NoPin \/ pin \in Settable("conversation")
    BY <1>1 DEF Value, Unset
  <1> HIDE DEF seen
  <1>4. began \in TurnRecord /\ began.seen = seen
    BY <1>1 DEF IdleTurn, TurnRecord, FALLBACK_ORDER
  <1> HIDE DEF began
  <1>5. CASE pin = NoPin
    <2>1. pin.provider = None
      BY <1>5 DEF NoPin
    <2>2. turn' = [turn EXCEPT ![t] = [began EXCEPT !.pc = "user"]]
      BY <1>2, <2>1
    <2>3. /\ turn' \in [Turns -> TurnRecord] /\ OthersKeepTheirTurn(t)
          /\ turn'[t].pc = "user" /\ turn'[t].seen = seen
      BY <1>1, <1>4, <2>2 DEF TurnRecord, OthersKeepTheirTurn
    <2>4. QED
      BY <1>3, <1>5, <2>3
  <1>6. CASE pin \in Settable("conversation")
    <2>1. pin.provider \in Providers /\ pin.model \in Models \cup {None}
      BY <1>6, StoredPreference DEF Preferences
    <2>2. pin.provider # None
      BY <2>1, RowsPresent
    <2>3. m \in Models \cup {ModelOf[q] : q \in Providers} \cup {None}
      BY <2>1, OwnModel
    <2> DEFINE p == pin.provider
    <2>4. turn' = [turn EXCEPT ![t] = [began EXCEPT !.pc = "check", !.provider = p, !.model = m]]
      BY <1>2, <2>2
    <2>5. p \in Providers
      BY <2>1
    <2> HIDE DEF p, m
    <2>6. /\ turn' \in [Turns -> TurnRecord] /\ OthersKeepTheirTurn(t)
          /\ turn'[t].pc = "check" /\ turn'[t].seen = seen
          /\ turn'[t].provider = p /\ turn'[t].model = m
      BY <1>1, <1>4, <2>3, <2>4, <2>5 DEF TurnRecord, OthersKeepTheirTurn
    <2>7. QED
      BY <1>3, <1>6, <2>6 DEF p, m
  <1>7. QED
    BY <1>a, <1>5, <1>6

\* A commit shows its value to the open turns, and changes nothing else.
LEMMA CommitShows ==
  ASSUME TypeOK, NEW r \in Requests, Commit(r), save[r].row \in Rows
  PROVE  /\ turn' \in [Turns -> TurnRecord]
         /\ \A t \in Turns :
              /\ turn'[t].pc = turn[t].pc /\ turn'[t].provider = turn[t].provider
              /\ turn'[t].model = turn[t].model
              /\ \A row \in Rows : turn[t].seen[row] \subseteq turn'[t].seen[row]
              /\ turn[t].pc # "idle" => save[r].pending \in turn'[t].seen[save[r].row]
  <1> DEFINE w == save[r].row
             v == save[r].pending
             m(t) == [turn[t] EXCEPT !.seen[w] = @ \cup {v}]
  <1>1. /\ turn \in [Turns -> TurnRecord] /\ v \in Values /\ w \in Rows
        /\ turn' = [t \in Turns |-> IF turn[t].pc = "idle" THEN turn[t] ELSE m(t)]
    BY DEF TypeOK, Commit, SaveRecord
  <1> HIDE DEF v, w
  <1>2. ASSUME NEW t \in Turns
        PROVE  /\ m(t) \in TurnRecord
               /\ m(t).pc = turn[t].pc /\ m(t).provider = turn[t].provider
               /\ m(t).model = turn[t].model
               /\ \A row \in Rows : turn[t].seen[row] \subseteq m(t).seen[row]
               /\ v \in m(t).seen[w]
    <2> DEFINE s == [turn[t].seen EXCEPT ![w] = @ \cup {v}]
    <2>1. turn[t] \in TurnRecord /\ turn[t].seen \in [Rows -> SUBSET Values]
      BY <1>1 DEF TurnRecord
    <2>2. /\ s \in [Rows -> SUBSET Values] /\ v \in s[w]
          /\ \A row \in Rows : turn[t].seen[row] \subseteq s[row]
      BY <1>1, <2>1
    <2>3. m(t) = [turn[t] EXCEPT !.seen = s]
      OBVIOUS
    <2> HIDE DEF s, m
    <2>4. /\ m(t) \in TurnRecord /\ m(t).pc = turn[t].pc /\ m(t).provider = turn[t].provider
          /\ m(t).model = turn[t].model /\ m(t).seen = s
      BY <2>1, <2>2, <2>3 DEF TurnRecord
    <2>5. QED
      BY <2>2, <2>4
  <1> HIDE DEF m
  <1>3. turn' \in [Turns -> TurnRecord]
    BY <1>1, <1>2
  <1>4. ASSUME NEW t \in Turns
        PROVE  /\ turn'[t].pc = turn[t].pc /\ turn'[t].provider = turn[t].provider
               /\ turn'[t].model = turn[t].model
               /\ \A row \in Rows : turn[t].seen[row] \subseteq turn'[t].seen[row]
               /\ turn[t].pc # "idle" => v \in turn'[t].seen[w]
    BY <1>1, <1>2
  <1>5. QED
    BY <1>3, <1>4 DEF v, w

-----------------------------------------------------------------------------
(* Each step preserves the invariant.                                      *)

\* One turn's part of ChoiceIsOneTiers and of DisabledIsNeverCalled.
ChoiceOK(t) ==
  turn[t].pc \in {"check", "call"} =>
    \E n \in 1 .. 4 :
      /\ \A k \in 1 .. n - 1 : WasSilent(t, Tiers[k])
      /\ \E value \in (IF n = 4 THEN {Default} ELSE turn[t].seen[Tiers[n]] \ {None, NoPin}) :
           turn[t].provider = value.provider /\ turn[t].model = default_model_for(value)

CallOK(t) ==
  /\ turn[t].pc \in {"call", "substitute"} =>
       \E value \in turn[t].seen[turn[t].provider] : is_provider_enabled(value)
  /\ turn[t].pc = "substitute" =>
       \E value \in turn[t].seen["fallback"] : is_fallback_enabled(value)

LEMMA InvariantByTurn ==
  SettingsInvariant <=> /\ TypeOK
                        /\ \A r \in Requests : SaveOK(r)
                        /\ \A t \in Turns : TurnOK(t) /\ ChoiceOK(t) /\ CallOK(t)
  BY DEF SettingsInvariant, ChoiceIsOneTiers, DisabledIsNeverCalled, ChoiceOK, CallOK

LEMMA SaveOKKept ==
  ASSUME NEW r \in Requests, SaveOK(r), stored' = stored, save'[r] = save[r]
  PROVE  SaveOK(r)'
  BY DEF SaveOK

LEMMA TurnOKKept ==
  ASSUME NEW t \in Turns, TurnOK(t), ChoiceOK(t), CallOK(t), stored' = stored, turn'[t] = turn[t]
  PROVE  TurnOK(t)' /\ ChoiceOK(t)' /\ CallOK(t)'
  BY DEF TurnOK, ChoiceOK, CallOK, WasSilent

\* A step of a save other than its commit changes that save alone.
SaveStep(r) ==
  \/ \E row \in Rows : BeginSet(r, row) \/ BeginClear(r, row)
  \/ Insert(r) \/ Reload(r) \/ Update(r) \/ Delete(r) \/ Dies(r)

LEMMA SaveStepKeeps ==
  ASSUME SettingsInvariant, NEW r \in Requests, SaveStep(r)
  PROVE  /\ save' \in [Requests -> SaveRecord] /\ OthersKeepTheirSave(r) /\ SaveOK(r)'
         /\ UNCHANGED <<stored, turn>> /\ saves' \in 0 .. MaxSaves
  <1>0. TypeOK /\ SaveOK(r) /\ saves \in 0 .. MaxSaves
        /\ \A row \in Rows : stored[row] \in Value(row) /\ stored[row] \in Values
    BY DEF SettingsInvariant, TypeOK
  <1>1. ASSUME NEW row \in Rows, BeginSet(r, row)
        PROVE  /\ save' \in [Requests -> SaveRecord] /\ OthersKeepTheirSave(r) /\ SaveOK(r)'
               /\ UNCHANGED <<stored, turn>> /\ saves' \in 0 .. MaxSaves
    <2> DEFINE pc == IF stored[row] = None THEN "insert" ELSE "update"
    <2>1. PICK want \in Wanted(row) : Begin(r, row, pc, want)
      BY <1>1 DEF BeginSet
    <2>2. want \in Settable(row) /\ want \in Values
      BY <1>0, WantedIsSettable, ValuesOfRows
    <2>3. /\ UNCHANGED <<stored, turn>> /\ saves' \in 0 .. MaxSaves
      BY <1>0, <2>1, SettingsAssumption DEF Begin
    <2>4. /\ save' \in [Requests -> SaveRecord] /\ OthersKeepTheirSave(r)
          /\ save'[r].pc = pc /\ save'[r].row = row /\ save'[r].want = want
          /\ save'[r].loaded = stored[row] /\ ~save'[r].overtaken
      BY <1>0, <2>1, <2>2, Began
    <2>5. SaveOK(r)'
      BY <2>2, <2>3, <2>4 DEF SaveOK
    <2>6. QED
      BY <2>3, <2>4, <2>5
  <1>2. ASSUME NEW row \in Rows, BeginClear(r, row)
        PROVE  /\ save' \in [Requests -> SaveRecord] /\ OthersKeepTheirSave(r) /\ SaveOK(r)'
               /\ UNCHANGED <<stored, turn>> /\ saves' \in 0 .. MaxSaves
    <2>1. Begin(r, row, "delete", None) /\ row \in {"user", "workspace"}
      BY <1>2 DEF BeginClear
    <2>2. UNCHANGED <<stored, turn>> /\ saves' \in 0 .. MaxSaves
      BY <1>0, <2>1, SettingsAssumption DEF Begin
    <2>3. /\ save' \in [Requests -> SaveRecord] /\ OthersKeepTheirSave(r)
          /\ save'[r].pc = "delete" /\ save'[r].row = row /\ save'[r].want = None
      BY <1>0, <2>1, ValuesOfRows, Began
    <2>4. SaveOK(r)'
      BY <2>1, <2>3 DEF SaveOK
    <2>5. QED
      BY <2>2, <2>3, <2>4
  <1>3. CASE Insert(r)
    <2>1. /\ save[r].pc = "insert" /\ UNCHANGED <<stored, turn, saves>>
          /\ save[r].row \in Rows /\ save[r].want \in Settable(save[r].row)
      BY <1>0, <1>3 DEF Insert, SaveOK
    <2>2. save[r].want \in Values
      BY <2>1, ValuesOfRows
    <2>3. CASE stored[save[r].row] = None
      <3>1. Write(r, save[r].want)
        BY <1>3, <2>3 DEF Insert
      <3>2. /\ save' \in [Requests -> SaveRecord] /\ OthersKeepTheirSave(r)
            /\ save'[r].pc = "written" /\ save'[r].pending = save[r].want
            /\ save'[r].row = save[r].row /\ save'[r].want = save[r].want
        BY <1>0, <2>2, <3>1, Wrote
      <3>3. SaveOK(r)'
        BY <2>1, <3>2 DEF SaveOK
      <3>4. QED
        BY <1>0, <2>1, <3>2, <3>3
    <2>4. CASE stored[save[r].row] # None
      <3>1. save' = [save EXCEPT ![r].pc = "reload", ![r].overtaken = FALSE]
        BY <1>3, <2>4 DEF Insert
      <3>2. /\ save' \in [Requests -> SaveRecord] /\ OthersKeepTheirSave(r)
            /\ save'[r].pc = "reload" /\ save'[r].row = save[r].row
            /\ save'[r].want = save[r].want
        BY <1>0, <3>1, KeyViolated
      <3>3. SaveOK(r)'
        BY <2>1, <2>4, <3>2 DEF SaveOK
      <3>4. QED
        BY <1>0, <2>1, <3>2, <3>3
    <2>5. QED
      BY <2>3, <2>4
  <1>4. CASE Reload(r)
    <2>1. /\ save[r].pc = "reload" /\ UNCHANGED <<stored, turn, saves>>
          /\ save[r].row \in Rows /\ save[r].want \in Settable(save[r].row)
          /\ stored[save[r].row] = None => save[r].cleared
      BY <1>0, <1>4 DEF Reload, SaveOK
    <2>2. CASE stored[save[r].row] = None
      <3>1. Answer(r, "error")
        BY <1>4, <2>2 DEF Reload
      <3>2. /\ save' \in [Requests -> SaveRecord] /\ OthersKeepTheirSave(r)
            /\ save'[r].pc = "error" /\ save'[r].cleared
        BY <1>0, <2>1, <2>2, <3>1, Answered
      <3>3. SaveOK(r)'
        BY <3>2 DEF SaveOK
      <3>4. QED
        BY <1>0, <2>1, <3>2, <3>3
    <2>3. CASE stored[save[r].row] # None
      <3>1. save' = [save EXCEPT ![r].pc = "update", ![r].loaded = stored[save[r].row],
                                 ![r].overtaken = FALSE]
        BY <1>4, <2>3 DEF Reload
      <3>2. /\ save' \in [Requests -> SaveRecord] /\ OthersKeepTheirSave(r)
            /\ save'[r].pc = "update" /\ save'[r].row = save[r].row
            /\ save'[r].want = save[r].want /\ save'[r].loaded = stored[save[r].row]
        BY <1>0, <2>1, <3>1, ReadAgain
      <3>3. SaveOK(r)'
        BY <2>1, <2>3, <3>2 DEF SaveOK
      <3>4. QED
        BY <1>0, <2>1, <3>2, <3>3
    <2>4. QED
      BY <2>2, <2>3
  <1>5. CASE Update(r)
    <2> DEFINE w == save[r].row
               l == save[r].loaded
               n == save[r].want
    <2>1. /\ save[r].pc = "update" /\ UNCHANGED <<stored, turn, saves>>
          /\ w \in Rows /\ n \in Settable(w)
          /\ stored[w] = None => save[r].cleared
          /\ ~save[r].overtaken => l = stored[w]
          /\ w = "conversation" /\ stored[w] = NoPin => l = NoPin
      BY <1>0, <1>5 DEF Update, SaveOK
    <2>2. CASE \E outcome \in {"ok", "error"} :
                 Answer(r, outcome) /\ (outcome = "error" => stored[w] = None)
      <3>1. PICK outcome \in {"ok", "error"} :
              Answer(r, outcome) /\ (outcome = "error" => stored[w] = None)
        BY <2>2
      <3>2. /\ save' \in [Requests -> SaveRecord] /\ OthersKeepTheirSave(r)
            /\ save'[r].pc = outcome /\ save'[r].cleared = save[r].cleared
        BY <1>0, <3>1, Answered
      <3>3. SaveOK(r)'
        BY <2>1, <3>1, <3>2 DEF SaveOK
      <3>4. QED
        BY <1>0, <2>1, <3>2, <3>3
    <2>3. CASE stored[w] # None /\ Write(r, Merge(stored[w], l, n))
      <3> DEFINE v == Merge(stored[w], l, n)
      <3>1. v \in Settable(w)
        BY <1>0, <2>1, <2>3, MergeIsSettable
      <3>2. ~save[r].overtaken => v = n
        BY <2>1, MergeIsWanted
      <3>3. v \in Values
        BY <2>1, <3>1, ValuesOfRows
      <3> HIDE DEF v
      <3>4. /\ save' \in [Requests -> SaveRecord] /\ OthersKeepTheirSave(r)
            /\ save'[r].pc = "written" /\ save'[r].pending = v /\ save'[r].row = w
            /\ save'[r].want = n /\ save'[r].overtaken = save[r].overtaken
        BY <1>0, <2>3, <3>3, Wrote DEF v
      <3>5. SaveOK(r)'
        BY <2>1, <3>1, <3>2, <3>4 DEF SaveOK
      <3>6. QED
        BY <1>0, <2>1, <3>4, <3>5
    <2>4. QED
      BY <1>5, <2>2, <2>3 DEF Update
  <1>6. CASE Delete(r)
    <2>1. /\ save[r].pc = "delete" /\ UNCHANGED <<stored, turn, saves>> /\ Write(r, None)
          /\ save[r].row \in Rows \ {"conversation"} /\ save[r].want = None
      BY <1>0, <1>6 DEF Delete, SaveOK
    <2>2. /\ save' \in [Requests -> SaveRecord] /\ OthersKeepTheirSave(r)
          /\ save'[r].pc = "written" /\ save'[r].pending = None
          /\ save'[r].row = save[r].row /\ save'[r].want = save[r].want
      BY <1>0, <2>1, ValuesOfRows, Wrote
    <2>3. SaveOK(r)'
      BY <2>1, <2>2 DEF SaveOK
    <2>4. QED
      BY <1>0, <2>1, <2>2, <2>3
  <1>7. CASE Dies(r)
    <2>1. /\ save' \in [Requests -> SaveRecord] /\ OthersKeepTheirSave(r)
          /\ save'[r].pc = "idle"
      BY <1>0, <1>7, Died
    <2>2. SaveOK(r)'
      BY <2>1 DEF SaveOK
    <2>3. QED
      BY <1>0, <1>7, <2>1, <2>2 DEF Dies
  <1>8. QED
    BY <1>1, <1>2, <1>3, <1>4, <1>5, <1>6, <1>7 DEF SaveStep

\* A step of a turn changes that turn alone.
TurnStep(t) ==
  \/ BeginTurn(t) \/ ReadUser(t) \/ ReadWorkspace(t) \/ CheckProvider(t)
  \/ CallFails(t) \/ Pick(t) \/ NoSubstitute(t) \/ EndTurn(t)

LEMMA TurnStepKeeps ==
  ASSUME SettingsInvariant, NEW t \in Turns, TurnStep(t)
  PROVE  /\ turn' \in [Turns -> TurnRecord] /\ OthersKeepTheirTurn(t)
         /\ TurnOK(t)' /\ ChoiceOK(t)' /\ CallOK(t)'
         /\ UNCHANGED <<stored, save>> /\ saves' \in 0 .. MaxSaves
  <1>0. /\ TypeOK /\ TurnOK(t) /\ ChoiceOK(t) /\ CallOK(t) /\ saves \in 0 .. MaxSaves
        /\ \A row \in Rows : stored[row] \in Value(row)
    BY InvariantByTurn DEF TypeOK
  <1>s. UNCHANGED <<stored, save>> /\ saves' \in 0 .. MaxSaves
    BY <1>0, SettingsAssumption
    DEF TurnStep, BeginTurn, ReadUser, ReadWorkspace, CheckProvider, CallFails, Pick,
        NoSubstitute, EndTurn
  <1>e. ASSUME turn' = [turn EXCEPT ![t] = IdleTurn]
        PROVE  /\ turn' \in [Turns -> TurnRecord] /\ OthersKeepTheirTurn(t)
               /\ TurnOK(t)' /\ ChoiceOK(t)' /\ CallOK(t)'
    BY <1>0, <1>e, TurnOver DEF TurnOK, ChoiceOK, CallOK
  <1>p. ASSUME NEW row \in {"user", "workspace"}, stored[row] # None
        PROVE  /\ stored[row].provider \in Providers /\ stored[row].model \in Models \cup {None}
               /\ stored[row] \notin {None, NoPin}
    <2>1. stored[row] \in Settable(row)
      BY <1>0, <1>p, RowsPresent DEF Value, Unset
    <2>2. QED
      BY <2>1, StoredPreference DEF Preferences
  <1>t. /\ Tiers[1] = "conversation" /\ Tiers[2] = "user" /\ Tiers[3] = "workspace"
    BY DEF Tiers
  <1> USE RowsPresent
  <1>1. CASE BeginTurn(t)
    <2> DEFINE pin == stored["conversation"]
    <2>1. /\ turn' \in [Turns -> TurnRecord] /\ OthersKeepTheirTurn(t)
          /\ \A row \in Rows : turn'[t].seen[row] = {stored[row]}
          /\ \/ pin = NoPin /\ turn'[t].pc = "user"
             \/ /\ pin \in Settable("conversation") /\ turn'[t].pc = "check"
                /\ turn'[t].provider = pin.provider /\ turn'[t].model = default_model_for(pin)
      BY <1>0, <1>1, TurnBegan
    <2>2. \A row \in Rows : stored'[row] \in turn'[t].seen[row]
      BY <1>s, <2>1
    <2>3. CASE pin = NoPin /\ turn'[t].pc = "user"
      <3>1. WasSilent(t, "conversation")'
        BY <2>1, <2>3 DEF WasSilent
      <3>2. QED
        BY <1>s, <2>1, <2>2, <2>3, <3>1 DEF TurnOK, ChoiceOK, CallOK
    <2>4. CASE /\ pin \in Settable("conversation") /\ turn'[t].pc = "check"
               /\ turn'[t].provider = pin.provider /\ turn'[t].model = default_model_for(pin)
      <3>1. pin.provider \in Providers /\ pin \notin {None, NoPin}
        BY <2>4, StoredPreference DEF Preferences
      <3>2. pin \in turn'[t].seen[Tiers[1]] \ {None, NoPin}
        BY <1>t, <2>1, <3>1
      <3>3. ChoiceOK(t)'
        BY <2>4, <3>2 DEF ChoiceOK
      <3>4. QED
        BY <1>s, <2>1, <2>2, <2>4, <3>1, <3>3 DEF TurnOK, CallOK
    <2>5. QED
      BY <2>1, <2>3, <2>4
  <1>2. CASE ReadUser(t)
    <2>1. /\ turn[t].pc = "user" /\ WasSilent(t, "conversation")
          /\ \A row \in Rows : stored[row] \in turn[t].seen[row]
      BY <1>0, <1>2 DEF ReadUser, TurnOK
    <2>2. CASE stored["user"] = None
      <3>1. GotoTurn(t, "workspace")
        BY <1>2, <2>2 DEF ReadUser
      <3>2. /\ turn' \in [Turns -> TurnRecord] /\ OthersKeepTheirTurn(t)
            /\ turn'[t].pc = "workspace" /\ turn'[t].seen = turn[t].seen
        BY <1>0, <3>1, WentOn
      <3>3. WasSilent(t, "conversation")' /\ WasSilent(t, "user")'
        BY <2>1, <2>2, <3>2 DEF WasSilent
      <3>4. QED
        BY <1>s, <2>1, <3>2, <3>3 DEF TurnOK, ChoiceOK, CallOK
    <2>3. CASE stored["user"] # None
      <3> DEFINE v == stored["user"]
      <3>1. Advance(t, "check", v)
        BY <1>2, <2>3 DEF ReadUser
      <3>2. v.provider \in Providers /\ v.model \in Models \cup {None} /\ v \notin {None, NoPin}
        BY <1>p, <2>3
      <3>3. /\ turn' \in [Turns -> TurnRecord] /\ OthersKeepTheirTurn(t)
            /\ turn'[t].pc = "check" /\ turn'[t].seen = turn[t].seen
            /\ turn'[t].provider = v.provider /\ turn'[t].model = default_model_for(v)
        BY <1>0, <3>1, <3>2, Advanced
      <3>4. v \in turn'[t].seen[Tiers[2]] \ {None, NoPin} /\ WasSilent(t, Tiers[1])'
        BY <1>t, <2>1, <3>2, <3>3 DEF WasSilent
      <3>5. ChoiceOK(t)'
        <4>1. \A k \in 1 .. 2 - 1 : WasSilent(t, Tiers[k])'
          BY <3>4
        <4>2. QED
          BY <3>3, <3>4, <4>1 DEF ChoiceOK
      <3>6. QED
        BY <1>s, <2>1, <3>2, <3>3, <3>5 DEF TurnOK, CallOK
    <2>4. QED
      BY <2>2, <2>3
  <1>3. CASE ReadWorkspace(t)
    <2> DEFINE v == IF stored["workspace"] = None THEN Default ELSE stored["workspace"]
               n == IF stored["workspace"] = None THEN 4 ELSE 3
    <2>1. /\ turn[t].pc = "workspace" /\ Advance(t, "check", v)
          /\ WasSilent(t, "conversation") /\ WasSilent(t, "user")
          /\ \A row \in Rows : stored[row] \in turn[t].seen[row]
      BY <1>0, <1>3 DEF ReadWorkspace, TurnOK
    <2>2. v.provider \in Providers /\ v.model \in Models \cup {None}
      BY <1>p, SettingsAssumption DEF Default
    <2> HIDE DEF v
    <2>3. /\ turn' \in [Turns -> TurnRecord] /\ OthersKeepTheirTurn(t)
          /\ turn'[t].pc = "check" /\ turn'[t].seen = turn[t].seen
          /\ turn'[t].provider = v.provider /\ turn'[t].model = default_model_for(v)
      BY <1>0, <2>1, <2>2, Advanced
    <2>4. WasSilent(t, Tiers[1])' /\ WasSilent(t, Tiers[2])'
      BY <1>t, <2>1, <2>3 DEF WasSilent
    <2>5. CASE stored["workspace"] = None
      <3>1. v = Default /\ WasSilent(t, Tiers[3])'
        BY <1>t, <2>1, <2>3, <2>5 DEF WasSilent, v
      <3>2. \A k \in 1 .. 4 - 1 : WasSilent(t, Tiers[k])'
        BY <2>4, <3>1
      <3>3. ChoiceOK(t)'
        BY <2>3, <3>1, <3>2 DEF ChoiceOK
      <3>4. QED
        BY <1>s, <2>1, <2>2, <2>3, <3>3 DEF TurnOK, CallOK
    <2>6. CASE stored["workspace"] # None
      <3>1. v \in turn'[t].seen[Tiers[3]] \ {None, NoPin}
        BY <1>p, <1>t, <2>1, <2>3, <2>6 DEF v
      <3>2. \A k \in 1 .. 3 - 1 : WasSilent(t, Tiers[k])'
        BY <2>4
      <3>3. ChoiceOK(t)'
        BY <2>3, <3>1, <3>2 DEF ChoiceOK
      <3>4. QED
        BY <1>s, <2>1, <2>2, <2>3, <3>3 DEF TurnOK, CallOK
    <2>7. QED
      BY <2>5, <2>6
  <1>4. CASE CheckProvider(t)
    <2>1. /\ turn[t].pc = "check" /\ turn[t].provider \in Providers
          /\ \A row \in Rows : stored[row] \in turn[t].seen[row]
      BY <1>0, <1>4 DEF CheckProvider, TurnOK
    <2>2. CASE is_provider_enabled(stored[turn[t].provider])
      <3>1. GotoTurn(t, "call")
        BY <1>4, <2>2 DEF CheckProvider
      <3>2. /\ turn' \in [Turns -> TurnRecord] /\ OthersKeepTheirTurn(t)
            /\ turn'[t].pc = "call" /\ turn'[t].seen = turn[t].seen
            /\ turn'[t].provider = turn[t].provider /\ turn'[t].model = turn[t].model
        BY <1>0, <3>1, WentOn
      <3>3. ChoiceOK(t)'
        BY <1>0, <2>1, <3>2 DEF ChoiceOK, WasSilent
      <3>4. CallOK(t)'
        BY <2>1, <2>2, <3>2 DEF CallOK
      <3>5. TurnOK(t)'
        BY <1>s, <2>1, <3>2 DEF TurnOK
      <3>6. QED
        BY <1>s, <3>2, <3>3, <3>4, <3>5
    <2>3. CASE ~is_provider_enabled(stored[turn[t].provider])
      BY <1>4, <1>e, <1>s, <2>3 DEF CheckProvider
    <2>4. QED
      BY <2>2, <2>3
  <1>5. CASE CallFails(t)
    <2>1. /\ turn[t].pc = "call" /\ turn[t].provider \in Providers
          /\ \A row \in Rows : stored[row] \in turn[t].seen[row]
      BY <1>0, <1>5 DEF CallFails, TurnOK
    <2>2. CASE is_fallback_enabled(stored["fallback"])
      <3>1. GotoTurn(t, "fallback")
        BY <1>5, <2>2 DEF CallFails
      <3>2. /\ turn' \in [Turns -> TurnRecord] /\ OthersKeepTheirTurn(t)
            /\ turn'[t].pc = "fallback" /\ turn'[t].seen = turn[t].seen
            /\ turn'[t].provider = turn[t].provider
        BY <1>0, <3>1, WentOn
      <3>3. TurnOK(t)'
        BY <1>s, <2>1, <2>2, <3>2 DEF TurnOK
      <3>4. QED
        BY <1>s, <3>2, <3>3 DEF ChoiceOK, CallOK
    <2>3. CASE ~is_fallback_enabled(stored["fallback"])
      BY <1>5, <1>e, <1>s, <2>3 DEF CallFails
    <2>4. QED
      BY <2>2, <2>3
  <1>6. CASE Pick(t)
    <2>1. /\ turn[t].pc = "fallback"
          /\ \A row \in Rows : stored[row] \in turn[t].seen[row]
          /\ \E value \in turn[t].seen["fallback"] : is_fallback_enabled(value)
      BY <1>0, <1>6 DEF Pick, TurnOK
    <2>2. ASSUME NEW p, Eligible(t, p), Advance(t, "substitute", [provider |-> p, model |-> None])
          PROVE  /\ turn' \in [Turns -> TurnRecord] /\ OthersKeepTheirTurn(t)
                 /\ TurnOK(t)' /\ ChoiceOK(t)' /\ CallOK(t)'
      <3>1. p \in Providers /\ is_provider_enabled(stored[p])
        BY <2>2, SettingsAssumption DEF Eligible
      <3>2. /\ turn' \in [Turns -> TurnRecord] /\ OthersKeepTheirTurn(t)
            /\ turn'[t].pc = "substitute" /\ turn'[t].seen = turn[t].seen
            /\ turn'[t].provider = p
        BY <1>0, <2>2, <3>1, Advanced
      <3>3. TurnOK(t)'
        BY <1>s, <2>1, <3>1, <3>2 DEF TurnOK
      <3>4. CallOK(t)'
        BY <2>1, <3>1, <3>2 DEF CallOK
      <3>5. QED
        BY <3>2, <3>3, <3>4 DEF ChoiceOK
    <2>3. ASSUME turn[t].candidate <= Len(FALLBACK_ORDER),
                 turn' = [turn EXCEPT ![t].candidate = @ + 1]
          PROVE  /\ turn' \in [Turns -> TurnRecord] /\ OthersKeepTheirTurn(t)
                 /\ TurnOK(t)' /\ ChoiceOK(t)' /\ CallOK(t)'
      <3>1. /\ turn' \in [Turns -> TurnRecord] /\ OthersKeepTheirTurn(t)
            /\ turn'[t].pc = "fallback" /\ turn'[t].seen = turn[t].seen
            /\ turn'[t].provider = turn[t].provider
        BY <1>0, <2>1, <2>3, NextAsked
      <3>2. TurnOK(t)'
        BY <1>0, <1>s, <2>1, <3>1 DEF TurnOK
      <3>3. QED
        BY <3>1, <3>2 DEF ChoiceOK, CallOK
    <2>4. QED
      BY <1>6, <1>s, <2>2, <2>3 DEF Pick
  <1>7. CASE NoSubstitute(t) \/ EndTurn(t)
    BY <1>7, <1>e, <1>s DEF NoSubstitute, EndTurn
  <1>8. QED
    BY <1>s, <1>1, <1>2, <1>3, <1>4, <1>5, <1>6, <1>7 DEF TurnStep

\* What an open turn relied on before a commit, it may still rely on.
LEMMA CommitStepKeeps ==
  ASSUME SettingsInvariant, NEW r \in Requests, Commit(r)
  PROVE  SettingsInvariant'
  <1> DEFINE w == save[r].row
             v == save[r].pending
  <1>0. /\ TypeOK /\ \A q \in Requests : SaveOK(q)
        /\ \A t \in Turns : TurnOK(t) /\ ChoiceOK(t) /\ CallOK(t)
    BY InvariantByTurn
  <1>1. /\ v \in Settable(w) \/ (v = None /\ w # "conversation")
        /\ stored' = [stored EXCEPT ![w] = v] /\ saves' = saves
    BY <1>0 DEF SaveOK, Commit
  <1>1a. w \in Rows
    BY <1>0 DEF SaveOK, Commit
  <1>2. v \in Value(w) /\ v \in Values
    BY <1>1, <1>1a, ValuesOfRows
  <1>3. /\ stored \in [Rows -> Values] /\ \A row \in Rows : stored[row] \in Value(row)
    BY <1>0 DEF TypeOK
  <1>4. /\ stored' \in [Rows -> Values] /\ stored'[w] = v
        /\ \A row \in Rows : row # w => stored'[row] = stored[row]
    BY <1>1, <1>1a, <1>2, <1>3
  <1>5. /\ save' \in [Requests -> SaveRecord]
        /\ save'[r].pc = "ok"
        /\ \A q \in Requests : q # r /\ save[q].row # w => save'[q] = save[q]
        /\ \A q \in Requests : q # r /\ save[q].row = w =>
             /\ save'[q].pc = save[q].pc /\ save'[q].row = save[q].row
             /\ save'[q].want = save[q].want /\ save'[q].loaded = save[q].loaded
             /\ save'[q].pending = save[q].pending /\ save'[q].overtaken
             /\ save'[q].cleared = (save[q].cleared \/ v = None)
    BY <1>0, CommitMarks
  <1>6. /\ turn' \in [Turns -> TurnRecord]
        /\ \A t \in Turns :
             /\ turn'[t].pc = turn[t].pc /\ turn'[t].provider = turn[t].provider
             /\ turn'[t].model = turn[t].model
             /\ \A row \in Rows : turn[t].seen[row] \subseteq turn'[t].seen[row]
             /\ turn[t].pc # "idle" => v \in turn'[t].seen[w]
    BY <1>0, <1>1a, CommitShows
  <1> HIDE DEF v, w
  <1>7. TypeOK'
    BY <1>0, <1>1, <1>2, <1>3, <1>4, <1>5, <1>6 DEF TypeOK
  <1>8. ASSUME NEW q \in Requests
        PROVE  SaveOK(q)'
    <2>1. CASE q = r
      BY <1>5, <2>1 DEF SaveOK
    <2>2. CASE q # r /\ save[q].row # w
      <3>1. save'[q] = save[q]
        BY <1>5, <2>2
      <3>2. save[q].row \in Rows => stored'[save[q].row] = stored[save[q].row]
        BY <1>4, <2>2
      <3>3. QED
        BY <1>0, <3>1, <3>2 DEF SaveOK
    <2>3. CASE q # r /\ save[q].row = w
      <3>1. w = "conversation" => v # NoPin
        BY <1>1, StoredPreference DEF Preferences
      <3>2. SaveOK(q) /\ stored'[w] = v /\ save[q].cleared \in BOOLEAN
        BY <1>0, <1>4 DEF TypeOK, SaveRecord
      <3>3. /\ save'[q].pc = save[q].pc /\ save'[q].row = w
            /\ save'[q].want = save[q].want /\ save'[q].loaded = save[q].loaded
            /\ save'[q].pending = save[q].pending /\ save'[q].overtaken
            /\ save[q].cleared \/ v = None => save'[q].cleared
        BY <1>5, <2>3, <3>2
      <3>4. QED
        BY <2>3, <3>1, <3>2, <3>3 DEF SaveOK
    <2>4. QED
      BY <2>1, <2>2, <2>3
  <1>9. ASSUME NEW t \in Turns
        PROVE  TurnOK(t)' /\ ChoiceOK(t)' /\ CallOK(t)'
    <2>1. ASSUME NEW row \in Rows, WasSilent(t, row)
          PROVE  WasSilent(t, row)'
      BY <1>6, <2>1 DEF WasSilent
    <2>2. TurnOK(t)'
      <3>1. turn'[t].pc # "idle" => \A row \in Rows : stored'[row] \in turn'[t].seen[row]
        BY <1>0, <1>4, <1>6 DEF TurnOK
      <3>2. turn'[t].pc \in {"fallback", "substitute"} =>
              \E value \in turn'[t].seen["fallback"] : is_fallback_enabled(value)
        BY <1>0, <1>6, RowsPresent DEF TurnOK
      <3>3. QED
        BY <1>0, <1>6, <2>1, <3>1, <3>2, RowsPresent DEF TurnOK
    <2>3. ChoiceOK(t)'
      <3>1. SUFFICES ASSUME turn[t].pc \in {"check", "call"}
                     PROVE  ChoiceOK(t)'
        BY <1>6 DEF ChoiceOK
      <3>2. PICK n \in 1 .. 4 :
              /\ \A k \in 1 .. n - 1 : WasSilent(t, Tiers[k])
              /\ \E value \in (IF n = 4 THEN {Default} ELSE turn[t].seen[Tiers[n]] \ {None, NoPin}) :
                   turn[t].provider = value.provider /\ turn[t].model = default_model_for(value)
        BY <1>0, <3>1 DEF ChoiceOK
      <3>3. \A k \in 1 .. 3 : Tiers[k] \in Rows
        BY RowsPresent DEF Tiers
      <3>4. \A k \in 1 .. n - 1 : WasSilent(t, Tiers[k])'
        BY <2>1, <3>2, <3>3
      <3>5. \E value \in (IF n = 4 THEN {Default} ELSE turn'[t].seen[Tiers[n]] \ {None, NoPin}) :
              turn'[t].provider = value.provider /\ turn'[t].model = default_model_for(value)
        BY <1>6, <3>2, <3>3
      <3>6. QED
        BY <3>4, <3>5 DEF ChoiceOK
    <2>4. CallOK(t)'
      <3>1. turn[t].pc \in {"call", "substitute"} => turn[t].provider \in Rows
        BY <1>0, RowsPresent DEF TurnOK
      <3>2. QED
        BY <1>0, <1>6, <3>1, RowsPresent DEF CallOK
    <2>5. QED
      BY <2>2, <2>3, <2>4
  <1>10. QED
    <2>1. /\ TypeOK' /\ \A q \in Requests : SaveOK(q)'
          /\ \A t \in Turns : TurnOK(t)' /\ ChoiceOK(t)' /\ CallOK(t)'
      BY <1>7, <1>8, <1>9
    <2>2. QED
      BY <2>1 DEF SettingsInvariant, ChoiceIsOneTiers, DisabledIsNeverCalled, ChoiceOK, CallOK

LEMMA InvariantKept ==
  ASSUME SettingsInvariant, [Next]_vars
  PROVE  SettingsInvariant'
  <1>0. /\ TypeOK /\ \A r \in Requests : SaveOK(r)
        /\ \A t \in Turns : TurnOK(t) /\ ChoiceOK(t) /\ CallOK(t)
    BY InvariantByTurn
  <1>a. ASSUME TypeOK', \A r \in Requests : SaveOK(r)',
               \A t \in Turns : TurnOK(t)' /\ ChoiceOK(t)' /\ CallOK(t)'
        PROVE  SettingsInvariant'
    BY <1>a DEF SettingsInvariant, ChoiceIsOneTiers, DisabledIsNeverCalled, ChoiceOK, CallOK
  <1>1. ASSUME NEW r \in Requests, SaveStep(r)
        PROVE  SettingsInvariant'
    <2>1. /\ save' \in [Requests -> SaveRecord] /\ OthersKeepTheirSave(r) /\ SaveOK(r)'
          /\ UNCHANGED <<stored, turn>> /\ saves' \in 0 .. MaxSaves
      BY <1>1, SaveStepKeeps
    <2>2. TypeOK'
      BY <1>0, <2>1 DEF TypeOK
    <2>3. \A q \in Requests : SaveOK(q)'
      BY <1>0, <2>1, SaveOKKept DEF OthersKeepTheirSave
    <2>4. \A t \in Turns : TurnOK(t)' /\ ChoiceOK(t)' /\ CallOK(t)'
      BY <1>0, <2>1, TurnOKKept
    <2>5. QED
      BY <1>a, <2>2, <2>3, <2>4
  <1>2. ASSUME NEW t \in Turns, TurnStep(t)
        PROVE  SettingsInvariant'
    <2>1. /\ turn' \in [Turns -> TurnRecord] /\ OthersKeepTheirTurn(t)
          /\ TurnOK(t)' /\ ChoiceOK(t)' /\ CallOK(t)'
          /\ UNCHANGED <<stored, save>> /\ saves' \in 0 .. MaxSaves
      BY <1>2, TurnStepKeeps
    <2>2. TypeOK'
      BY <1>0, <2>1 DEF TypeOK
    <2>3. \A q \in Requests : SaveOK(q)'
      BY <1>0, <2>1, SaveOKKept
    <2>4. \A u \in Turns : TurnOK(u)' /\ ChoiceOK(u)' /\ CallOK(u)'
      BY <1>0, <2>1, TurnOKKept DEF OthersKeepTheirTurn
    <2>5. QED
      BY <1>a, <2>2, <2>3, <2>4
  <1>3. CASE UNCHANGED vars
    <2>1. TypeOK'
      BY <1>0, <1>3 DEF TypeOK, vars
    <2>2. \A q \in Requests : SaveOK(q)'
      BY <1>0, <1>3, SaveOKKept DEF vars
    <2>3. \A t \in Turns : TurnOK(t)' /\ ChoiceOK(t)' /\ CallOK(t)'
      BY <1>0, <1>3, TurnOKKept DEF vars
    <2>4. QED
      BY <1>a, <2>1, <2>2, <2>3
  <1>4. QED
    BY <1>1, <1>2, <1>3, CommitStepKeeps DEF Next, SaveStep, TurnStep

LEMMA InvariantInitially ==
  ASSUME Init
  PROVE  SettingsInvariant
  <1>1. /\ stored \in [Rows -> Values] /\ \A row \in Rows : stored[row] \in Value(row)
    BY ValuesOfRows DEF Init, Value
  <1>2. IdleSave \in SaveRecord /\ IdleTurn \in TurnRecord
    BY ValuesOfRows DEF IdleSave, IdleTurn, SaveRecord, TurnRecord, FALLBACK_ORDER
  <1>3. TypeOK
    BY <1>1, <1>2, SettingsAssumption DEF Init, TypeOK
  <1>4. /\ \A r \in Requests : save[r].pc = "idle"
        /\ \A t \in Turns : turn[t].pc = "idle"
    BY DEF Init, IdleSave, IdleTurn
  <1>5. QED
    BY <1>3, <1>4
    DEF SettingsInvariant, SaveOK, TurnOK, ChoiceIsOneTiers, DisabledIsNeverCalled

\* The inductive invariant: what each open save and each open turn may rely
\* on, whatever else is committed between their statements.
THEOREM SettingsInvariantHolds == Spec => []SettingsInvariant
  <1>1. Init => SettingsInvariant
    BY InvariantInitially
  <1>2. SettingsInvariant /\ [Next]_vars => SettingsInvariant'
    BY InvariantKept
  <1>3. QED
    BY <1>1, <1>2, PTL DEF Spec

\* Overlapping saves that set a row do not make each other fail: the insert
\* that loses the race finds the row (the savepoint and the second read of
\* the upserts).
THEOREM OverlappingSetsSucceed == Spec => []SetsDoNotClash
  <1>1. SettingsInvariant => SetsDoNotClash
    BY DEF SettingsInvariant, SaveOK, SetsDoNotClash
  <1>2. QED
    BY <1>1, SettingsInvariantHolds, PTL

\* resolve_provider_and_model answers with provider and model of one tier,
\* whatever is saved between its reads.
THEOREM ChoiceIsNotMixed == Spec => []ChoiceIsOneTiers
  <1>1. SettingsInvariant => ChoiceIsOneTiers
    BY DEF SettingsInvariant
  <1>2. QED
    BY <1>1, SettingsInvariantHolds, PTL

\* No provider that was off throughout a turn is called in it, as the first
\* choice or as a substitute (assert_provider_enabled,
\* pick_fallback_provider).
THEOREM OffStaysUncalled == Spec => []DisabledIsNeverCalled
  <1>1. SettingsInvariant => DisabledIsNeverCalled
    BY DEF SettingsInvariant
  <1>2. QED
    BY <1>1, SettingsInvariantHolds, PTL

\* The save that is answered "ok" has stored the value it was asked for.
LEMMA SavedAsAsked ==
  ASSUME SettingsInvariant, [Next]_vars, NEW r \in Requests,
         save[r].pc \notin {"idle", "ok", "error"}, save'[r].pc = "ok", ~save[r].overtaken
  PROVE  stored'[save[r].row] = save[r].want
  <1>0. TypeOK /\ SaveOK(r)
    BY DEF SettingsInvariant
  <1>1. ASSUME NEW q \in Requests, SaveStep(q)
        PROVE  stored'[save[r].row] = save[r].want
    <2>1. OthersKeepTheirSave(q) /\ stored' = stored
      BY <1>1, SaveStepKeeps
    <2>2. q = r
      BY <2>1 DEF OthersKeepTheirSave
    <2>3. \/ save[r].pc = "update" /\ save[r].want = save[r].loaded
          \/ save'[r].pc # "ok"
      <3>1. CASE \E row \in Rows : BeginSet(r, row) \/ BeginClear(r, row)
        BY <3>1 DEF BeginSet, BeginClear, Begin
      <3>2. CASE Insert(r)
        <4>1. save[r].row \in Rows /\ save[r].want \in Values
          BY <1>0, <3>2, ValuesOfRows DEF SaveOK, Insert
        <4>2. QED
          BY <1>0, <3>2, <4>1, Wrote, KeyViolated DEF Insert
      <3>3. CASE Reload(r)
        <4>1. save[r].row \in Rows
          BY <1>0, <3>3 DEF SaveOK, Reload
        <4>2. QED
          BY <1>0, <3>3, <4>1, Answered, ReadAgain DEF Reload
      <3>4. CASE Update(r)
        <4>1. CASE save[r].want = save[r].loaded
          BY <3>4, <4>1 DEF Update
        <4>2. CASE save[r].want # save[r].loaded /\ Answer(r, "error")
          BY <1>0, <4>2, Answered
        <4>3. CASE Write(r, Merge(stored[save[r].row], save[r].loaded, save[r].want))
          <5>1. save \in [Requests -> SaveRecord]
            BY <1>0 DEF TypeOK
          <5>2. save'[r].pc = "written"
            BY <4>3, <5>1 DEF Write, SaveRecord
          <5>3. QED
            BY <5>2
        <4>4. QED
          BY <3>4, <4>1, <4>2, <4>3 DEF Update
      <3>5. CASE Delete(r)
        BY <1>0, <3>5, ValuesOfRows, Wrote DEF Delete
      <3>6. CASE Dies(r)
        BY <1>0, <3>6, Died
      <3>7. QED
        BY <1>1, <2>2, <3>1, <3>2, <3>3, <3>4, <3>5, <3>6 DEF SaveStep
    <2>4. save[r].loaded = stored[save[r].row]
      BY <1>0, <2>3 DEF SaveOK
    <2>5. QED
      BY <2>1, <2>3, <2>4
  <1>2. ASSUME NEW q \in Requests, Commit(q)
        PROVE  stored'[save[r].row] = save[r].want
    <2>1. q = r
      BY <1>0, <1>2, CommitMarks
    <2>2. /\ save[r].row \in Rows /\ save[r].pending = save[r].want
          /\ stored \in [Rows -> Values] /\ stored' = [stored EXCEPT ![save[r].row] = save[r].pending]
      BY <1>0, <1>2, <2>1 DEF SaveOK, Commit, TypeOK
    <2>3. QED
      BY <2>2
  <1>3. ASSUME NEW t \in Turns, TurnStep(t)
        PROVE  stored'[save[r].row] = save[r].want
    BY <1>3, TurnStepKeeps
  <1>4. CASE UNCHANGED vars
    BY <1>4 DEF vars
  <1>5. QED
    BY <1>1, <1>2, <1>3, <1>4 DEF Next, SaveStep, TurnStep

\* A save that is answered "ok" and was not overtaken has stored its own
\* value, the loser of two inserts included (set_user_ai_preference and the
\* other upserts).
THEOREM AnsweredIsStored == Spec => OwnValueIsStored
  <1>1. SettingsInvariant /\ [Next]_vars =>
          [\A r \in Requests :
             /\ save[r].pc \notin {"idle", "ok", "error"}
             /\ save'[r].pc = "ok"
             /\ ~save[r].overtaken
             => stored'[save[r].row] = save[r].want]_vars
    BY SavedAsAsked
  <1>2. QED
    BY <1>1, SettingsInvariantHolds, PTL DEF Spec, OwnValueIsStored
=============================================================================
