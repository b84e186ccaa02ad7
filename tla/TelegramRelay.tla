--------------------------- MODULE TelegramRelay ----------------------------
(***************************************************************************)
(* The Telegram connector (infrastructure/telegram_relay.py with           *)
(* telegram_client.py): consumers of one Redis consumer group.  Each reads *)
(* a batch of new entries, drives each entry's action READY -> RUNNING in  *)
(* a transaction of its own, sends the message, resolves the action in a   *)
(* second transaction and acknowledges the entry.  An exception leaves the *)
(* entry in the group's pending-entries list, which nothing reads again.   *)
(***************************************************************************)
EXTENDS ActionStore

CONSTANTS
  Connectors,             \* consumer processes of the group
  ReadCount,              \* XREADGROUP's count
  TELEGRAM_SEND_ATTEMPTS, \* tries of one message on transient errors
  BotToken                \* whether a bot token is configured

ASSUME ConnectorAssumption ==
  /\ ReadCount \in Nat \ {0}
  /\ TELEGRAM_SEND_ATTEMPTS \in Nat \ {0}
  /\ BotToken \in BOOLEAN

VARIABLES
  conn,                   \* consumer -> where it is in its batch
  cursor,                 \* the group's last delivered entry
  pel,                    \* delivered entries that were not acknowledged
  delivered               \* action id -> messages the chat has received

connectorVars == <<conn, cursor, pel, delivered>>

IdleConn == [pc |-> "idle", batch |-> <<>>, attempt |-> 0, target |-> None]

ConnState ==
  [pc: {"idle", "load", "drive", "send", "resolve", "ack"}, batch: Seq(Nat),
   attempt: Nat, target: {"SUCCEEDED", "FAILED", None}]

ConnectorTypeOK ==
  /\ conn \in [Connectors -> ConnState]
  /\ cursor \in Nat
  /\ pel \subseteq Nat
  /\ delivered \in [ActionIds -> Nat]

ConnectorInit ==
  /\ conn = [c \in Connectors |-> IdleConn]
  /\ cursor = 0
  /\ pel = {}
  /\ delivered = [a \in ActionIds |-> 0]

Entry(c) == Head(conn[c].batch)

\* The action of the entry in hand, for a consumer that has one.
Current(c) == stream[Entry(c)]

At(c, pc) == conn[c].pc = pc

Goto(c, pc) == conn' = [conn EXCEPT ![c].pc = pc]

\* On to the next entry of the batch, or back to reading.
NextEntry(c) ==
  conn' = [conn EXCEPT ![c] =
             IF Tail(@.batch) = <<>> THEN IdleConn
             ELSE [pc |-> "load", batch |-> Tail(@.batch), attempt |-> 0,
                   target |-> None]]

ResolveAs(c, target) ==
  conn' = [conn EXCEPT ![c].pc = "resolve", ![c].target = target]

\* Mutated form: entries are read without becoming pending (NOACK).
ReadGroupNoAck(c) ==
  LET last == IF Len(stream) < cursor + ReadCount
              THEN Len(stream) ELSE cursor + ReadCount
  IN  /\ At(c, "idle")
      /\ cursor < Len(stream)
      /\ conn' = [conn EXCEPT ![c] =
                    [pc |-> "load", attempt |-> 0, target |-> None,
                     batch |-> [i \in 1 .. last - cursor |-> cursor + i]]]
      /\ cursor' = last
      /\ UNCHANGED <<storeVars, pel, delivered>>

\* XREADGROUP with ">": entries never delivered to the group, at most
\* ReadCount of them.  They are pending until acknowledged.
ReadGroup(c) ==
  LET last == IF Len(stream) < cursor + ReadCount
              THEN Len(stream) ELSE cursor + ReadCount
  IN  /\ At(c, "idle")
      /\ cursor < Len(stream)
      /\ conn' = [conn EXCEPT ![c] =
                    [pc |-> "load", attempt |-> 0, target |-> None,
                     batch |-> [i \in 1 .. last - cursor |-> cursor + i]]]
      /\ cursor' = last
      /\ pel' = pel \cup (cursor + 1 .. last)
      /\ UNCHANGED <<storeVars, delivered>>

\* _drive_to_running's unlocked read: an action of another tool, or one that
\* is no longer READY, is skipped and its entry acknowledged.
LoadAction(c) ==
  /\ At(c, "load")
  /\ IF /\ row[Current(c)].tool = TELEGRAM_TOOL_NAME
        /\ status[Current(c)] = "READY"
     THEN Goto(c, "drive")
     ELSE Goto(c, "ack")
  /\ UNCHANGED <<storeVars, cursor, pel, delivered>>

\* READY -> RUNNING under the lock, committed; then the configuration and the
\* payload are checked, and a message that cannot be sent is failed.
DriveToRunning(c) ==
  /\ At(c, "drive")
  /\ apply_transition(Current(c), "RUNNING", SYSTEM_CONNECTOR, FALSE)
  /\ IF BotToken /\ row[Current(c)].payload # "malformed"
     THEN Goto(c, "send")
     ELSE ResolveAs(c, "FAILED")
  /\ UNCHANGED <<row, approval, lapsed, outbox, stream, faults, cursor, pel,
                 delivered>>

\* The locked transition is refused: the exception leaves the entry pending.
DriveRefused(c) ==
  /\ At(c, "drive")
  /\ ~MayTransition(Current(c), "RUNNING", FALSE)
  /\ NextEntry(c)
  /\ UNCHANGED <<storeVars, cursor, pel, delivered>>

Reaches(a) == delivered' = [delivered EXCEPT ![a] = @ + 1]

\* Telegram accepts the message and returns its message_id.
SendSucceeds(c) ==
  /\ At(c, "send")
  /\ Reaches(Current(c))
  /\ ResolveAs(c, "SUCCEEDED")
  /\ UNCHANGED <<storeVars, cursor, pel>>

\* One attempt more, until they are used up and the action is failed.
Retry(c) ==
  IF conn[c].attempt + 1 < TELEGRAM_SEND_ATTEMPTS
  THEN conn' = [conn EXCEPT ![c].attempt = @ + 1]
  ELSE ResolveAs(c, "FAILED")

\* The connection could not be made, or HTTP 429: nothing was sent, and the
\* attempt is repeated a bounded number of times.
SendTransient(c) ==
  /\ At(c, "send")
  /\ Retry(c)
  /\ UNCHANGED <<storeVars, cursor, pel, delivered>>

\* Mutated form: an ambiguous failure is repeated like a transient one.
RetryAmbiguous(c) ==
  /\ At(c, "send")
  /\ Reaches(Current(c)) \/ UNCHANGED delivered
  /\ Retry(c)
  /\ UNCHANGED <<storeVars, cursor, pel>>

\* A rejection, a read timeout or a 5xx: never repeated, and the message may
\* have been delivered all the same.
SendFails(c) ==
  /\ At(c, "send")
  /\ Reaches(Current(c)) \/ UNCHANGED delivered
  /\ ResolveAs(c, "FAILED")
  /\ UNCHANGED <<storeVars, cursor, pel>>

\* Any other exception, such as an accepted message whose response carries
\* no message_id: the entry stays pending and the action RUNNING.
SendRaises(c) ==
  /\ At(c, "send")
  /\ Reaches(Current(c)) \/ UNCHANGED delivered
  /\ NextEntry(c)
  /\ UNCHANGED <<storeVars, cursor, pel>>

\* _resolve: the final transition in its own transaction; SUCCEEDED carries
\* the receipt.
Resolve(c) ==
  /\ At(c, "resolve")
  /\ apply_transition(Current(c), conn[c].target, SYSTEM_CONNECTOR,
                      conn[c].target = "SUCCEEDED")
  /\ Goto(c, "ack")
  /\ UNCHANGED <<row, approval, lapsed, outbox, stream, faults, cursor, pel,
                 delivered>>

\* The action was moved on meanwhile and the transition is refused: the entry
\* stays pending.
ResolveRefused(c) ==
  /\ At(c, "resolve")
  /\ ~MayTransition(Current(c), conn[c].target, conn[c].target = "SUCCEEDED")
  /\ NextEntry(c)
  /\ UNCHANGED <<storeVars, cursor, pel, delivered>>

\* XACK, and on to the next entry.
Acknowledge(c) ==
  /\ At(c, "ack")
  /\ pel' = pel \ {Entry(c)}
  /\ NextEntry(c)
  /\ UNCHANGED <<storeVars, cursor, delivered>>

\* A transaction of the entry fails in the database: relay_once logs the
\* exception, leaves the entry pending and goes on.
EntryFails(c) ==
  /\ conn[c].pc \in {"load", "drive", "resolve"}
  /\ Fault
  /\ NextEntry(c)
  /\ UNCHANGED <<status, row, approval, lapsed, audit, notices, outbox, stream,
                 cursor, pel, delivered>>

\* The process dies and is restarted: its batch is forgotten.
ConnectorCrashes(c) ==
  /\ conn[c] # IdleConn
  /\ Fault
  /\ conn' = [conn EXCEPT ![c] = IdleConn]
  /\ UNCHANGED <<status, row, approval, lapsed, audit, notices, outbox, stream,
                 cursor, pel, delivered>>

Send(c) == SendSucceeds(c) \/ SendTransient(c) \/ SendFails(c) \/ SendRaises(c)

ConnectorStep(c) ==
  \/ ReadGroup(c)
  \/ LoadAction(c)
  \/ DriveToRunning(c)
  \/ DriveRefused(c)
  \/ Send(c)
  \/ Resolve(c)
  \/ ResolveRefused(c)
  \/ Acknowledge(c)

ConnectorNext ==
  \E c \in Connectors :
    ConnectorStep(c) \/ EntryFails(c) \/ ConnectorCrashes(c)
=============================================================================
