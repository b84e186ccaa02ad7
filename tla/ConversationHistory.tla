------------------------ MODULE ConversationHistory ------------------------
(***************************************************************************)
(* The messages of a conversation and the part of them a provider is sent. *)
(* created_at is set when a message is flushed: a message of a turn that   *)
(* has not committed has its place in the order already, and only that     *)
(* turn sees it.                                                           *)
(***************************************************************************)
EXTENDS Integers, FiniteSets

CONSTANTS
  MAX_PAGE_SIZE,          \* messages list_messages returns at most
  ai_max_context_chars    \* the character budget of the history

ASSUME HistoryAssumption ==
  MAX_PAGE_SIZE \in Nat \ {0} /\ ai_max_context_chars \in Nat

Roles == {"user", "assistant", "tool"}

\* list_messages: ORDER BY created_at ASC LIMIT.
list_messages(visible) ==
  {m \in visible :
     Cardinality({n \in visible : n.created_at < m.created_at}) < MAX_PAGE_SIZE}

\* The characters of a set of messages, each of which has one.
Chars(messages) == Cardinality(messages)

\* _messages_to_history: the newest of the messages it is given that fit into
\* the budget, and the newest in any case.
messages_to_history(messages) ==
  {m \in messages :
     LET since == {n \in messages : n.created_at >= m.created_at}
     IN  since = {m} \/ Chars(since) <= ai_max_context_chars}

History(visible) == messages_to_history(list_messages(visible))

\* The characters that are sent: a tool call is replayed without the text
\* that came with it.
ContentChars(messages) == Chars({m \in messages : ~m.call})
=============================================================================
