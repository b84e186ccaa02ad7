----------------------------- MODULE MCChatTurn -----------------------------
(***************************************************************************)
(* Small instances of ChatTurn for TLC.                                    *)
(***************************************************************************)
EXTENDS ChatTurn, TLC

\* Two providers, the second one dearer.
TwoRates == "OPENAI" :> 1 @@ "GEMINI" :> 2

OneRate == "OPENAI" :> 1

FastAndDeep == "FAST" :> 1 @@ "DEEP" :> 3

\* Each turn in a conversation of its own, or all in the same.
OwnConversations == [t \in Turns |-> t]

OneConversation == [t \in Turns |-> "chat"]

FastOnly == "FAST" :> 1

=============================================================================
