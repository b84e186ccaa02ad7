---------------------------- MODULE MCAISettings ----------------------------
(***************************************************************************)
(* A small instance of AISettings for TLC.                                 *)
(***************************************************************************)
EXTENDS AISettings, TLC

OwnModels == "OPENAI" :> "gpt" @@ "GEMINI" :> "flash"

Symmetry == Permutations(Requests)
=============================================================================
