------------------------- MODULE MCGenaiConversation -------------------------
(***************************************************************************)
(* An instance of GenaiConversation for TLC: a call of a guest tool, a       *)
(* listing of the workspace and a shell command, each with one argument.    *)
(***************************************************************************)
EXTENDS GenaiConversation

CONSTANTS guest, shell, list

MCKind == (guest :> "guest") @@ (shell :> "shell") @@ (list :> "workspace")

==============================================================================
