------------------------------ MODULE GitValues ------------------------------
(***************************************************************************)
(* What the models of the git backend have in common.                      *)
(***************************************************************************)
EXTENDS Naturals, FiniteSets

CONSTANT None  \* no commit, branch, gitdir or revision

==============================================================================
