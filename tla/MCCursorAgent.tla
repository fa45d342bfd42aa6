---------------------------- MODULE MCCursorAgent ----------------------------
(***************************************************************************)
(* A completion of two attempts, and one of a single attempt with more     *)
(* rounds and tool calls: a behaviour is of one of the two.                *)
(***************************************************************************)
EXTENDS CursorAgent

HeldTo(attempts, rounds, tools) ==
    {[check |-> c, attempts |-> attempts, rounds |-> rounds, tools |-> tools] : c \in BOOLEAN}

MCTerms == HeldTo(2, 1, 0) \cup HeldTo(1, 2, 2)

\* Two attempts, one tool call in each.
MCRestartTerms == HeldTo(2, 1, 1)

==============================================================================
