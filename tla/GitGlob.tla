------------------------------ MODULE GitGlob ------------------------------
(***************************************************************************)
(* The glob a merge rule names its paths with (matches, tokens and glob of *)
(* crates/git/src/vcs/policy.rs), one loop turn per step: the pattern is   *)
(* read into tokens, adjacent wildcards folded as they come, and a row of  *)
(* prefixes is carried across the text, one token at a time.               *)
(*                                                                         *)
(* Only the slash and the two wildcards are special to the code, so one    *)
(* letter that matches and one that does not stand for every other byte.   *)
(***************************************************************************)
EXTENDS Naturals, Sequences, SequencesExt, FiniteSets

CONSTANTS
    Patterns,    \* sequences over letters, "/", "*" and "?"
    Paths        \* sequences over letters and "/"

VARIABLES
    pattern, path,   \* what matches was asked
    pc,              \* "asked", "reading", "counting", "rows", "done"
    rest,            \* the bytes of the pattern not read yet
    toks,            \* tokens: the pattern so far, folded
    text,            \* what the pattern is held against
    row,             \* row[j]: the tokens taken so far match text[..j]
    taken,           \* how many tokens the rows have crossed
    answer           \* what glob returned

vars == <<pattern, path, pc, rest, toks, text, row, taken, answer>>

Slash == "/"
Star == "Star"
Dirs == "Dirs"
All == "All"
One == "One"

wild(t) == t \in {Star, Dirs, All}
\* Any other token is One or the byte it stands for.
needs_byte(t) == ~wild(t)

TypeOK ==
    /\ pattern \in Patterns /\ path \in Paths
    /\ pc \in {"asked", "reading", "counting", "rows", "done"}
    /\ IsSuffix(rest, pattern)
    /\ IsSuffix(text, path)
    /\ Len(toks) + Len(rest) <= Len(pattern)
    /\ row \in [0 .. Len(text) -> BOOLEAN]
    /\ taken \in 0 .. Len(toks)
    /\ answer \in BOOLEAN

Init ==
    /\ pattern \in Patterns /\ path \in Paths
    /\ pc = "asked" /\ rest = <<>> /\ toks = <<>>
    /\ text = <<>> /\ row = [j \in {0} |-> FALSE]
    /\ taken = 0 /\ answer = FALSE

----------------------------------------------------------------------------
(* matches: which part of the path the pattern is held against.            *)

Anchored(p) == IF p # <<>> /\ p[1] = Slash THEN Tail(p) ELSE p

\* The path's final component: what follows its last slash.
Name(p) ==
    LET cuts == {0} \cup {i \in DOMAIN p : p[i] = Slash}
        last == CHOOSE i \in cuts : \A k \in cuts : k <= i
    IN  SubSeq(p, last + 1, Len(p))

matches ==
    /\ pc = "asked"
    /\ IF Contains(pattern, Slash)
         THEN rest' = Anchored(pattern) /\ text' = path
         ELSE rest' = pattern /\ text' = Name(path)
    /\ row' = [j \in 0 .. Len(text') |-> FALSE]
    /\ pc' = "reading"
    /\ UNCHANGED <<pattern, path, toks, taken, answer>>

----------------------------------------------------------------------------
(* tokens                                                                  *)

\* The token at the front of some bytes, and what is left after it.
Lex(bytes) ==
    LET twice == bytes[1] = "*" /\ Len(bytes) > 1 /\ bytes[2] = "*" IN
    CASE twice /\ Len(bytes) > 2 /\ bytes[3] = Slash -> <<Dirs, SubSeq(bytes, 4, Len(bytes))>>
      [] twice /\ ~(Len(bytes) > 2 /\ bytes[3] = Slash) -> <<All, SubSeq(bytes, 3, Len(bytes))>>
      [] bytes[1] = "*" /\ ~twice -> <<Star, Tail(bytes)>>
      [] bytes[1] = "?" -> <<One, Tail(bytes)>>
      [] OTHER -> <<bytes[1], Tail(bytes)>>

\* Two wildcards of a kind fold into one, any beside All into All.
Fold(ts, t) ==
    IF ts = <<>> \/ ~wild(t) \/ ~wild(Last(ts))
      THEN Append(ts, t)
    ELSE IF All \in {t, Last(ts)}
      THEN Append(Front(ts), All)
    ELSE IF t # Last(ts) THEN Append(ts, t) ELSE ts

NextToken ==
    /\ pc = "reading" /\ rest # <<>>
    /\ toks' = Fold(toks, Lex(rest)[1])
    /\ rest' = Lex(rest)[2]
    /\ UNCHANGED <<pattern, path, pc, text, row, taken, answer>>

AllRead ==
    /\ pc = "reading" /\ rest = <<>>
    /\ pc' = "counting"
    /\ UNCHANGED <<pattern, path, rest, toks, text, row, taken, answer>>

----------------------------------------------------------------------------
(* glob                                                                    *)

Wanted(ts) == Cardinality({i \in DOMAIN ts : needs_byte(ts[i])})

\* More bytes wanted than the text has: no match, and no table.
TooShort ==
    /\ pc = "counting" /\ Wanted(toks) > Len(text)
    /\ pc' = "done" /\ answer' = FALSE
    /\ UNCHANGED <<pattern, path, rest, toks, text, row, taken>>

FirstRow ==
    /\ pc = "counting" /\ Wanted(toks) <= Len(text)
    /\ pc' = "rows"
    /\ row' = [row EXCEPT ![0] = TRUE]
    /\ UNCHANGED <<pattern, path, rest, toks, text, taken, answer>>

\* The next row under one token. Each is the inner loop over the text; cut j
\* of the next row is the text's first j bytes.
ByteRow(t) == [j \in DOMAIN row |-> j > 0 /\ row[j - 1] /\ text[j] = t]
OneRow == [j \in DOMAIN row |-> j > 0 /\ row[j - 1] /\ text[j] # Slash]
StarRow ==
    LET next[j \in DOMAIN row] ==
          row[j] \/ (j > 0 /\ next[j - 1] /\ text[j] # Slash)
    IN  next
AllRow ==
    LET next[j \in DOMAIN row] == row[j] \/ (j > 0 /\ next[j - 1])
    IN  next

\* Mutant of DirsRow: a component is swallowed only from the cut just before it.
DirsRowNear ==
    [j \in DOMAIN row |-> row[j] \/ (j > 1 /\ row[j - 1] /\ text[j] = Slash)]

\* A component ending at j is swallowed once any earlier cut matched.
DirsRow ==
    [j \in DOMAIN row |->
        row[j] \/ (j > 0 /\ text[j] = Slash /\ \E i \in 0 .. j - 1 : row[i])]

NextRow ==
    /\ pc = "rows" /\ taken < Len(toks)
    /\ LET t == toks[taken + 1] IN
         row' = CASE t = One -> OneRow
                  [] t = Star -> StarRow
                  [] t = All -> AllRow
                  [] t = Dirs -> DirsRow
                  [] OTHER -> ByteRow(t)
    /\ taken' = taken + 1
    /\ UNCHANGED <<pattern, path, pc, rest, toks, text, answer>>

LastRow ==
    /\ pc = "rows" /\ taken = Len(toks)
    /\ pc' = "done" /\ answer' = row[Len(text)]
    /\ UNCHANGED <<pattern, path, rest, toks, text, row, taken>>

Done == pc = "done" /\ UNCHANGED vars

Next == matches \/ NextToken \/ AllRead \/ TooShort \/ FirstRow \/ NextRow \/ LastRow \/ Done

Spec == Init /\ [][Next]_vars

----------------------------------------------------------------------------
(* What a pattern means, whatever algorithm decides it.                    *)

\* The texts a token stands for.
Reads(t, s) ==
    CASE t = One -> Len(s) = 1 /\ s[1] # Slash
      [] t = Star -> ~Contains(s, Slash)
      [] t = All -> TRUE
      [] t = Dirs -> s = <<>> \/ Last(s) = Slash
      [] OTHER -> s = <<t>>

\* A text is a sequence of tokens when it can be cut into one part for each.
Means(ts, s) ==
    LET m[i \in 0 .. Len(ts), j \in 0 .. Len(s)] ==
          IF i = 0 THEN j = 0
          ELSE \E k \in 0 .. j : m[i - 1, k] /\ Reads(ts[i], SubSeq(s, k + 1, j))
    IN  m[Len(ts), Len(s)]

\* The tokens of a pattern with nothing folded.
Unfolded(p) ==
    LET from[i \in 0 .. Len(p)] ==
          IF i = 0 THEN <<>>
          ELSE LET bytes == SubSeq(p, Len(p) - i + 1, Len(p))
               IN  <<Lex(bytes)[1]>> \o from[Len(Lex(bytes)[2])]
    IN  from[Len(p)]

\* The pattern as it is held against the text.
Held == IF Contains(pattern, Slash) THEN Anchored(pattern) ELSE pattern

\* Every row is exact: cut j of the row is set if and only if the tokens
\* crossed so far can be laid over the first j bytes of the text (the table
\* glob builds instead of backtracking).
RowExact ==
    pc = "rows" =>
        \A j \in DOMAIN row : row[j] <=> Means(SubSeq(toks, 1, taken), SubSeq(text, 1, j))

\* Folding wildcards changes no answer: what is read of the pattern, folded,
\* followed by what is left of it means the same as the whole unfolded
\* pattern (the fold in tokens, which loses tokens for good).
FoldKeeps ==
    pc \in {"reading", "counting"} =>
        (Means(toks \o Unfolded(rest), text) <=> Means(Unfolded(Held), text))

\* The answer is what the pattern means, the early return for a text too
\* short to hold the bytes wanted included.
AnswerExact == pc = "done" => (answer <=> Means(Unfolded(Held), text))

\* The token count is bounded by the bytes the path must supply: no three
\* wildcards are ever adjacent, so the rows cost no more than three per
\* wanted byte and two (the bound glob's comment gives for its table).
RowsBounded ==
    /\ \A i \in 1 .. Len(toks) - 2 : \E k \in i .. i + 2 : ~wild(toks[k])
    /\ Len(toks) <= 3 * Wanted(toks) + 2

\* The table decides what the pattern means, at a cost bounded by the path.
GlobInv == TypeOK /\ RowExact /\ FoldKeeps /\ AnswerExact /\ RowsBounded
=============================================================================
