------------------------------ MODULE ShellLine ------------------------------
(****************************************************************************)
(* From the line the user types to the program that hw1/shell.c starts: the *)
(* words of hw1/tokenizer.c, and what the child makes of them.  A line is a *)
(* sequence of characters; all white space is " ".                          *)
(****************************************************************************)
EXTENDS Integers, SequencesExt

CONSTANT WordMax   \* n_max, the size of the tokenizer's buffer for a word

ASSUME ShellLineAssumption == WordMax \in Nat \ {0}

------------------------------------------------------------------------------
(* tokenize: one turn of its loop per character.                            *)

\* mode  the quote it is in, or "none";  escaped  the turn takes the character
\* after a backslash;  n_max is looked at after every turn.
Fresh == [mode |-> "none", escaped |-> FALSE, word |-> <<>>, words |-> <<>>, aborted |-> FALSE]

\* Mutant: in single quotes a backslash is a character like any other.
EscapesNotInSquote(t, c) == c = "\\" /\ t.mode # "'"

Escapes(t, c) == c = "\\"

\* copy_word and vector_push, if there is a word.
Push(t) == IF t.word = <<>> THEN t
           ELSE [t EXCEPT !.words = Append(@, t.word), !.word = <<>>]

Turn(t, c) ==
  LET took == [t EXCEPT !.word = Append(@, c), !.escaped = FALSE]
      next == IF t.escaped THEN took
              ELSE IF Escapes(t, c) THEN [t EXCEPT !.escaped = TRUE]
              ELSE IF t.mode = "none" /\ c \in {"'", "\""} THEN [t EXCEPT !.mode = c]
              ELSE IF t.mode = c THEN [t EXCEPT !.mode = "none"]
              ELSE IF t.mode = "none" /\ c = " " THEN Push(t)
              ELSE took
  IN  IF t.aborted THEN t
      ELSE [next EXCEPT !.aborted = Len(next.word) + 1 >= WordMax]

\* A backslash at the end of the line stands for nothing.
Tokens(line) == Push(FoldLeft(Turn, Fresh, line))
Tokenize(line) == Tokens(line).words
Aborts(line) == Tokens(line).aborted

------------------------------------------------------------------------------
(* main, for a line that names no built-in command.                         *)

\* tokens_get_token; there is none beyond the last.
NoToken == <<>>
Token(words, i) == IF i \in DOMAIN words THEN words[i] ELSE NoToken

Background(words) == Token(words, Len(words))[1] = "&"
NumParams(words) == IF Background(words) THEN Len(words) - 1 ELSE Len(words)

NoArgs == [argv |-> <<>>, out |-> NoToken, in |-> NoToken, skip |-> FALSE]

\* Mutant: the file a redirection names is also an argument.
ArgUnskipped(words, args, i) ==
  IF words[i][1] = ">" THEN [args EXCEPT !.out = Token(words, i + 1)]
  ELSE IF words[i][1] = "<" THEN [args EXCEPT !.in = Token(words, i + 1)]
  ELSE [args EXCEPT !.argv = Append(@, words[i])]

\* One turn of the child's loop: a redirection takes the next word with it.
Arg(words, args, i) ==
  IF args.skip THEN [args EXCEPT !.skip = FALSE]
  ELSE IF words[i][1] = ">" THEN [args EXCEPT !.out = Token(words, i + 1), !.skip = TRUE]
  ELSE IF words[i][1] = "<" THEN [args EXCEPT !.in = Token(words, i + 1), !.skip = TRUE]
  ELSE [args EXCEPT !.argv = Append(@, words[i])]

ChildArgs(words) ==
  FoldLeft(LAMBDA args, i : Arg(words, args, i), NoArgs, [i \in 1 .. NumParams(words) |-> i])

------------------------------------------------------------------------------
(* What the line means, piece by piece.                                     *)

\* Whether the character at i is escaped: the backslashes before it are odd.
Escaped(line, i) ==
  Cardinality({k \in 1 .. i - 1 : \A j \in k .. i - 1 : line[j] = "\\"}) % 2 = 1

\* The unescaped quotes of the line, and the one that opens the quotation at i.
Quotes(line) == {i \in DOMAIN line : line[i] \in {"'", "\""} /\ ~Escaped(line, i)}

\* The quotations of a line, first to last position; the last may be open.
Quotations(line) ==
  LET close(i) == {j \in Quotes(line) : j > i /\ line[j] = line[i]}
      end(i) == IF close(i) = {} THEN Len(line) + 1 ELSE Min(close(i))
      from[i \in 1 .. Len(line) + 1] ==
        LET open == {j \in Quotes(line) : j >= i}
        IN  IF open = {} THEN {}
            ELSE LET o == Min(open)
                 IN  {<<o, end(o)>>} \cup
                     (IF end(o) >= Len(line) THEN {} ELSE from[end(o) + 1])
  IN  from[1]

\* The positions that stand for themselves, and those that end a word.
Syntax(line) ==
  {q[1] : q \in Quotations(line)} \cup {q[2] : q \in Quotations(line)}
  \cup {i \in DOMAIN line : line[i] = "\\" /\ ~Escaped(line, i)}
Gaps(line) ==
  {i \in DOMAIN line : /\ line[i] = " " /\ ~Escaped(line, i)
                       /\ \A q \in Quotations(line) : i \notin q[1] .. q[2]}

\* The words: what stands between gaps, without quotes and backslashes.
Meaning(line) ==
  LET inOrder(S) == SelectSeq([i \in 1 .. Len(line) + 1 |-> i], LAMBDA i : i \in S)
      ends == <<0>> \o inOrder(Gaps(line) \cup {Len(line) + 1})
      word(k) == LET kept == inOrder((ends[k] + 1 .. ends[k + 1] - 1) \ Syntax(line))
                 IN  [i \in DOMAIN kept |-> line[kept[i]]]
  IN  SelectSeq([k \in 1 .. Len(ends) - 1 |-> word(k)], LAMBDA w : w # <<>>)

\* Every character of every word escaped, and a space between words.
Typed(words) ==
  LET escaped(w) == FlattenSeq([i \in DOMAIN w |-> <<"\\", w[i]>>])
  IN  FlattenSeq([k \in DOMAIN words |-> escaped(words[k]) \o <<" ">>])
==============================================================================
