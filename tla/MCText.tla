-------------------------------- MODULE MCText -------------------------------
(****************************************************************************)
(* ShellLine and HttpRequest on every short text: the user types a line,    *)
(* or a request arrives, one character after the other.                     *)
(****************************************************************************)
EXTENDS ShellLine, HttpRequest

CONSTANTS LineMax, TextMax,   \* bounds: characters of a line and of a request
          LineChars, TextChars

\* Every kind of character that the tokenizer or main looks for, and another.
SomeLineChars == {"x", " ", "'", "\"", "\\", ">", "<", "&"}
SomeTextChars == {"G", "x", " ", "\n", "NUL"}

VARIABLES line, text
vars == <<line, text>>

Init == line = <<>> /\ text = <<>>

Type == /\ text = <<>> /\ Len(line) < LineMax
        /\ \E c \in LineChars : line' = Append(line, c)
        /\ UNCHANGED text

Arrive == /\ line = <<>> /\ Len(text) < TextMax
          /\ \E c \in TextChars : text' = Append(text, c)
          /\ UNCHANGED line

Next == Type \/ Arrive

Spec == Init /\ [][Next]_vars
------------------------------------------------------------------------------
\* The tokenizer's words are those of the line: quotes and backslashes group
\* and hide characters wherever they stand, no word is empty, and it aborts
\* exactly when a word does not fit its buffer.
TokensOK ==
  LET words == Meaning(line)
  IN  /\ Aborts(line) <=> \E w \in Range(words) : Len(w) + 1 >= WordMax
      /\ ~Aborts(line) => Tokenize(line) = words

\* Words with every character escaped come out of the tokenizer as they went
\* in; and of these the program gets all as its arguments, in order, but for
\* redirections, each of which takes the word after it along, and a last &.
ArgsOK ==
  LET words == Tokenize(line)
      kept == SubSeq(words, 1, NumParams(words))
      args == ChildArgs(words)
      redirects == {i \in DOMAIN kept : kept[i][1] \in {"<", ">"}}
  IN  words # <<>> /\ ~Aborts(line) =>
        /\ Tokenize(Typed(words)) = words
        /\ redirects = {} => args.argv = kept
        /\ \A i \in redirects :
             redirects = {i} => /\ args.argv = SubSeq(kept, 1, i - 1) \o SubSeq(kept, i + 2, Len(kept))
                                /\ Token(words, i + 1) = IF kept[i][1] = ">" THEN args.out ELSE args.in

\* The request that is parsed is the one the grammar derives from the text,
\* and when only a part of it has been read, that one or none.
RequestOK ==
  LET request == Parse(text)
  IN  /\ Requests(text) = {request} \ {None}
      /\ \A k \in 0 .. Len(text) : Parse(SubSeq(text, 1, k)) \in {None, request}
==============================================================================
