----------------------------- MODULE HttpRequest -----------------------------
(****************************************************************************)
(* http_request_parse of hw2/libhttp.c: the method and path of a request,   *)
(* taken from what one read() brought.  A text is a sequence of characters; *)
(* the buffer ends with "NUL", which the text may also contain.             *)
(****************************************************************************)
EXTENDS Integers, SequencesExt

CONSTANT Upper   \* the characters 'A' to 'Z'

Space == " "

\* A capital letter is none of the characters that end a part of the request.
ASSUME HttpRequestAssumption == Upper \cap {Space, "\n", "NUL"} = {}

None == [method |-> <<>>, path |-> <<>>]

CharAt(text, i) == IF i \in DOMAIN text THEN text[i] ELSE "NUL"

\* Where a loop that starts at i stops: at the first of these characters.
Stop(text, i, stops) ==
  Min({j \in i .. Len(text) + 1 : CharAt(text, j) \in stops \/ j > Len(text)})

\* Mutant: the end of what was read ends the request line as well.
LineEndsAnyhow(text, i) == CharAt(text, i) \in {"\n", "NUL"}

LineEnds(text, i) == CharAt(text, i) = "\n"

Parse(text) ==
  LET space == Stop(text, 1, Range(text) \ Upper)
      after == Stop(text, space + 1, {"NUL", Space, "\n"})
      end == Stop(text, after, {"NUL", "\n"})
  IN  IF space = 1 \/ CharAt(text, space) # Space \/ after = space + 1 \/ ~LineEnds(text, end)
      THEN None
      ELSE [method |-> SubSeq(text, 1, space - 1), path |-> SubSeq(text, space + 1, after - 1)]

\* The grammar in the function's comments: [A-Z]*, a space, [^ \n]*, and the
\* rest of the line; neither method nor path empty.  m is the space, p where
\* the path has ended, e the end of the line.
Derives(text, m, p, e) ==
  /\ 1 < m /\ m + 1 < p /\ p <= e
  /\ \A i \in 1 .. m - 1 : text[i] \in Upper
  /\ text[m] = Space
  /\ \A i \in m + 1 .. p - 1 : text[i] \notin {Space, "\n", "NUL"}
  /\ text[p] \in {Space, "\n"}
  /\ \A i \in p .. e - 1 : text[i] \notin {"\n", "NUL"}
  /\ text[e] = "\n"

Requests(text) ==
  {[method |-> SubSeq(text, 1, d[1] - 1), path |-> SubSeq(text, d[1] + 1, d[2] - 1)] :
     d \in {t \in (DOMAIN text) \X (DOMAIN text) \X (DOMAIN text) : Derives(text, t[1], t[2], t[3])}}
==============================================================================
