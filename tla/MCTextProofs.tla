----------------------------- MODULE MCTextProofs ----------------------------
(****************************************************************************)
(* For requests of any length: http_request_parse takes from a text what    *)
(* the grammar in its comments derives from it.                             *)
(****************************************************************************)
EXTENDS MCText, WellFoundedInduction, SequenceTheorems, TLAPS

LEMMA SpaceApart == Space # "NUL" /\ Space # "\n"
BY Zenon DEF Space

\* The least of some numbers is one of them.
LEMMA LeastNat ==
  ASSUME NEW S \in SUBSET Nat, S # {}
  PROVE  Min(S) \in S /\ \A y \in S : Min(S) <= y
<1>1. PICK x \in S : \A y \in S : ~(<<y, x>> \in OpToRel(<, Nat))
  BY NatLessThanWellFounded, WFMin
<1>2. \A y \in S : ~(y < x)
  BY <1>1 DEF OpToRel
<1>3. \A y \in S : x <= y
  BY <1>2
<1> QED
  BY <1>3 DEF Min

\* A loop stops at the first of the characters that it looks for, or at the
\* end of the text.
StopsAt(t, i, stops, s) ==
  /\ s \in i .. Len(t) + 1
  /\ \A j \in i .. s - 1 : t[j] \notin stops
  /\ s <= Len(t) => t[s] \in stops

LEMMA StopStops ==
  ASSUME NEW S, NEW t \in Seq(S), NEW i \in 1 .. Len(t) + 1, NEW stops
  PROVE  StopsAt(t, i, stops, Stop(t, i, stops))
<1> DEFINE Ends == {j \in i .. Len(t) + 1 : CharAt(t, j) \in stops \/ j > Len(t)}
<1>1. PICK s : s = Stop(t, i, stops)
  OBVIOUS
<1>2. Ends \in SUBSET Nat /\ Len(t) + 1 \in Ends /\ Len(t) \in Nat
  OBVIOUS
<1>3. s \in Ends /\ \A j \in Ends : s <= j
  <2>1. s = Min(Ends)
    BY <1>1 DEF Stop
  <2> HIDE DEF Ends
  <2> QED
    BY <1>2, <2>1, LeastNat
<1>4. s \in i .. Len(t) + 1
  BY <1>3
<1>5. \A j \in 1 .. Len(t) : CharAt(t, j) = t[j]
  BY DEF CharAt
<1>6. s <= Len(t) => t[s] \in stops
  BY <1>2, <1>3, <1>5
<1>7. ASSUME NEW j \in i .. s - 1 PROVE t[j] \notin stops
  <2>1. j \in 1 .. Len(t) /\ j \in i .. Len(t) + 1 /\ ~(s <= j)
    BY <1>2, <1>4
  <2> QED
    BY <1>3, <1>5, <2>1
<1> QED
  BY <1>1, <1>4, <1>6, <1>7 DEF StopsAt

\* And no other place is the first.
LEMMA StopIs ==
  ASSUME NEW S, NEW t \in Seq(S), NEW i \in 1 .. Len(t) + 1, NEW stops,
         NEW s \in i .. Len(t), \A j \in i .. s - 1 : t[j] \notin stops, t[s] \in stops
  PROVE  Stop(t, i, stops) = s
<1>1. PICK r : r = Stop(t, i, stops)
  OBVIOUS
<1>2. StopsAt(t, i, stops, r) /\ Len(t) \in Nat
  BY <1>1, StopStops
<1>3. r \in Int /\ i <= r /\ (r < s => t[r] \in stops) /\ (s < r => t[s] \notin stops)
  BY <1>2 DEF StopsAt
<1>4. ~(r < s)
  BY <1>3
<1> QED
  BY <1>1, <1>3, <1>4

------------------------------------------------------------------------------
(* The parser and the grammar.                                              *)

Read(t, m, p) == [method |-> SubSeq(t, 1, m - 1), path |-> SubSeq(t, m + 1, p - 1)]

\* The three places where http_request_parse stops.
Places(t, m, p, e) ==
  /\ m = Stop(t, 1, Range(t) \ Upper)
  /\ p = Stop(t, m + 1, {"NUL", Space, "\n"})
  /\ e = Stop(t, p, {"NUL", "\n"})

\* What http_request_parse answers, by those places.
LEMMA ParseByPlaces ==
  ASSUME NEW t, NEW m, NEW p, NEW e, Places(t, m, p, e)
  PROVE  /\ m = 1 \/ CharAt(t, m) # Space \/ p = m + 1 \/ ~LineEnds(t, e) => Parse(t) = None
         /\ ~(m = 1 \/ CharAt(t, m) # Space \/ p = m + 1 \/ ~LineEnds(t, e))
              => Parse(t) = Read(t, m, p)
BY DEF Places, Parse, Read

LEMMA InText ==
  ASSUME NEW S, NEW t \in Seq(S), NEW i \in Int, CharAt(t, i) # "NUL"
  PROVE  i \in 1 .. Len(t) /\ CharAt(t, i) = t[i]
BY DEF CharAt

\* What is parsed is derived.
LEMMA ParsedDerives ==
  ASSUME HttpRequestAssumption, NEW S, NEW t \in Seq(S), Parse(t) # None
  PROVE  \E m, p, e \in DOMAIN t : Derives(t, m, p, e) /\ Parse(t) = Read(t, m, p)
<1> PICK m : m = Stop(t, 1, Range(t) \ Upper)
  OBVIOUS
<1> PICK p : p = Stop(t, m + 1, {"NUL", Space, "\n"})
  OBVIOUS
<1> PICK e : e = Stop(t, p, {"NUL", "\n"})
  OBVIOUS
<1>1. Places(t, m, p, e)
  BY DEF Places
<1>2. m # 1 /\ CharAt(t, m) = Space /\ p # m + 1 /\ CharAt(t, e) = "\n" /\ Parse(t) = Read(t, m, p)
  BY <1>1, ParseByPlaces DEF LineEnds
<1>3. Len(t) \in Nat /\ DOMAIN t = 1 .. Len(t)
  OBVIOUS
<1>4. StopsAt(t, 1, Range(t) \ Upper, m)
  BY <1>3, StopStops
<1>5. m \in 1 .. Len(t) /\ t[m] = Space /\ 1 < m
  <2>1. m \in Int /\ 1 <= m
    BY <1>3, <1>4 DEF StopsAt
  <2>2. m \in 1 .. Len(t) /\ t[m] = Space
    BY <1>2, <2>1, InText, SpaceApart
  <2> QED
    BY <1>2, <2>1, <2>2
<1>6. ASSUME NEW i \in 1 .. m - 1 PROVE t[i] \in Upper
  <2>1. i \in DOMAIN t
    BY <1>3, <1>5
  <2>2. t[i] \in Range(t)
    BY <2>1 DEF Range
  <2> QED
    BY <1>4, <2>2 DEF StopsAt
<1>7. StopsAt(t, m + 1, {"NUL", Space, "\n"}, p)
  BY <1>3, <1>5, StopStops
<1>8. p \in m + 1 .. Len(t) + 1 /\ m + 1 < p
  BY <1>2, <1>3, <1>5, <1>7 DEF StopsAt
<1>9. StopsAt(t, p, {"NUL", "\n"}, e)
  BY <1>3, <1>5, <1>8, StopStops
<1>10. e \in p .. Len(t) /\ t[e] = "\n"
  <2>1. e \in Int /\ p <= e
    BY <1>3, <1>5, <1>8, <1>9 DEF StopsAt
  <2>2. e \in 1 .. Len(t) /\ t[e] = "\n"
    BY <1>2, <2>1, InText
  <2> QED
    BY <1>5, <1>8, <2>1, <2>2
<1>11. p \in 1 .. Len(t) /\ t[p] \in {Space, "\n"}
  <2>1. p \in 1 .. Len(t)
    BY <1>3, <1>5, <1>8, <1>10
  <2>2. t[p] \in {"NUL", Space, "\n"}
    BY <1>3, <1>7, <2>1 DEF StopsAt
  <2>3. t[p] # "NUL"
    <3>1. \A j \in p .. e - 1 : t[j] \notin {"NUL", "\n"}
      BY <1>9 DEF StopsAt
    <3>2. p < e => p \in p .. e - 1
      BY <1>10, <2>1
    <3>3. p = e \/ p < e
      BY <1>10, <2>1
    <3> QED
      BY <1>10, <3>1, <3>2, <3>3
  <2> QED
    BY <2>1, <2>2, <2>3
<1>12. /\ \A i \in m + 1 .. p - 1 : t[i] \notin {Space, "\n", "NUL"}
       /\ \A i \in p .. e - 1 : t[i] \notin {"\n", "NUL"}
  BY <1>7, <1>9 DEF StopsAt
<1>13. Derives(t, m, p, e)
  <2>1. p <= e
    BY <1>10, <1>11
  <2> QED
    BY <1>5, <1>6, <1>8, <1>10, <1>11, <1>12, <2>1, Zenon DEF Derives
<1>14. m \in DOMAIN t /\ p \in DOMAIN t /\ e \in DOMAIN t
  BY <1>3, <1>5, <1>10, <1>11
<1> QED
  BY <1>2, <1>13, <1>14

\* What is derived is parsed, so the grammar derives one request at most.
LEMMA DerivedParses ==
  ASSUME HttpRequestAssumption, NEW S, NEW t \in Seq(S),
         NEW m \in DOMAIN t, NEW p \in DOMAIN t, NEW e \in DOMAIN t, Derives(t, m, p, e)
  PROVE  Parse(t) = Read(t, m, p) /\ Parse(t) # None
<1>1. Len(t) \in Nat /\ DOMAIN t = 1 .. Len(t) /\ m \in 1 .. Len(t) /\ p \in 1 .. Len(t)
      /\ e \in 1 .. Len(t)
  OBVIOUS
<1>2. /\ 1 < m /\ m + 1 < p /\ p <= e
      /\ \A i \in 1 .. m - 1 : t[i] \in Upper
      /\ t[m] = Space
      /\ \A i \in m + 1 .. p - 1 : t[i] \notin {Space, "\n", "NUL"}
      /\ t[p] \in {Space, "\n"}
      /\ \A i \in p .. e - 1 : t[i] \notin {"\n", "NUL"}
      /\ t[e] = "\n"
  BY DEF Derives
<1>3. m = Stop(t, 1, Range(t) \ Upper)
  <2>1. t[m] \in Range(t) \ Upper
    BY <1>1, <1>2 DEF Range, HttpRequestAssumption
  <2>2. \A j \in 1 .. m - 1 : t[j] \notin Range(t) \ Upper
    BY <1>2
  <2>3. 1 \in 1 .. Len(t) + 1 /\ m \in 1 .. Len(t)
    BY <1>1
  <2> QED
    BY <2>1, <2>2, <2>3, StopIs
<1>4. p = Stop(t, m + 1, {"NUL", Space, "\n"})
  <2>1. t[p] \in {"NUL", Space, "\n"} /\ \A j \in m + 1 .. p - 1 : t[j] \notin {"NUL", Space, "\n"}
    BY <1>2
  <2>2. m + 1 \in 1 .. Len(t) + 1 /\ p \in m + 1 .. Len(t)
    BY <1>1, <1>2
  <2> QED
    BY <2>1, <2>2, StopIs
<1>5. e = Stop(t, p, {"NUL", "\n"})
  <2>1. t[e] \in {"NUL", "\n"} /\ \A j \in p .. e - 1 : t[j] \notin {"NUL", "\n"}
    BY <1>2
  <2>2. p \in 1 .. Len(t) + 1 /\ e \in p .. Len(t)
    BY <1>1, <1>2
  <2> QED
    BY <2>1, <2>2, StopIs
<1>6. Places(t, m, p, e)
  BY <1>3, <1>4, <1>5 DEF Places
<1>7. CharAt(t, m) = Space /\ LineEnds(t, e) /\ m # 1 /\ p # m + 1
  BY <1>1, <1>2 DEF CharAt, LineEnds
<1>8. Parse(t) = Read(t, m, p)
  BY <1>6, <1>7, ParseByPlaces
<1>9. Read(t, m, p) # None
  <2>1. Len(SubSeq(t, 1, m - 1)) = m - 1
    BY <1>1, <1>2, SubSeqProperties
  <2>2. SubSeq(t, 1, m - 1) # <<>>
    BY <1>1, <1>2, <2>1
  <2>3. Read(t, m, p).method = SubSeq(t, 1, m - 1) /\ None.method = <<>>
    BY DEF Read, None
  <2> QED
    BY <2>2, <2>3
<1> QED
  BY <1>8, <1>9

\* The requests that the grammar derives are the one that is parsed, if any.
LEMMA GrammarKept ==
  ASSUME HttpRequestAssumption, NEW S, NEW t \in Seq(S)
  PROVE  Requests(t) = {Parse(t)} \ {None}
<1>1. ASSUME NEW r \in Requests(t) PROVE r = Parse(t) /\ r # None
  <2>1. PICK d \in (DOMAIN t) \X (DOMAIN t) \X (DOMAIN t) :
          /\ Derives(t, d[1], d[2], d[3])
          /\ r = [method |-> SubSeq(t, 1, d[1] - 1), path |-> SubSeq(t, d[1] + 1, d[2] - 1)]
    BY <1>1 DEF Requests
  <2>2. d[1] \in DOMAIN t /\ d[2] \in DOMAIN t /\ d[3] \in DOMAIN t
    OBVIOUS
  <2>3. r = Read(t, d[1], d[2])
    BY <2>1 DEF Read
  <2> QED
    BY <2>1, <2>2, <2>3, DerivedParses
<1>2. ASSUME Parse(t) # None PROVE Parse(t) \in Requests(t)
  <2>1. PICK m, p, e \in DOMAIN t : Derives(t, m, p, e) /\ Parse(t) = Read(t, m, p)
    BY <1>2, ParsedDerives
  <2>2. PICK d : d = <<m, p, e>>
    OBVIOUS
  <2>3. /\ d \in (DOMAIN t) \X (DOMAIN t) \X (DOMAIN t) /\ Derives(t, d[1], d[2], d[3])
        /\ Read(t, m, p) = [method |-> SubSeq(t, 1, d[1] - 1), path |-> SubSeq(t, d[1] + 1, d[2] - 1)]
    BY <2>1, <2>2 DEF Read
  <2> QED
    BY <2>1, <2>3 DEF Requests
<1> QED
  BY <1>1, <1>2

\* A request of which a part was read is parsed as a whole or not at all: what
\* was derived from the part is derived from the whole.
LEMMA PartParsed ==
  ASSUME HttpRequestAssumption, NEW S, NEW t \in Seq(S), NEW k \in 0 .. Len(t)
  PROVE  Parse(SubSeq(t, 1, k)) \in {None, Parse(t)}
<1> PICK u : u = SubSeq(t, 1, k)
  OBVIOUS
<1> SUFFICES ASSUME Parse(u) # None PROVE Parse(u) = Parse(t)
  OBVIOUS
<1>1. u \in Seq(S) /\ Len(u) = k /\ (\A i \in 1 .. k : u[i] = t[i]) /\ k \in Nat /\ k <= Len(t)
  <2>1. \A i \in 1 .. k : t[i] \in S
    OBVIOUS
  <2> QED
    BY <2>1, SubSeqProperties
<1>2. PICK m, p, e \in DOMAIN u : Derives(u, m, p, e) /\ Parse(u) = Read(u, m, p)
  BY <1>1, ParsedDerives
<1>3. m \in 1 .. k /\ p \in 1 .. k /\ e \in 1 .. k /\ 1 < m /\ m + 1 < p /\ p <= e
  BY <1>1, <1>2 DEF Derives
<1>4. m \in DOMAIN t /\ p \in DOMAIN t /\ e \in DOMAIN t
  BY <1>1, <1>3
<1>5. Derives(t, m, p, e)
  BY <1>1, <1>2, <1>3 DEF Derives
<1>6. Read(u, m, p) = Read(t, m, p)
  <2>1. ASSUME NEW a \in 1 .. k, NEW b \in 1 .. k
        PROVE  SubSeq(u, a, b) = SubSeq(t, a, b)
    BY <1>1, <2>1
  <2>2. m - 1 \in 1 .. k /\ p - 1 \in 1 .. k /\ m + 1 \in 1 .. k /\ 1 \in 1 .. k
    BY <1>1, <1>3
  <2> QED
    BY <2>1, <2>2 DEF Read
<1> QED
  BY <1>2, <1>4, <1>5, <1>6, DerivedParses

\* For texts of any length and any characters: what http_request_parse takes is
\* what the grammar derives, and of a text cut short the same or nothing.
THEOREM RequestParsed == Spec => []RequestOK
<1> DEFINE Inv == text \in Seq(TextChars)
<1>1. Init => Inv
  BY DEF Init
<1>2. Inv /\ [Next]_vars => Inv'
  BY DEF Next, Type, Arrive, vars
<1>3. Inv => RequestOK
  BY HttpRequestAssumption, GrammarKept, PartParsed DEF RequestOK
<1> HIDE DEF Inv
<1> QED
  BY <1>1, <1>2, <1>3, PTL DEF Spec
==============================================================================
