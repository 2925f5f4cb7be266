----------------------------- MODULE MMAllocProofs -----------------------------
(****************************************************************************)
(* For a heap and requests of any size: the list of mm_alloc.c partitions   *)
(* the heap, and no call changes a byte that another caller holds.          *)
(*                                                                          *)
(* A set B of blocks is the list of a memory when it is linked as List says *)
(* (ListIsBlocks), so each call is followed by naming the blocks that it    *)
(* leaves.  What makes List inductive is where a prev may lead (Behind):    *)
(* mm_free does not tell the block after a merged one, so its prev may lie  *)
(* inside the block before it, but never at a record that says free.        *)
(****************************************************************************)
EXTENDS MMAlloc, WellFoundedInduction, SequenceTheorems, TLAPS

------------------------------------------------------------------------------
(* The invariant.                                                           *)

Rec == [prev : Int, next : Int, free : BOOLEAN, size : Nat]

\* A memory: integers in its cells, and a record before each cell marked Info.
Memory(m) ==
  /\ m = [cell |-> m.cell, rec |-> m.rec, top |-> m.top]
  /\ m.top \in Nat
  /\ m.cell \in [0 .. m.top - 1 -> Int]
  /\ \A a : a \in DOMAIN m.rec <=> a \in 0 .. m.top - 2 /\ m.cell[a + 1] = Info
  /\ \A a \in DOMAIN m.rec : m.rec[a] \in Rec

\* The prev of b is the block a before it, or is inside a, where mm_free finds
\* no record of a free block.
Behind(m, a, b) ==
  \/ m.rec[b].prev = a
  \/ /\ m.rec[b].prev \in a + 1 .. b - Meta
     /\ m.rec[b].prev \in DOMAIN m.rec => ~m.rec[m.rec[b].prev].free

\* B is the list: it starts at the first cell, and each of its blocks has room
\* before the next, or the end of the heap.
List(m, B) ==
  /\ B \subseteq DOMAIN m.rec
  /\ B = {} <=> m.top = 0
  /\ B # {} => 0 \in B /\ m.rec[0].prev = NULL
  /\ \A a \in B : m.rec[a].next \in B \cup {NULL} /\ a + Meta + m.rec[a].size <= End(m, a)
  /\ \A a, b \in B : a < b => m.rec[a].next # NULL /\ m.rec[a].next <= b
  /\ \A b \in B \ {0} : \E a \in B : m.rec[a].next = b
  /\ \A a \in B : m.rec[a].next # NULL => Behind(m, a, m.rec[a].next)

\* The caller who holds p has a block of its own, with the bytes it knows, and
\* knows no byte of a record.
Holds(m, B, p, bytes) ==
  /\ bytes \in Seq(Int) /\ p - Meta \in B /\ m.rec[p - Meta].size = Len(bytes)
  /\ \A i \in 1 .. Len(bytes) : m.cell[p + i - 1] = bytes[i] /\ bytes[i] \notin {Ptrs, Info}

\* The blocks in use are those that callers hold.
Owned(m, B, h) ==
  /\ DOMAIN h \subseteq Nat
  /\ \A a \in B : ~m.rec[a].free <=> a + Meta \in DOMAIN h
  /\ \A p \in DOMAIN h : Holds(m, B, p, h[p])

Heap(m, B, h) == Memory(m) /\ List(m, B) /\ Owned(m, B, h)

HeapInv == ~wild => Heap(mem, Blocks(mem), held)

------------------------------------------------------------------------------
(* The list and its first fit.                                              *)

\* A set of addresses that is not empty has a least one.
LEMMA Least ==
  ASSUME NEW S \in SUBSET Nat, S # {}
  PROVE  Min(S) \in S /\ \A y \in S : Min(S) <= y
<1>1. PICK x \in S : \A y \in S : ~(<<y, x>> \in OpToRel(<, Nat))
  BY NatLessThanWellFounded, WFMin
<1>2. \A y \in S : ~(y < x)
  BY <1>1 DEF OpToRel
<1>3. \A y \in S : x <= y
  BY <1>2
<1> QED
  BY <1>3 DEF Min

\* The blocks that the loop comes to are those that List speaks of: there is
\* no first block that a set closed under next could leave out.
LEMMA ListIsBlocks ==
  ASSUME NEW m, Memory(m), NEW B, List(m, B)
  PROVE  Blocks(m) = B
<1> DEFINE Closed(S) == 0 \in S /\ \A b \in S : m.rec[b].next \in S \cup {NULL}
<1>1. Blocks(m) = {a \in DOMAIN m.rec : \A S \in SUBSET DOMAIN m.rec : Closed(S) => a \in S}
  BY DEF Blocks
<1>2. B \in SUBSET DOMAIN m.rec /\ DOMAIN m.rec \subseteq Nat
  BY DEF List, Memory
<1>3. Blocks(m) \subseteq B
  <2>1. CASE B = {}
    <3>1. DOMAIN m.rec = {}
      BY <2>1 DEF List, Memory
    <3> QED
      BY <1>1, <3>1
  <2>2. CASE B # {}
    <3>1. Closed(B)
      BY <2>2 DEF List
    <3> HIDE DEF Closed
    <3> QED
      BY <1>1, <1>2, <3>1
  <2> QED
    BY <2>1, <2>2
<1>4. ASSUME NEW S \in SUBSET DOMAIN m.rec, Closed(S), NEW c \in B \ S
      PROVE  FALSE
  <2> DEFINE left == B \ S
             b == Min(left)
  <2>1. b \in left /\ \A y \in left : b <= y
    BY <1>2, <1>4, Least
  <2>2. b \in B \ {0}
    BY <1>4, <2>1
  <2>3. PICK a \in B : m.rec[a].next = b
    BY <2>2 DEF List
  <2>4. a < b
    <3>1. a \in Nat /\ b \in Nat /\ m.rec[a].size \in Nat
      BY <1>2, <2>2 DEF List, Memory, Rec
    <3>2. End(m, a) = b
      BY <2>3, <3>1 DEF End, NULL
    <3>3. a + Meta + m.rec[a].size <= End(m, a)
      BY DEF List
    <3> HIDE DEF b
    <3> QED
      BY <3>1, <3>2, <3>3 DEF Meta
  <2>5. a \in S
    <3>1. a \notin left
      BY <1>2, <2>1, <2>2, <2>4
    <3> QED
      BY <3>1
  <2>6. b \in S \cup {NULL}
    BY <1>4, <2>3, <2>5
  <2>7. b \in Nat
    BY <1>2, <2>2
  <2> HIDE DEF b
  <2> QED
    BY <2>1, <2>6, <2>7 DEF NULL
<1> HIDE DEF Closed
<1> QED
  BY <1>1, <1>2, <1>3, <1>4

\* Where the blocks lie: in order, apart, and inside the heap.
LEMMA Order ==
  ASSUME NEW m, Memory(m), NEW B, List(m, B)
  PROVE  /\ B \subseteq Nat
         /\ \A a \in B : /\ m.rec[a].size \in Nat /\ m.rec[a].prev \in Int
                         /\ m.rec[a].free \in BOOLEAN /\ m.rec[a].next \in B \cup {NULL}
                         /\ a + Meta <= End(m, a) /\ End(m, a) <= m.top /\ End(m, a) \in Nat
         /\ \A a \in B : m.rec[a].next # NULL => End(m, a) = m.rec[a].next
         /\ \A a, b \in B : a < b => End(m, a) <= b /\ m.rec[a].next # NULL
         /\ \A a, b \in B : m.rec[a].next = m.rec[b].next => a = b
<1>1. B \subseteq DOMAIN m.rec /\ DOMAIN m.rec \subseteq 0 .. m.top - 2 /\ m.top \in Nat
  BY DEF List, Memory
<1>2. ASSUME NEW a \in B
      PROVE  /\ m.rec[a].size \in Nat /\ m.rec[a].prev \in Int /\ a \in Nat
             /\ m.rec[a].free \in BOOLEAN /\ m.rec[a].next \in B \cup {NULL}
             /\ a + Meta <= End(m, a) /\ End(m, a) <= m.top /\ End(m, a) \in Nat
  <2>1. m.rec[a] \in Rec /\ m.rec[a].next \in B \cup {NULL} /\ a + Meta + m.rec[a].size <= End(m, a)
    BY <1>1 DEF List, Memory
  <2>2. End(m, a) \in Nat /\ End(m, a) <= m.top
    BY <1>1, <2>1 DEF End
  <2> QED
    BY <1>1, <2>1, <2>2 DEF Rec, Meta
<1>3. \A a \in B : m.rec[a].next # NULL => End(m, a) = m.rec[a].next
  BY DEF End
<1>4. \A a, b \in B : a < b => End(m, a) <= b /\ m.rec[a].next # NULL
  BY <1>3 DEF List
<1>5. ASSUME NEW a \in B, NEW b \in B, m.rec[a].next = m.rec[b].next, a < b
      PROVE  FALSE
  <2>1. m.rec[a].next <= b /\ m.rec[a].next # NULL
    BY <1>3, <1>4, <1>5
  <2>2. b + Meta <= m.rec[a].next
    BY <1>2, <1>3, <1>5, <2>1
  <2> QED
    BY <1>2, <2>1, <2>2 DEF Meta
<1>6. \A a, b \in B : m.rec[a].next = m.rec[b].next => a = b
  BY <1>2, <1>5
<1> QED
  BY <1>2, <1>3, <1>4, <1>6

------------------------------------------------------------------------------
(* What the primitives make of a memory.                                    *)

\* A memory with other cells, records, or another end.
LEMMA Parts ==
  ASSUME NEW m, Memory(m), NEW c, NEW r, NEW t
  PROVE  /\ [m EXCEPT !.cell = c, !.rec = r] = [cell |-> c, rec |-> r, top |-> m.top]
         /\ [m EXCEPT !.rec = r] = [cell |-> m.cell, rec |-> r, top |-> m.top]
         /\ [m EXCEPT !.cell = c, !.top = t] = [cell |-> c, rec |-> m.rec, top |-> t]
<1>1. PICK c0, r0, t0 : m = [cell |-> c0, rec |-> r0, top |-> t0]
  BY DEF Memory
<1>2. PICK o : o = [m EXCEPT !.cell = c]
  OBVIOUS
<1>3. /\ [m EXCEPT !.cell = c, !.rec = r] = [o EXCEPT !.rec = r]
      /\ [m EXCEPT !.cell = c, !.top = t] = [o EXCEPT !.top = t]
  BY <1>2
<1>4. o = [cell |-> c, rec |-> r0, top |-> t0]
  BY <1>1, <1>2
<1>5. /\ [o EXCEPT !.rec = r] = [cell |-> c, rec |-> r, top |-> t0]
      /\ [o EXCEPT !.top = t] = [cell |-> c, rec |-> r0, top |-> t]
  BY <1>4
<1>6. [m EXCEPT !.rec = r] = [cell |-> c0, rec |-> r, top |-> t0]
  BY <1>1
<1> QED
  BY <1>1, <1>3, <1>5, <1>6

\* s is m but for the n cells from p on, and the records that lay in them.
Overwrote(m, s, p, n) ==
  /\ Memory(s) /\ s.top = m.top
  /\ \A x \in 0 .. m.top - 1 : x \notin Span(p, n) => s.cell[x] = m.cell[x]
  /\ DOMAIN s.rec = {a \in DOMAIN m.rec : a + 1 \notin Span(p, n)}
  /\ \A a \in DOMAIN s.rec : s.rec[a] = m.rec[a]

\* Bytes that are stored are where they were stored.
Stored(m, s, p, n, bytes) == Overwrote(m, s, p, n) /\ \A i \in 1 .. n : s.cell[p + i - 1] = bytes[i]

LEMMA StoreWrites ==
  ASSUME NEW m, Memory(m), NEW p \in Nat, NEW n \in Nat, p + n <= m.top,
         NEW bytes \in [1 .. n -> Int], \A i \in 1 .. n : bytes[i] # Info
  PROVE  Stored(m, Store(m, p, bytes), p, n, bytes)
<1> DEFINE cell == [a \in DOMAIN m.cell |->
                      IF a \in Span(p, n) THEN bytes[a - p + 1] ELSE m.cell[a]]
           rec == Kept(m, cell)
           s == [cell |-> cell, rec |-> rec, top |-> m.top]
<1>1. Len(bytes) = n
  BY DEF Memory
<1>2. Store(m, p, bytes) = s
  <2>1. Store(m, p, bytes) = [m EXCEPT !.cell = cell, !.rec = rec]
    BY <1>1 DEF Store
  <2> QED
    BY <2>1, Parts, ZenonT(60)
<1>3. DOMAIN m.cell = 0 .. m.top - 1 /\ m.top \in Nat /\ \A x \in 0 .. m.top - 1 : m.cell[x] \in Int
  BY DEF Memory
<1>4. \A x \in 0 .. m.top - 1 : /\ cell[x] = IF x \in Span(p, n) THEN bytes[x - p + 1] ELSE m.cell[x]
                                /\ cell[x] \in Int
  BY <1>3 DEF Span
<1>5. \A x \in Span(p, n) : cell[x] # Info
  BY <1>3, <1>4 DEF Span
<1>6. \A a \in DOMAIN m.rec : a \in 0 .. m.top - 2 /\ a + 1 \in 0 .. m.top - 1 /\ m.cell[a + 1] = Info
  BY <1>3 DEF Memory
<1>7. DOMAIN rec = {a \in DOMAIN m.rec : a + 1 \notin Span(p, n)}
  <2>1. DOMAIN rec = {a \in DOMAIN m.rec : cell[a + 1] = Info}
    BY DEF Kept
  <2> HIDE DEF rec, cell
  <2> QED
    BY <2>1, <1>4, <1>5, <1>6
<1>8. \A a \in DOMAIN rec : rec[a] = m.rec[a]
  BY DEF Kept
<1>9. cell \in [0 .. m.top - 1 -> Int]
  BY <1>3, <1>4
<1> HIDE DEF rec, cell
<1>10. \A a : a \in DOMAIN rec <=> a \in 0 .. m.top - 2 /\ cell[a + 1] = Info
  BY <1>3, <1>4, <1>5, <1>6, <1>7, SMTT(60) DEF Memory
<1>11. Memory(s)
  BY <1>3, <1>7, <1>8, <1>9, <1>10 DEF Memory
<1>12. ASSUME NEW i \in 1 .. n PROVE cell[p + i - 1] = bytes[i]
  <2>1. p + i - 1 \in 0 .. m.top - 1 /\ p + i - 1 \in Span(p, n) /\ (p + i - 1) - p + 1 = i
    BY <1>3 DEF Span
  <2> QED
    BY <1>4, <2>1
<1> QED
  BY <1>2, <1>3, <1>4, <1>7, <1>8, <1>11, <1>12 DEF Overwrote, Stored

\* s is m but for n cells after the record at a, which are zero.
Cleared(m, s, a, n) ==
  /\ Memory(s) /\ s.top = m.top
  /\ \A x \in 0 .. m.top - 1 : x < a + Meta \/ x >= a + Meta + n => s.cell[x] = m.cell[x]
  /\ \A x \in 0 .. m.top - 1 : x >= a + Meta /\ x < a + Meta + n => s.cell[x] = 0
  /\ DOMAIN s.rec \subseteq DOMAIN m.rec
  /\ \A b \in DOMAIN m.rec : b + 1 < a + Meta \/ b + 1 >= a + Meta + n => b \in DOMAIN s.rec
  /\ \A b \in DOMAIN s.rec : s.rec[b] = m.rec[b]

LEMMA ClearWrites ==
  ASSUME NEW m, Memory(m), NEW a \in Nat, NEW n \in Nat, a + Meta + n <= m.top
  PROVE  Cleared(m, Clear(m, a, n), a, n)
<1> PICK p \in Nat : p = a + Meta
  BY DEF Meta
<1>1. Zeros(n) \in [1 .. n -> Int]
  BY DEF Zeros
<1> PICK zeros \in [1 .. n -> Int] : zeros = Zeros(n)
  BY <1>1
<1> PICK s : s = Store(m, p, zeros)
  OBVIOUS
<1>2. \A i \in 1 .. n : zeros[i] # Info /\ zeros[i] = 0
  BY DEF Zeros, Info
<1>3. Stored(m, s, p, n, zeros)
  BY <1>2, StoreWrites
<1>4. m.top \in Nat /\ \A b \in DOMAIN m.rec : b \in Int
  BY DEF Memory
<1>5. ASSUME NEW x \in 0 .. m.top - 1, x >= p, x < p + n
      PROVE  s.cell[x] = 0
  <2>1. x - p + 1 \in 1 .. n /\ x = p + (x - p + 1) - 1
    BY <1>4, <1>5
  <2> QED
    BY <1>2, <1>3, <2>1 DEF Stored
<1>6. Cleared(m, s, a, n)
  BY <1>3, <1>4, <1>5 DEF Cleared, Stored, Overwrote, Span
<1> QED
  BY <1>6 DEF Clear

\* s is m with a record put in two cells; one that began a cell before is lost.
Put(m, s, a, r) ==
  /\ Memory(s) /\ s.top = m.top
  /\ \A x \in 0 .. m.top - 1 : x \notin Span(a, Meta) => s.cell[x] = m.cell[x]
  /\ DOMAIN s.rec = (DOMAIN m.rec \ {a - 1}) \cup {a} /\ s.rec[a] = r
  /\ \A b \in DOMAIN s.rec : b # a => s.rec[b] = m.rec[b]

LEMMA PutRecordWrites ==
  ASSUME NEW m, Memory(m), NEW a \in Nat, a <= m.top - 2, NEW r \in Rec
  PROVE  Put(m, PutRecord(m, a, r), a, r)
<1> DEFINE bytes == <<Ptrs, Info>>
           cell == [x \in DOMAIN m.cell |->
                      IF x \in Span(a, 2) THEN bytes[x - a + 1] ELSE m.cell[x]]
           kept == Kept(m, cell)
           rec == [b \in DOMAIN kept \cup {a} |-> IF b = a THEN r ELSE kept[b]]
           s == [cell |-> cell, rec |-> rec, top |-> m.top]
<1>1. Store(m, a, bytes) = [cell |-> cell, rec |-> kept, top |-> m.top]
  <2>1. Len(bytes) = 2
    OBVIOUS
  <2>2. Store(m, a, bytes) = [m EXCEPT !.cell = cell, !.rec = kept]
    BY <2>1 DEF Store
  <2> QED
    BY <2>2, Parts
<1>2. PutRecord(m, a, r) = s
  BY <1>1 DEF PutRecord
<1>3. /\ DOMAIN m.cell = 0 .. m.top - 1 /\ m.top \in Nat /\ a \in Nat
      /\ \A x \in 0 .. m.top - 1 : m.cell[x] \in Int
  BY DEF Memory
<1>4. /\ cell[a] = Ptrs /\ cell[a + 1] = Info
      /\ \A x \in 0 .. m.top - 1 : x \notin Span(a, Meta) => cell[x] = m.cell[x]
      /\ cell \in [0 .. m.top - 1 -> Int]
  BY <1>3, SMTT(60) DEF Span, Meta, Ptrs, Info
<1>5. DOMAIN kept = {b \in DOMAIN m.rec : cell[b + 1] = Info} /\ \A b \in DOMAIN kept : kept[b] = m.rec[b]
  BY DEF Kept
<1>6. \A b \in DOMAIN m.rec : b \in 0 .. m.top - 2 /\ b + 1 \in 0 .. m.top - 1 /\ m.cell[b + 1] = Info
  BY <1>3 DEF Memory
<1> HIDE DEF kept, cell
<1>7. ASSUME NEW b \in 0 .. m.top - 2, b # a, b # a - 1
      PROVE  cell[b + 1] = m.cell[b + 1]
  <2>1. b + 1 \in 0 .. m.top - 1 /\ b + 1 \notin Span(a, Meta)
    BY <1>3, <1>7 DEF Span, Meta
  <2> QED
    BY <1>4, <2>1
<1>8. DOMAIN rec = (DOMAIN m.rec \ {a - 1}) \cup {a} /\ rec[a] = r
      /\ \A b \in DOMAIN rec : b # a => rec[b] = m.rec[b]
  <2>1. \A b \in DOMAIN m.rec : b # a => (b \in DOMAIN kept <=> b # a - 1)
    <3>1. (a - 1) + 1 = a /\ Ptrs # Info
      BY <1>3 DEF Ptrs, Info
    <3> QED
      BY <1>3, <1>4, <1>5, <1>6, <1>7, <3>1
  <2>2. DOMAIN kept \subseteq DOMAIN m.rec /\ a # a - 1
    BY <1>3, <1>5
  <2> QED
    BY <1>5, <2>1, <2>2
<1> HIDE DEF rec
<1>9. \A b : b \in DOMAIN rec <=> b \in 0 .. m.top - 2 /\ cell[b + 1] = Info
  <2>1. cell[(a - 1) + 1] # Info /\ a - 1 \notin DOMAIN rec /\ a \in DOMAIN rec
    BY <1>3, <1>4, <1>8 DEF Ptrs, Info
  <2>2. \A b \in 0 .. m.top - 2 : b \in DOMAIN m.rec <=> m.cell[b + 1] = Info
    BY DEF Memory
  <2>3. ASSUME NEW b \in 0 .. m.top - 2 PROVE b \in DOMAIN rec <=> cell[b + 1] = Info
    <3>1. b = a \/ b = a - 1 \/ (b # a /\ b # a - 1)
      OBVIOUS
    <3> QED
      BY <1>4, <1>7, <1>8, <2>1, <2>2, <2>3, <3>1
  <2>4. DOMAIN rec \subseteq 0 .. m.top - 2
    BY <1>6, <1>8
  <2> QED
    BY <2>3, <2>4
<1>10. Memory(s)
  BY <1>3, <1>4, <1>8, <1>9 DEF Memory
<1> QED
  BY <1>2, <1>4, <1>8, <1>10 DEF Put

\* A record is changed, its cells are not.
LEMMA RecordSet ==
  ASSUME NEW m, Memory(m), NEW a \in DOMAIN m.rec, NEW r \in Rec
  PROVE  LET s == [m EXCEPT !.rec = [m.rec EXCEPT ![a] = r]]
         IN  /\ Memory(s) /\ s.top = m.top /\ s.cell = m.cell
             /\ DOMAIN s.rec = DOMAIN m.rec /\ s.rec[a] = r
             /\ \A b \in DOMAIN m.rec : b # a => s.rec[b] = m.rec[b]
<1> DEFINE rec == [m.rec EXCEPT ![a] = r]
           s == [cell |-> m.cell, rec |-> rec, top |-> m.top]
<1>1. [m EXCEPT !.rec = rec] = s
  BY Parts
<1>2. DOMAIN rec = DOMAIN m.rec /\ rec[a] = r /\ \A b \in DOMAIN m.rec : b # a => rec[b] = m.rec[b]
  OBVIOUS
<1> HIDE DEF rec
<1>3. Memory(s)
  BY <1>2 DEF Memory
<1> QED
  BY <1>1, <1>2, <1>3 DEF rec

\* s is m with n more cells, which are zero.
Grown(m, s, n) ==
  /\ Memory(s) /\ s.top = m.top + n /\ s.rec = m.rec
  /\ \A x \in 0 .. m.top - 1 : s.cell[x] = m.cell[x]
  /\ \A x \in m.top .. m.top + n - 1 : s.cell[x] = 0

LEMMA SbrkGrows ==
  ASSUME NEW m, Memory(m), NEW n \in Nat
  PROVE  Grown(m, Sbrk(m, n), n)
<1> DEFINE cell == [a \in Span(0, m.top + n) |-> IF a < m.top THEN m.cell[a] ELSE 0]
           s == [cell |-> cell, rec |-> m.rec, top |-> m.top + n]
<1>1. Sbrk(m, n) = s
  <2>1. Sbrk(m, n) = [m EXCEPT !.cell = cell, !.top = m.top + n]
    BY DEF Sbrk
  <2> QED
    BY <2>1, Parts
<1>2. m.top \in Nat /\ DOMAIN m.cell = 0 .. m.top - 1 /\ \A x \in 0 .. m.top - 1 : m.cell[x] \in Int
  BY DEF Memory
<1>3. /\ cell \in [0 .. m.top + n - 1 -> Int]
      /\ \A x \in 0 .. m.top - 1 : cell[x] = m.cell[x]
      /\ \A x \in m.top .. m.top + n - 1 : cell[x] = 0
  BY <1>2 DEF Span
<1> HIDE DEF cell
<1>4. \A a : a \in DOMAIN m.rec <=> a \in 0 .. m.top + n - 2 /\ cell[a + 1] = Info
  <2>1. \A a \in 0 .. m.top + n - 2 : a + 1 < m.top <=> a \in 0 .. m.top - 2
    BY <1>2
  <2>2. \A a \in 0 .. m.top + n - 2 : a + 1 >= m.top => cell[a + 1] # Info
    BY <1>2, <1>3 DEF Info
  <2>3. \A a \in 0 .. m.top - 2 : a \in 0 .. m.top + n - 2 /\ cell[a + 1] = m.cell[a + 1]
    BY <1>2, <1>3, SMTT(60)
  <2> QED
    BY <1>2, <2>1, <2>2, <2>3 DEF Memory
<1>5. Memory(s)
  BY <1>2, <1>3, <1>4 DEF Memory
<1> QED
  BY <1>1, <1>3, <1>5 DEF Grown

------------------------------------------------------------------------------
(* What a change of records makes of the list.                              *)

\* Records outside the list, which only a prev can lead to, are as they were.
Stale(m, s, B) == \A x \in DOMAIN s.rec \ B : x \in DOMAIN m.rec /\ s.rec[x].free = m.rec[x].free

\* A prev that led where Behind allows still does.
LEMMA StillBehind ==
  ASSUME NEW m, Memory(m), NEW B, List(m, B), NEW s, NEW C, Stale(m, s, C),
         NEW a \in B, m.rec[a].next # NULL, \A e \in C \ B : e \notin a + 1 .. m.rec[a].next - Meta,
         s.rec[m.rec[a].next].prev = m.rec[m.rec[a].next].prev
  PROVE  Behind(s, a, m.rec[a].next)
<1> PICK b, q : b = m.rec[a].next /\ q = m.rec[b].prev
  OBVIOUS
<1>1. Behind(m, a, b) /\ b \in B /\ a \in Nat /\ b \in Nat /\ q \in Int
  BY Order, SMTT(60) DEF List
<1>2. CASE q = a
  BY <1>2 DEF Behind
<1>3. CASE q \in a + 1 .. b - Meta
  <2>1. q \notin B
    <3>1. q \in B => b <= q
      BY <1>1, <1>3, Order, SMTT(60)
    <3> QED
      BY <1>1, <1>3, <3>1 DEF Meta
  <2>2. q \in DOMAIN s.rec => ~s.rec[q].free
    BY <1>1, <1>3, <2>1 DEF Behind, Stale
  <2> QED
    BY <1>3, <2>2 DEF Behind
<1> QED
  BY <1>1, <1>2, <1>3 DEF Behind

\* No link changes: the list is the same.
LEMMA ListSame ==
  ASSUME NEW m, Memory(m), NEW B, List(m, B), B # {},
         NEW s, Memory(s), s.top >= m.top, B \subseteq DOMAIN s.rec, Stale(m, s, B),
         \A b \in B : /\ s.rec[b].next = m.rec[b].next /\ s.rec[b].prev = m.rec[b].prev
                      /\ b + Meta + s.rec[b].size <= End(s, b)
  PROVE  List(s, B)
<1>1. m.top \in Nat /\ m.top # 0 /\ s.top # 0
  BY DEF List, Memory
<1>2. ASSUME NEW a \in B, s.rec[a].next # NULL
      PROVE  Behind(s, a, s.rec[a].next)
  <2>1. m.rec[a].next \in B /\ s.rec[a].next = m.rec[a].next
    BY <1>2, Order
  <2> QED
    BY <1>2, <2>1, StillBehind
<1> QED
  BY <1>1, <1>2 DEF List

\* A block e is split off the block a.
LEMMA ListSplit ==
  ASSUME NEW m, Memory(m), NEW B, List(m, B), NEW a \in B, NEW e \in Int,
         NEW s, Memory(s), s.top = m.top, B \cup {e} \subseteq DOMAIN s.rec,
         Stale(m, s, B \cup {e}), e < End(m, a),
         s.rec[a].next = e, s.rec[a].prev = m.rec[a].prev, a + Meta + s.rec[a].size <= e,
         s.rec[e].next = m.rec[a].next, s.rec[e].prev = a,
         e + Meta + s.rec[e].size <= End(m, a),
         \A b \in B \ {a} : /\ s.rec[b].next = m.rec[b].next /\ s.rec[b].size = m.rec[b].size
                            /\ b = m.rec[a].next => s.rec[b].prev = e
                            /\ b # m.rec[a].next => s.rec[b].prev = m.rec[b].prev
  PROVE  List(s, B \cup {e})
<1> PICK C : C = B \cup {e}
  OBVIOUS
<1>1. /\ B \subseteq Nat /\ m.top \in Nat /\ m.top # 0 /\ s.rec[a].size \in Nat
      /\ s.rec[e].size \in Nat /\ a < e /\ e \in Nat
  <2>1. B \subseteq Nat /\ m.top \in Nat /\ m.top # 0
    BY Order DEF List, Memory
  <2>2. s.rec[a].size \in Nat /\ s.rec[e].size \in Nat
    BY DEF Memory, Rec
  <2> QED
    BY <2>1, <2>2 DEF Meta
<1>2. \A b \in B : b < e => b <= a
  <2>1. \A b \in B : a < b => End(m, a) <= b
    BY Order
  <2> QED
    BY <1>1, <2>1, Order
<1>3. e \notin B
  BY <1>1, Order
<1>4. 0 \in C /\ s.rec[0].prev = NULL
  <2>1. 0 \in B /\ m.rec[0].prev = NULL
    BY DEF List
  <2>2. m.rec[a].next # 0
    BY <1>1, <2>1, Order DEF Meta, NULL
  <2> QED
    BY <2>1, <2>2
<1>5. /\ End(s, a) = e /\ End(s, e) = End(m, a)
      /\ \A b \in B \ {a} : End(s, b) = End(m, b)
  BY <1>1 DEF End, NULL
<1>6. ASSUME NEW b \in C
      PROVE  s.rec[b].next \in C \cup {NULL} /\ b + Meta + s.rec[b].size <= End(s, b)
  <2>1. CASE b = a
    BY <1>5, <2>1
  <2>2. CASE b = e
    BY <1>5, <2>2, Order
  <2>3. CASE b \in B \ {a}
    BY <1>5, <2>3 DEF List
  <2> QED
    BY <2>1, <2>2, <2>3
<1>7. ASSUME NEW b \in C, NEW c \in C, b < c
      PROVE  s.rec[b].next # NULL /\ s.rec[b].next <= c
  <2>1. CASE b = a
    BY <1>1, <1>2, <1>7, <2>1 DEF NULL
  <2>2. CASE b = e
    BY <1>1, <1>7, <2>2, Order
  <2>3. CASE b \in B \ {a} /\ c # e
    BY <1>7, <2>3 DEF List
  <2>4. CASE b \in B \ {a} /\ c = e
    <3>1. b < a
      BY <1>1, <1>2, <1>7, <2>4
    <3>2. m.rec[b].next # NULL /\ m.rec[b].next <= a /\ m.rec[b].next \in B
      BY <2>4, <3>1, Order DEF List
    <3> QED
      BY <1>1, <2>4, <3>2
  <2> QED
    BY <2>1, <2>2, <2>3, <2>4
<1>8. ASSUME NEW c \in C \ {0}
      PROVE  \E b \in C : s.rec[b].next = c
  <2>1. CASE c = e
    BY <2>1
  <2>2. CASE c \in B
    <3>1. PICK b \in B : m.rec[b].next = c
      BY <2>2 DEF List
    <3> QED
      BY <3>1
  <2> QED
    BY <2>1, <2>2
<1>9. ASSUME NEW b \in C, s.rec[b].next # NULL
      PROVE  Behind(s, b, s.rec[b].next)
  <2>1. CASE b = a
    BY <2>1 DEF Behind
  <2>2. CASE b = e
    <3>1. m.rec[a].next \in B \ {a}
      BY <1>9, <2>2, <1>1, Order DEF Meta
    <3> QED
      BY <2>2, <3>1 DEF Behind
  <2>3. CASE b \in B \ {a}
    <3>1. /\ m.rec[b].next \in B /\ m.rec[b].next # m.rec[a].next
          /\ s.rec[b].next = m.rec[b].next
      BY <1>9, <2>3, Order
    <3>2. s.rec[m.rec[b].next].prev = m.rec[m.rec[b].next].prev
      BY <1>1, <3>1
    <3>3. e \notin b + 1 .. m.rec[b].next - Meta
      <4>1. b < a => m.rec[b].next <= a
        BY <2>3 DEF List
      <4>2. a < b => End(m, a) <= b
        BY <2>3, Order
      <4> QED
        BY <1>1, <2>3, <3>1, <4>1, <4>2, Order DEF Meta
    <3> QED
      BY <1>9, <2>3, <3>1, <3>2, <3>3, StillBehind
  <2> QED
    BY <2>1, <2>2, <2>3
<1> QED
  BY <1>1, <1>4, <1>6, <1>7, <1>8, <1>9 DEF List

\* The block d after a is merged into it, or d's bytes are; the block after d
\* may keep its prev.
LEMMA ListMerge ==
  ASSUME NEW m, Memory(m), NEW B, List(m, B), NEW a \in B, NEW d \in B, m.rec[a].next = d,
         NEW s, Memory(s), s.top = m.top, DOMAIN s.rec = DOMAIN m.rec, Stale(m, s, B),
         s.rec[a].next = m.rec[d].next, s.rec[a].prev = m.rec[a].prev,
         a + Meta + s.rec[a].size <= End(m, d),
         m.rec[d].next # NULL => Behind(s, a, m.rec[d].next),
         \A b \in B \ {a, d} :
            /\ s.rec[b].next = m.rec[b].next /\ s.rec[b].size = m.rec[b].size
            /\ b # m.rec[d].next => s.rec[b].prev = m.rec[b].prev
  PROVE  List(s, B \ {d})
<1> PICK C : C = B \ {d}
  OBVIOUS
<1>1. B \subseteq Nat /\ m.top \in Nat /\ m.top # 0 /\ a + Meta <= d /\ a < d
  <2>1. B \subseteq Nat /\ m.top \in Nat /\ m.top # 0
    BY Order DEF List, Memory
  <2>2. m.rec[a].next # NULL
    BY <2>1 DEF NULL
  <2>3. End(m, a) = d /\ a + Meta <= End(m, a)
    BY <2>2, Order
  <2> QED
    BY <2>1, <2>3 DEF Meta
<1>2. a \in C /\ m.rec[d].next \in C \cup {NULL} /\ C \subseteq Nat
  <2>1. m.rec[d].next # d
    BY <1>1, Order
  <2> QED
    BY <1>1, <2>1, Order
<1>3. 0 \in C /\ s.rec[0].prev = NULL
  <2>1. 0 \in B /\ m.rec[0].prev = NULL /\ d # 0
    BY <1>1 DEF List, Meta
  <2>2. m.rec[d].next # 0
    BY <1>1, Order DEF Meta, NULL
  <2> QED
    BY <2>1, <2>2
<1>4. End(s, a) = End(m, d) /\ \A b \in C \ {a} : End(s, b) = End(m, b)
  BY <1>1 DEF End
<1>5. ASSUME NEW b \in C \ {a}
      PROVE  m.rec[b].next # d /\ s.rec[b].next = m.rec[b].next
  BY <1>5, Order
<1>6. ASSUME NEW b \in C
      PROVE  s.rec[b].next \in C \cup {NULL} /\ b + Meta + s.rec[b].size <= End(s, b)
  <2>1. CASE b = a
    BY <1>2, <1>4, <2>1
  <2>2. CASE b # a
    BY <1>4, <1>5, <2>2 DEF List
  <2> QED
    BY <2>1, <2>2
<1>7. ASSUME NEW b \in C, NEW c \in C, b < c
      PROVE  s.rec[b].next # NULL /\ s.rec[b].next <= c
  <2>1. CASE b = a
    <3>1. d < c
      BY <1>1, <1>2, <1>7, <2>1, Order
    <3> QED
      BY <2>1, <3>1 DEF List
  <2>2. CASE b # a
    BY <1>5, <1>7, <2>2 DEF List
  <2> QED
    BY <2>1, <2>2
<1>8. ASSUME NEW c \in C \ {0}
      PROVE  \E b \in C : s.rec[b].next = c
  <2>1. PICK b \in B : m.rec[b].next = c
    BY DEF List
  <2>2. CASE b = d
    BY <1>2, <2>1, <2>2
  <2>3. CASE b # d
    <3>1. b # a
      BY <2>1
    <3> QED
      BY <1>5, <2>1, <2>3, <3>1
  <2> QED
    BY <2>2, <2>3
<1>9. ASSUME NEW b \in C, s.rec[b].next # NULL
      PROVE  Behind(s, b, s.rec[b].next)
  <2>1. CASE b = a
    BY <1>9, <2>1
  <2>2. CASE b # a
    <3>1. m.rec[b].next \in B \ {d} /\ m.rec[b].next # m.rec[d].next /\ s.rec[b].next = m.rec[b].next
      BY <1>5, <1>9, <2>2, Order
    <3>2. m.rec[b].next # a => s.rec[m.rec[b].next].prev = m.rec[m.rec[b].next].prev
      BY <3>1
    <3> QED
      BY <1>9, <3>1, <3>2, StillBehind
  <2> QED
    BY <2>1, <2>2
<1> QED
  BY <1>1, <1>2, <1>3, <1>6, <1>7, <1>8, <1>9 DEF List

\* The loop ends: one of the blocks is the last.
LEMMA LastBlock ==
  ASSUME NEW m, Memory(m), NEW B, List(m, B), B # {}
  PROVE  \E a \in B : m.rec[a].next = NULL
<1> DEFINE above == {m.top - b : b \in B}
<1>1. m.top \in Nat /\ \A b \in B : b \in Nat /\ b < m.top
  <2>1. m.top \in Nat /\ \A b \in B : b \in Nat /\ b + Meta <= End(m, b) /\ End(m, b) <= m.top /\ End(m, b) \in Nat
    BY Order DEF Memory
  <2> QED
    BY <2>1 DEF Meta
<1>2. above \in SUBSET Nat /\ above # {}
  BY <1>1
<1>3. Min(above) \in above /\ \A y \in above : Min(above) <= y
  BY <1>2, Least
<1>4. PICK a \in B : \A b \in B : m.top - a <= m.top - b
  BY <1>3
<1>5. m.rec[a].next \in B => a < m.rec[a].next
  BY <1>1, Order DEF Meta, NULL
<1>6. m.rec[a].next \notin B
  BY <1>1, <1>4, <1>5
<1> QED
  BY <1>6, Order

\* Of the blocks in B, the last one alone has another next.
Relinked(m, s, B, last, next) ==
  \A b \in B : /\ b = last => s.rec[b].next = next
               /\ b # last => s.rec[b].next = m.rec[b].next
               /\ s.rec[b].size = m.rec[b].size /\ s.rec[b].prev = m.rec[b].prev

\* A block is added where the heap ended.
LEMMA ListExtend ==
  ASSUME NEW m, Memory(m), NEW B, List(m, B), NEW e \in Nat, e = m.top,
         NEW last \in Int, B = {} => last = NULL, B # {} => last \in B /\ m.rec[last].next = NULL,
         NEW s, Memory(s), B \cup {e} \subseteq DOMAIN s.rec, Stale(m, s, B \cup {e}),
         s.rec[e].next = NULL, s.rec[e].prev = last,
         e + Meta + s.rec[e].size <= s.top, Relinked(m, s, B, last, e)
  PROVE  List(s, B \cup {e})
<1> USE DEF Relinked
<1> PICK C : C = B \cup {e}
  OBVIOUS
<1>1. e \in Nat /\ B \subseteq Nat /\ \A b \in B : b + Meta <= e /\ b < e
  <2>1. e \in Nat /\ B \subseteq Nat /\ \A b \in B : b + Meta <= End(m, b) /\ End(m, b) \in Nat /\ End(m, b) <= e
    BY Order DEF Memory
  <2> QED
    BY <2>1 DEF Meta
<1>2. s.top # 0 /\ s.rec[e].size \in Nat /\ s.top \in Nat
  BY <1>1 DEF Memory, Rec, Meta
<1>3. ASSUME NEW b \in B
      PROVE  last \in B /\ (b = last <=> m.rec[b].next = NULL)
  <2>1. last \in B /\ m.rec[last].next = NULL
    OBVIOUS
  <2>2. m.rec[b].next = m.rec[last].next => b = last
    BY <2>1, Order
  <2> QED
    BY <2>1, <2>2
<1>4. 0 \in C /\ s.rec[0].prev = NULL
  <2>1. CASE B = {}
    BY <2>1 DEF List
  <2>2. CASE B # {}
    BY <2>2 DEF List
  <2> QED
    BY <2>1, <2>2
<1>5. /\ End(s, e) = s.top
      /\ \A b \in B : End(s, b) = End(m, b) /\ s.rec[b].next # NULL
  <2>1. e # NULL
    BY <1>1 DEF NULL
  <2>2. \A b \in B : s.rec[b].next = IF m.rec[b].next = NULL THEN e ELSE m.rec[b].next
    BY <1>3
  <2> QED
    BY <2>1, <2>2 DEF End
<1>6. ASSUME NEW b \in C
      PROVE  s.rec[b].next \in C \cup {NULL} /\ b + Meta + s.rec[b].size <= End(s, b)
  BY <1>5 DEF List
<1>7. ASSUME NEW b \in C, NEW c \in C, b < c
      PROVE  s.rec[b].next # NULL /\ s.rec[b].next <= c
  <2>1. b \in B
    BY <1>1, <1>7
  <2>2. CASE c = e
    <3>1. m.rec[b].next \in B \cup {NULL}
      BY <2>1, Order
    <3>2. m.rec[b].next # NULL => m.rec[b].next < e /\ m.rec[b].next \in Nat
      BY <1>1, <3>1
    <3>3. m.rec[b].next = NULL => s.rec[b].next = e
      BY <1>3, <2>1
    <3>4. m.rec[b].next # NULL => s.rec[b].next = m.rec[b].next
      BY <1>3, <2>1
    <3>5. s.rec[b].next <= e
      BY <1>1, <3>2, <3>3, <3>4
    <3> QED
      BY <1>5, <2>1, <2>2, <3>5
  <2>3. CASE c \in B
    <3>1. m.rec[b].next # NULL /\ m.rec[b].next <= c
      BY <1>7, <2>1, <2>3 DEF List
    <3>2. b # last
      BY <1>3, <2>1, <3>1
    <3> QED
      BY <1>5, <2>1, <3>1, <3>2
  <2> QED
    BY <2>2, <2>3
<1>8. ASSUME NEW c \in C \ {0}
      PROVE  \E b \in C : s.rec[b].next = c
  <2>1. CASE c = e
    <3>1. B # {}
      BY <2>1 DEF List
    <3> QED
      BY <1>3, <2>1, <3>1
  <2>2. CASE c \in B
    <3>1. PICK b \in B : m.rec[b].next = c
      BY <2>2 DEF List
    <3>2. b # last
      <4>1. c # NULL
        BY <1>1, <2>2 DEF NULL
      <4> QED
        BY <1>3, <3>1, <4>1
    <3> QED
      BY <3>1, <3>2
  <2> QED
    BY <2>1, <2>2
<1>9. ASSUME NEW b \in C, s.rec[b].next # NULL
      PROVE  Behind(s, b, s.rec[b].next)
  <2>1. b \in B
    BY <1>9
  <2>2. CASE b = last
    BY <2>1, <2>2 DEF Behind
  <2>3. CASE b # last
    <3>1. m.rec[b].next \in B /\ m.rec[b].next # NULL /\ s.rec[b].next = m.rec[b].next
      BY <1>3, <2>1, <2>3, Order
    <3>2. m.rec[b].next \in Nat /\ m.rec[b].next < e
      BY <1>1, <3>1
    <3>3. e \notin b + 1 .. m.rec[b].next - Meta
      BY <1>1, <3>2 DEF Meta
    <3> QED
      BY <2>1, <3>1, <3>3, StillBehind
  <2> QED
    BY <2>2, <2>3
<1> QED
  BY <1>1, <1>2, <1>4, <1>6, <1>7, <1>8, <1>9 DEF List

------------------------------------------------------------------------------
(* The parts of a call.                                                     *)

\* s is m with the record r at a, and the same cells.
Changed(m, s, a, r) ==
  /\ Memory(s) /\ s.top = m.top /\ s.cell = m.cell /\ DOMAIN s.rec = DOMAIN m.rec
  /\ s.rec[a] = r /\ \A b \in DOMAIN m.rec : b # a => s.rec[b] = m.rec[b]

LEMMA RecordParts ==
  ASSUME NEW r \in Rec
  PROVE  /\ r.prev \in Int /\ r.next \in Int /\ r.free \in BOOLEAN /\ r.size \in Nat
         /\ \A v \in Int : /\ [r EXCEPT !.next = v] = Record(r.prev, v, r.free, r.size)
                           /\ [r EXCEPT !.prev = v] = Record(v, r.next, r.free, r.size)
         /\ \A v \in Nat : [r EXCEPT !.size = v] = Record(r.prev, r.next, r.free, v)
         /\ \A v \in BOOLEAN : [r EXCEPT !.free = v] = Record(r.prev, r.next, v, r.size)
BY DEF Rec, Record

\* What the assignments to a record and its fields do.
LEMMA FieldsSet ==
  ASSUME NEW m, Memory(m), NEW a \in DOMAIN m.rec
  PROVE  /\ \A r : r \in Rec => Changed(m, SetRecord(m, a, r), a, r)
         /\ \A v : v \in Int => Changed(m, SetNext(m, a, v), a,
                              Record(m.rec[a].prev, v, m.rec[a].free, m.rec[a].size))
         /\ \A v : v \in Int => Changed(m, SetPrev(m, a, v), a,
                              Record(v, m.rec[a].next, m.rec[a].free, m.rec[a].size))
         /\ Changed(m, SetFree(m, a), a, Record(m.rec[a].prev, m.rec[a].next, TRUE, m.rec[a].size))
<1>1. m.rec[a] \in Rec /\ a # NULL
  BY DEF Memory, NULL
<1>2. "rec" \in DOMAIN m
  <2>1. m = [cell |-> m.cell, rec |-> m.rec, top |-> m.top]
    BY DEF Memory
  <2> QED
    BY <2>1
<1>3. ASSUME NEW r \in Rec PROVE Changed(m, [m EXCEPT !.rec = [m.rec EXCEPT ![a] = r]], a, r)
  BY <1>3, RecordSet DEF Changed
<1>4. ASSUME NEW r \in Rec PROVE Changed(m, SetRecord(m, a, r), a, r)
  <2>1. [m EXCEPT !.rec[a] = r] = [m EXCEPT !.rec = [m.rec EXCEPT ![a] = r]]
    BY <1>2
  <2> QED
    BY <1>3, <2>1 DEF SetRecord
<1>5. ASSUME NEW v \in Int
      PROVE  /\ Changed(m, SetNext(m, a, v), a, [m.rec[a] EXCEPT !.next = v])
             /\ Changed(m, SetPrev(m, a, v), a, [m.rec[a] EXCEPT !.prev = v])
  <2>1. [m.rec[a] EXCEPT !.next = v] \in Rec /\ [m.rec[a] EXCEPT !.prev = v] \in Rec
    BY <1>1 DEF Rec
  <2>2. /\ [m EXCEPT !.rec[a].next = v] = [m EXCEPT !.rec = [m.rec EXCEPT ![a] = [m.rec[a] EXCEPT !.next = v]]]
        /\ [m EXCEPT !.rec[a].prev = v] = [m EXCEPT !.rec = [m.rec EXCEPT ![a] = [m.rec[a] EXCEPT !.prev = v]]]
    BY <1>2
  <2>3. /\ SetNext(m, a, v) = [m EXCEPT !.rec[a].next = v]
        /\ SetPrev(m, a, v) = [m EXCEPT !.rec[a].prev = v]
    BY <1>1 DEF SetNext, SetPrev
  <2> QED
    BY <1>3, <2>1, <2>2, <2>3
<1>6. Changed(m, SetFree(m, a), a, [m.rec[a] EXCEPT !.free = TRUE])
  <2>1. [m.rec[a] EXCEPT !.free = TRUE] \in Rec
    BY <1>1 DEF Rec
  <2>2. [m EXCEPT !.rec[a].free = TRUE] = [m EXCEPT !.rec = [m.rec EXCEPT ![a] = [m.rec[a] EXCEPT !.free = TRUE]]]
    BY <1>2
  <2> QED
    BY <1>3, <2>1, <2>2 DEF SetFree
<1> QED
  BY <1>1, <1>4, <1>5, <1>6, RecordParts

------------------------------------------------------------------------------
(* mm_malloc.                                                               *)

\* s is m after the block a was taken for n cells: a is a free block of the
\* list, or a new one at the end, and another new block is the rest of it.
Took(m, B, s, C, a, n) ==
  /\ Memory(s) /\ List(s, C) /\ B \subseteq C /\ a \in C /\ m.top <= s.top
  /\ s.rec[a].size = n /\ ~s.rec[a].free
  /\ a \in B => m.rec[a].free
  /\ \A b \in B \ {a} : s.rec[b].free = m.rec[b].free /\ s.rec[b].size = m.rec[b].size
  /\ \A b \in C \ B : b # a => s.rec[b].free
  /\ \A x \in 0 .. m.top - 1 : (a \in B => x \notin a .. End(m, a) - 1) => s.cell[x] = m.cell[x]
  /\ \A x \in Span(a + Meta, n) : s.cell[x] = 0

\* A new block at the end of the heap.
LEMMA LastMetIs ==
  ASSUME NEW m, Memory(m), NEW B, List(m, B)
  PROVE  /\ B = {} => LastMet(m) = NULL
         /\ B # {} => LastMet(m) \in B /\ m.rec[LastMet(m)].next = NULL
         /\ LastMet(m) \in Int
<1>1. Blocks(m) = B /\ (m.top = 0 <=> B = {})
  BY ListIsBlocks DEF List
<1>2. CASE B = {}
  BY <1>1, <1>2 DEF LastMet, NULL
<1>3. CASE B # {}
  <2>1. LastMet(m) = CHOOSE a \in B : m.rec[a].next = NULL
    BY <1>1, <1>3 DEF LastMet
  <2>2. \E a \in B : m.rec[a].next = NULL
    BY <1>3, LastBlock
  <2>3. LastMet(m) \in B /\ m.rec[LastMet(m)].next = NULL
    BY <2>1, <2>2
  <2>4. LastMet(m) \in Int
    <3>1. PICK last : last = LastMet(m)
      OBVIOUS
    <3>2. last \in B
      BY <2>3, <3>1
    <3>3. last \in Int
      BY <3>2, Order
    <3> QED
      BY <3>1, <3>3
  <2> QED
    BY <1>3, <2>3, <2>4
<1> QED
  BY <1>2, <1>3

\* l is m with n more cells, and the block last linked to the first of them.
Linked(m, l, last, n) ==
  /\ Memory(l) /\ l.top = m.top + n /\ DOMAIN l.rec = DOMAIN m.rec
  /\ \A x \in 0 .. m.top - 1 : l.cell[x] = m.cell[x]
  /\ \A x \in m.top .. m.top + n - 1 : l.cell[x] = 0
  /\ \A b \in DOMAIN m.rec : /\ b = last => l.rec[b].next = m.top
                             /\ b # last => l.rec[b].next = m.rec[b].next
                             /\ l.rec[b].size = m.rec[b].size /\ l.rec[b].prev = m.rec[b].prev
                             /\ l.rec[b].free = m.rec[b].free

LEMMA ExtendLinks ==
  ASSUME NEW m, Memory(m), NEW B, List(m, B), NEW n \in Nat, NEW e \in Nat, e = m.top,
         NEW last \in Int, B = {} => last = NULL, B # {} => last \in B
  PROVE  Linked(m, SetNext(Sbrk(m, n), last, e), last, n)
<1> PICK g : g = Sbrk(m, n)
  OBVIOUS
<1> PICK l : l = SetNext(g, last, e)
  OBVIOUS
<1>1. e \in Nat /\ DOMAIN m.rec \subseteq Nat /\ B \subseteq DOMAIN m.rec
  BY DEF Memory, List
<1>2. /\ Memory(g) /\ g.top = m.top + n /\ g.rec = m.rec
      /\ \A x \in 0 .. m.top - 1 : g.cell[x] = m.cell[x]
      /\ \A x \in m.top .. m.top + n - 1 : g.cell[x] = 0
  <2>1. Grown(m, g, n)
    BY SbrkGrows
  <2> QED
    BY <2>1 DEF Grown
<1>3. CASE B = {}
  <2>1. last = NULL /\ last \notin DOMAIN m.rec
    BY <1>1, <1>3 DEF NULL
  <2>2. l = g
    BY <2>1 DEF SetNext
  <2>3. Linked(m, l, last, n)
    BY <1>2, <2>1, <2>2 DEF Linked
  <2> QED
    BY <2>3
<1>4. CASE B # {}
  <2>1. last \in DOMAIN g.rec
    BY <1>1, <1>2, <1>4
  <2>2. Changed(g, l, last, Record(g.rec[last].prev, e, g.rec[last].free, g.rec[last].size))
    <3>1. e \in Int
      OBVIOUS
    <3> QED
      BY <1>2, <2>1, <3>1, FieldsSet
  <2>3. Linked(m, l, last, n)
    BY <1>2, <2>1, <2>2 DEF Changed, Record, Linked
  <2> QED
    BY <2>3
<1> QED
  BY <1>3, <1>4

LEMMA ExtendSteps ==
  ASSUME NEW m, Memory(m), NEW B, List(m, B), NEW n \in Nat, NEW e \in Nat, e = m.top,
         NEW k \in Nat, k = Meta + n,
         NEW last \in Int, B = {} => last = NULL, B # {} => last \in B /\ m.rec[last].next = NULL,
         NEW l, Linked(m, l, last, k), NEW s,
         NEW r \in Rec, r.prev = last, r.next = NULL, ~r.free, r.size = n, Put(l, s, e, r)
  PROVE  Took(m, B, s, B \cup {e}, e, n)
<1>1. /\ Memory(s) /\ s.top = l.top
      /\ \A x \in 0 .. l.top - 1 : x \notin Span(e, Meta) => s.cell[x] = l.cell[x]
      /\ DOMAIN s.rec = (DOMAIN l.rec \ {e - 1}) \cup {e} /\ s.rec[e] = r
      /\ \A b \in DOMAIN s.rec : b # e => s.rec[b] = l.rec[b]
  BY DEF Put
<1>2. /\ e \in Nat /\ B \subseteq Nat /\ B \subseteq DOMAIN m.rec /\ B \subseteq 0 .. e - 2
      /\ DOMAIN m.rec \subseteq 0 .. e - 2
  BY Order DEF Memory, List
<1>3. DOMAIN s.rec = DOMAIN m.rec \cup {e} /\ e \notin DOMAIN m.rec
  BY <1>1, <1>2 DEF Linked
<1>4. \A b \in DOMAIN m.rec : s.rec[b] = l.rec[b]
  BY <1>1, <1>3
<1>5. List(s, B \cup {e})
  <2>1. Stale(m, s, B \cup {e})
    BY <1>1, <1>3, <1>4 DEF Stale, Linked
  <2>2. e + Meta + s.rec[e].size <= s.top
    BY <1>1, <1>2 DEF Meta, Linked
  <2>3. Relinked(m, s, B, last, e)
    BY <1>1, <1>2, <1>4 DEF Linked, Relinked
  <2>4. B \cup {e} \subseteq DOMAIN s.rec
    BY <1>1, <1>2, <1>3
  <2>5. Memory(s) /\ s.rec[e].next = NULL /\ s.rec[e].prev = last
    BY <1>1
  <2> QED
    BY <2>1, <2>2, <2>3, <2>4, <2>5, ListExtend, SMTT(60)
<1>6. /\ \A x \in 0 .. m.top - 1 : s.cell[x] = m.cell[x]
      /\ \A x \in Span(e + Meta, n) : s.cell[x] = 0
  BY <1>1, <1>2 DEF Span, Meta, Linked
<1>7. e \notin B /\ e <= s.top
  BY <1>1, <1>2 DEF Meta, Linked
<1>8. \A b \in B : s.rec[b].free = m.rec[b].free /\ s.rec[b].size = m.rec[b].size
  BY <1>1, <1>2, <1>4 DEF Linked
<1>9. Memory(s) /\ m.top <= s.top /\ s.rec[e].size = n /\ ~s.rec[e].free
  BY <1>1, <1>7
<1> QED
  BY <1>5, <1>6, <1>7, <1>8, <1>9, ZenonT(60) DEF Took

LEMMA ExtendTakes ==
  ASSUME NEW m, Memory(m), NEW B, List(m, B), NEW n \in Nat, Extend(m, n).ptr # NULL
  PROVE  LET got == Extend(m, n)
         IN  /\ got.ptr = m.top + Meta
             /\ Took(m, B, got.mem, B \cup {m.top}, m.top, n)
<1> PICK e \in Nat : e = m.top
  BY DEF Memory
<1> PICK last \in Int : last = LastMet(m)
  BY LastMetIs
<1> PICK k \in Nat : k = Meta + n
  BY DEF Meta
<1>1. Record(last, NULL, FALSE, n) \in Rec
  BY DEF Record, Rec, NULL
<1> PICK r \in Rec : r = Record(last, NULL, FALSE, n)
  BY <1>1
<1> PICK l : l = SetNext(Sbrk(m, k), last, e)
  OBVIOUS
<1> PICK s : s = PutRecord(l, e, r)
  OBVIOUS
<1>2. Extend(m, n) = Result(s, e + Meta)
  <2>1. ~(e + Meta + n > HeapMax)
    <3>1. Result(m, NULL).ptr = NULL
      BY DEF Result
    <3> QED
      BY <3>1 DEF Extend
  <2> QED
    BY <2>1 DEF Extend
<1>3. /\ B = {} => last = NULL
      /\ B # {} => last \in B /\ m.rec[last].next = NULL
  BY LastMetIs
<1>4. Linked(m, l, last, k)
  BY <1>3, ExtendLinks
<1>5. r.prev = last /\ r.next = NULL /\ ~r.free /\ r.size = n
  BY DEF Record, NULL
<1>6. Memory(l) /\ e <= l.top - 2
  BY <1>4 DEF Linked, Meta
<1>7. Put(l, s, e, r)
  BY <1>5, <1>6, PutRecordWrites
<1>8. Took(m, B, s, B \cup {e}, e, n)
  BY <1>3, <1>4, <1>5, <1>7, ExtendSteps
<1> PICK got : got = Extend(m, n)
  OBVIOUS
<1>9. got.ptr = e + Meta /\ got.mem = s
  BY <1>2 DEF Result
<1>10. got.ptr = m.top + Meta /\ Took(m, B, got.mem, B \cup {m.top}, m.top, n)
  BY <1>8, <1>9
<1> QED
  BY <1>10
\* A block of the list keeps its record when only cells of another are written.
LEMMA Untouched ==
  ASSUME NEW m, Memory(m), NEW B, List(m, B), NEW a \in B, NEW s, Memory(s), m.top <= s.top,
         \A x \in 0 .. m.top - 1 : x < a + Meta \/ x >= End(m, a) => s.cell[x] = m.cell[x]
  PROVE  B \subseteq DOMAIN s.rec
<1>1. B \subseteq DOMAIN m.rec /\ B \subseteq Nat /\ m.top \in Nat /\ s.top \in Nat
  BY Order DEF List, Memory
<1>2. ASSUME NEW b \in B
      PROVE  b \in DOMAIN s.rec
  <2>1. b \in Nat /\ a \in Nat /\ b + Meta <= m.top /\ End(m, a) \in Nat
    <3>1. b + Meta <= End(m, b) /\ End(m, b) <= m.top /\ End(m, b) \in Nat
      BY Order
    <3> QED
      BY <1>1, <3>1, Order DEF Meta
  <2>2. b + 1 < a + Meta \/ b + 1 >= End(m, a)
    <3>1. b < a => b + 1 < a + Meta
      BY <2>1 DEF Meta
    <3>2. a < b => End(m, a) <= b
      BY Order
    <3> QED
      BY <2>1, <3>1, <3>2 DEF Meta
  <2>3. b + 1 \in 0 .. m.top - 1 /\ b \in 0 .. s.top - 2
    BY <1>1, <2>1 DEF Meta
  <2>4. m.cell[b + 1] = Info
    BY <1>1 DEF Memory
  <2>5. s.cell[b + 1] = Info
    BY <2>2, <2>3, <2>4
  <2> QED
    BY <2>3, <2>5 DEF Memory
<1> QED
  BY <1>2

\* A free block is taken as it is, with the heap grown behind it or not.
LEMMA TakenWhole ==
  ASSUME NEW m, Memory(m), NEW B, List(m, B), NEW a \in B, m.rec[a].free, NEW n \in Nat,
         NEW s, Memory(s), m.top <= s.top, DOMAIN s.rec \subseteq DOMAIN m.rec,
         s.rec[a].next = m.rec[a].next, s.rec[a].prev = m.rec[a].prev,
         ~s.rec[a].free, s.rec[a].size = n, a + Meta + n <= End(s, a),
         \A b \in DOMAIN s.rec : b # a => s.rec[b] = m.rec[b],
         \A x \in 0 .. m.top - 1 : x < a + Meta \/ x >= End(m, a) => s.cell[x] = m.cell[x],
         \A x \in a + Meta .. a + Meta + n - 1 : s.cell[x] = 0
  PROVE  Took(m, B, s, B, a, n)
<1>1. B \subseteq DOMAIN s.rec
  BY Untouched
<1>2. B \subseteq Nat /\ m.top \in Nat /\ s.top \in Nat /\ a \in Nat
  BY Order DEF Memory
<1>3. ASSUME NEW b \in B \ {a}
      PROVE  b + Meta + s.rec[b].size <= End(s, b)
  <2>1. b + Meta + m.rec[b].size <= End(m, b) /\ m.rec[b].size \in Nat /\ b \in Nat
    BY Order DEF List
  <2>2. End(m, b) \in Nat /\ (End(s, b) = End(m, b) \/ (End(m, b) = m.top /\ End(s, b) = s.top))
    BY <1>1, <1>3, Order DEF End
  <2>3. s.rec[b].size = m.rec[b].size
    BY <1>1, <1>3
  <2> QED
    BY <1>2, <2>1, <2>2, <2>3 DEF Meta
<1>4. List(s, B)
  <2>1. Stale(m, s, B)
    BY DEF Stale
  <2>2. \A b \in B : /\ s.rec[b].next = m.rec[b].next /\ s.rec[b].prev = m.rec[b].prev
                     /\ b + Meta + s.rec[b].size <= End(s, b)
    BY <1>1, <1>3
  <2>3. B # {} /\ s.top >= m.top
    BY <1>2
  <2> QED
    BY <1>1, <2>1, <2>2, <2>3, ListSame
<1>5. \A x \in 0 .. m.top - 1 : x \notin a .. End(m, a) - 1 => s.cell[x] = m.cell[x]
  <2>1. End(m, a) \in Nat
    BY Order
  <2> QED
    BY <1>2, <2>1 DEF Meta
<1> QED
  BY <1>1, <1>4, <1>5 DEF Took, Span

\* A free block is split: what follows the request is a block of its own.
LEMMA TakenSplit ==
  ASSUME NEW m, Memory(m), NEW B, List(m, B), NEW a \in B, m.rec[a].free, NEW n \in Nat,
         NEW e \in Nat, e = a + Meta + n, e + Meta <= End(m, a),
         NEW s, Memory(s), s.top = m.top, DOMAIN s.rec \subseteq DOMAIN m.rec \cup {e},
         e \in DOMAIN s.rec, s.rec[e].next = m.rec[a].next, s.rec[e].prev = a, s.rec[e].free,
         e + Meta + s.rec[e].size <= End(m, a),
         s.rec[a].next = e, s.rec[a].prev = m.rec[a].prev, ~s.rec[a].free, s.rec[a].size = n,
         \A b \in DOMAIN s.rec \ {a, e} :
            /\ s.rec[b].next = m.rec[b].next /\ s.rec[b].size = m.rec[b].size
            /\ s.rec[b].free = m.rec[b].free
            /\ b = m.rec[a].next => s.rec[b].prev = e
            /\ b # m.rec[a].next => s.rec[b].prev = m.rec[b].prev,
         \A x \in 0 .. m.top - 1 : x < a + Meta \/ x >= End(m, a) => s.cell[x] = m.cell[x],
         \A x \in a + Meta .. a + Meta + n - 1 : s.cell[x] = 0
  PROVE  Took(m, B, s, B \cup {e}, a, n)
<1>1. B \subseteq DOMAIN s.rec
  <2>1. m.top <= s.top
    BY DEF Memory
  <2> QED
    BY <2>1, Untouched
<1>2. B \subseteq Nat /\ m.top \in Nat /\ a \in Nat /\ End(m, a) \in Nat
  BY Order DEF Memory
<1>3. e \notin B /\ e < End(m, a) /\ e # a
  <2>1. a < e => (e \in B => End(m, a) <= e)
    BY Order
  <2> QED
    BY <1>2, <2>1 DEF Meta
<1>4. List(s, B \cup {e})
  <2>1. Stale(m, s, B \cup {e})
    BY DEF Stale
  <2>2. \A b \in B \ {a} : /\ s.rec[b].next = m.rec[b].next /\ s.rec[b].size = m.rec[b].size
                           /\ b = m.rec[a].next => s.rec[b].prev = e
                           /\ b # m.rec[a].next => s.rec[b].prev = m.rec[b].prev
    BY <1>1, <1>3
  <2>3. a + Meta + s.rec[a].size <= e
    BY <1>2 DEF Meta
  <2> QED
    BY <1>1, <1>3, <2>1, <2>2, <2>3, ListSplit
<1>5. \A x \in 0 .. m.top - 1 : x \notin a .. End(m, a) - 1 => s.cell[x] = m.cell[x]
  BY <1>2 DEF Meta
<1>6. \A b \in B \ {a} : s.rec[b].free = m.rec[b].free /\ s.rec[b].size = m.rec[b].size
  BY <1>1, <1>3
<1> QED
  BY <1>1, <1>2, <1>3, <1>4, <1>5, <1>6 DEF Took, Span

\* s is m with the record at a taken for n cells, which are zero.
Marked(m, s, a, next, n) ==
  /\ Memory(s) /\ s.top = m.top
  /\ \A x \in 0 .. m.top - 1 : x < a + Meta \/ x >= a + Meta + n => s.cell[x] = m.cell[x]
  /\ \A x \in 0 .. m.top - 1 : x >= a + Meta /\ x < a + Meta + n => s.cell[x] = 0
  /\ DOMAIN s.rec \subseteq DOMAIN m.rec /\ a \in DOMAIN s.rec
  /\ \A b \in DOMAIN m.rec : b + 1 < a + Meta \/ b + 1 >= a + Meta + n => b \in DOMAIN s.rec
  /\ s.rec[a].prev = m.rec[a].prev /\ s.rec[a].next = next /\ ~s.rec[a].free /\ s.rec[a].size = n
  /\ \A b \in DOMAIN s.rec : b # a => s.rec[b] = m.rec[b]

LEMMA TakenWrites ==
  ASSUME NEW m, Memory(m), NEW a \in Nat, a \in DOMAIN m.rec, NEW next \in Int, NEW n \in Nat,
         a + Meta + n <= m.top
  PROVE  Marked(m, Taken(m, a, next, n), a, next, n)
<1>1. Record(m.rec[a].prev, next, FALSE, n) \in Rec
  BY DEF Record, Rec, Memory
<1>2. PICK q \in Rec : q = Record(m.rec[a].prev, next, FALSE, n)
  BY <1>1
<1>3. PICK t : t = SetRecord(m, a, q)
  OBVIOUS
<1>4. PICK s : s = Clear(t, a, n)
  OBVIOUS
<1>5. q.prev = m.rec[a].prev /\ q.next = next /\ ~q.free /\ q.size = n
  BY <1>2 DEF Record
<1>6. Changed(m, t, a, q)
  BY <1>3, FieldsSet
<1>7. Cleared(t, s, a, n)
  <2>1. Memory(t) /\ a + Meta + n <= t.top
    BY <1>6 DEF Changed
  <2> QED
    BY <1>4, <2>1, ClearWrites
<1>8. a \in DOMAIN s.rec /\ s.rec[a] = q
  BY <1>6, <1>7 DEF Changed, Cleared, Meta
<1>9. Marked(m, s, a, next, n)
  BY <1>5, <1>6, <1>7, <1>8 DEF Changed, Cleared, Marked
<1> QED
  BY <1>9, <1>2, <1>3, <1>4 DEF Taken

\* A free block is taken with the cells it has, or with more behind it.
LEMMA TakeWhole ==
  ASSUME NEW m, Memory(m), NEW B, List(m, B), NEW a \in B, m.rec[a].free, NEW n \in Nat,
         NEW g, Memory(g), m.top <= g.top, g.rec = m.rec,
         \A x \in 0 .. m.top - 1 : g.cell[x] = m.cell[x],
         m.rec[a].next = NULL => a + Meta + n <= g.top,
         m.rec[a].next # NULL => a + Meta + n <= m.rec[a].next /\ g.top = m.top,
         NEW s, Marked(g, s, a, m.rec[a].next, n)
  PROVE  Took(m, B, s, B, a, n)
<1>1. a \in Nat /\ m.top \in Nat /\ g.top \in Nat /\ End(m, a) \in Nat /\ End(m, a) <= m.top
  BY Order, ZenonT(60) DEF List, Memory
<1>2. Memory(s) /\ m.top <= s.top /\ DOMAIN s.rec \subseteq DOMAIN m.rec
  BY DEF Marked
<1>3. /\ s.rec[a].prev = m.rec[a].prev /\ s.rec[a].next = m.rec[a].next
      /\ ~s.rec[a].free /\ s.rec[a].size = n
      /\ \A b \in DOMAIN s.rec : b # a => s.rec[b] = m.rec[b]
  BY DEF Marked
<1>4. a + Meta + n <= End(s, a)
  BY <1>3 DEF End, Marked
<1>5. \A x \in 0 .. m.top - 1 : x < a + Meta \/ x >= End(m, a) => s.cell[x] = m.cell[x]
  <2>1. m.rec[a].next = NULL => End(m, a) = m.top
    BY DEF End
  <2>2. m.rec[a].next # NULL => End(m, a) = m.rec[a].next
    BY DEF End
  <2>3. \A x \in 0 .. m.top - 1 : x >= End(m, a) => x >= a + Meta + n
    BY <1>1, <2>1, <2>2 DEF Meta
  <2>4. \A x \in 0 .. m.top - 1 : x \in 0 .. g.top - 1
    BY <1>1
  <2> QED
    BY <2>3, <2>4 DEF Marked
<1>6. \A x \in a + Meta .. a + Meta + n - 1 : s.cell[x] = 0
  <2>1. a + Meta + n <= g.top
    <3>1. m.rec[a].next # NULL => End(m, a) = m.rec[a].next
      BY DEF End
    <3> QED
      BY <1>1, <3>1 DEF Meta
  <2> QED
    BY <1>1, <2>1 DEF Marked, Meta
<1> QED
  BY <1>2, <1>3, <1>4, <1>5, <1>6, TakenWhole

\* The last block is split: the record of the rest, then the block's own.
LEMMA SplitLast ==
  ASSUME NEW m, Memory(m), NEW B, List(m, B), NEW a \in B, m.rec[a].free,
         m.rec[a].next = NULL, NEW n \in Nat, n # 0,
         NEW e \in Nat, e = a + Meta + n,
         NEW r \in Rec, r.prev = a, r.next = NULL, r.free, e + Meta + r.size <= m.top,
         NEW g, Put(m, g, e, r), NEW s, Marked(g, s, a, e, n)
  PROVE  Took(m, B, s, B \cup {e}, a, n)
<1>1. a \in Nat /\ a \in DOMAIN m.rec /\ m.top \in Nat
  <2>1. a \in Nat
    BY Order
  <2> QED
    BY <2>1 DEF List, Memory
<1>2. End(m, a) = m.top /\ r.size \in Nat /\ e + Meta <= m.top
  <2>1. End(m, a) = m.top
    BY DEF End
  <2>2. r.size \in Nat
    BY DEF Rec
  <2> QED
    BY <1>1, <2>1, <2>2 DEF Meta
<1>3. /\ Memory(g) /\ g.top = m.top
      /\ \A x \in 0 .. m.top - 1 : x \notin Span(e, Meta) => g.cell[x] = m.cell[x]
      /\ DOMAIN g.rec = (DOMAIN m.rec \ {e - 1}) \cup {e} /\ g.rec[e] = r
      /\ \A b \in DOMAIN g.rec : b # e => g.rec[b] = m.rec[b]
  BY DEF Put
<1>4. a # e /\ a \in DOMAIN g.rec
  BY <1>1, <1>3 DEF Meta
<1>5. /\ DOMAIN s.rec \subseteq DOMAIN m.rec \cup {e} /\ e \in DOMAIN s.rec
       /\ Memory(s) /\ s.top = m.top
  BY <1>1, <1>3 DEF Marked, Meta
<1>6. /\ s.rec[a].prev = m.rec[a].prev /\ s.rec[a].next = e /\ ~s.rec[a].free /\ s.rec[a].size = n
       /\ s.rec[e] = r
       /\ \A b \in DOMAIN s.rec \ {a, e} : s.rec[b] = m.rec[b]
  BY <1>3, <1>4, <1>5 DEF Marked
<1>7. \A b \in DOMAIN s.rec : b # NULL
  BY <1>5 DEF Memory, NULL
<1>8. \A x \in 0 .. m.top - 1 : x < a + Meta \/ x >= End(m, a) => s.cell[x] = m.cell[x]
  <2>1. \A x \in 0 .. m.top - 1 : x < a + Meta => g.cell[x] = m.cell[x]
    BY <1>1, <1>3 DEF Span, Meta
  <2> QED
    BY <1>1, <1>2, <1>3, <2>1 DEF Marked
<1>9. \A x \in a + Meta .. a + Meta + n - 1 : s.cell[x] = 0
  BY <1>1, <1>2, <1>3 DEF Marked, Meta
<1> QED
  BY <1>2, <1>5, <1>6, <1>7, <1>8, <1>9, TakenSplit

\* The last block is free: it grows, is split, or keeps what is left unused.
LEMMA TakeLastTakes ==
  ASSUME NEW m, Memory(m), NEW B, List(m, B), NEW a \in B, m.rec[a].free,
         m.rec[a].next = NULL, NEW n \in Nat, n # 0, TakeLast(m, a, n).ptr # NULL
  PROVE  LET got == TakeLast(m, a, n)
         IN  /\ got.ptr = a + Meta
             /\ \E C : Took(m, B, got.mem, C, a, n)
<1> PICK z \in Nat : z = m.rec[a].size
  BY Order
<1> PICK e \in Nat : e = a + Meta + n
  BY Order DEF Meta
<1> PICK got : got = TakeLast(m, a, n)
  OBVIOUS
<1>1. a \in Nat /\ a \in DOMAIN m.rec /\ m.top \in Nat /\ a + Meta + z <= m.top
  <2>1. End(m, a) = m.top /\ a + Meta + z <= End(m, a) /\ a \in DOMAIN m.rec
    BY DEF End, List
  <2>2. a \in Nat
    BY Order
  <2> QED
    BY <2>1, <2>2 DEF Memory
<1>2. ~(z < n /\ m.top + (n - z) > HeapMax)
  <2>1. Result(m, NULL).ptr = NULL
    BY DEF Result
  <2> QED
    BY <2>1 DEF TakeLast
<1>3. CASE z < n
  <2> PICK k \in Nat : k = n - z
    BY <1>3
  <2> PICK g : g = Sbrk(m, k)
    OBVIOUS
  <2> PICK s : s = Taken(g, a, NULL, n)
    OBVIOUS
  <2>1. got = Result(s, a + Meta)
    BY <1>2, <1>3 DEF TakeLast
  <2>2. Grown(m, g, k)
    BY SbrkGrows
  <2>3. /\ Memory(g) /\ m.top <= g.top /\ g.rec = m.rec /\ a + Meta + n <= g.top
        /\ \A x \in 0 .. m.top - 1 : g.cell[x] = m.cell[x]
    BY <1>1, <2>2 DEF Grown, Meta
  <2>4. Marked(g, s, a, m.rec[a].next, n)
    <3>1. NULL \in Int /\ a \in DOMAIN g.rec /\ a \in Nat
      BY <1>1, <2>3 DEF NULL
    <3> QED
      BY <2>3, <3>1, TakenWrites
  <2>5. Took(m, B, s, B, a, n)
    BY <2>3, <2>4, TakeWhole
  <2>6. got.ptr = a + Meta /\ got.mem = s
    BY <2>1 DEF Result
  <2> QED
    BY <2>5, <2>6
<1>4. CASE z >= n + Meta
  <2>1. Record(a, NULL, TRUE, m.rec[a].size - n - Meta) \in Rec
    <3>1. PICK w \in Nat : w = m.rec[a].size - n - Meta
      BY <1>4 DEF Meta
    <3>2. Record(a, NULL, TRUE, w) \in Rec
      BY <1>1 DEF Record, Rec, NULL
    <3> QED
      BY <3>1, <3>2
  <2>2. PICK r \in Rec : r = Record(a, NULL, TRUE, m.rec[a].size - n - Meta)
    BY <2>1
  <2>3. PICK g : g = PutRecord(m, e, r)
    OBVIOUS
  <2>4. PICK s : s = Taken(g, a, e, n)
    OBVIOUS
  <2>5. r.prev = a /\ r.next = NULL /\ r.free /\ r.size = z - n - Meta
    BY <2>2 DEF Record
  <2>6. got = Result(s, a + Meta)
    <3>1. g = PutRecord(m, a + Meta + n, Record(a, NULL, TRUE, m.rec[a].size - n - Meta))
      BY <2>2, <2>3
    <3>2. s = Taken(g, a, a + Meta + n, n)
      BY <2>4
    <3>3. ~(m.rec[a].size < n) /\ m.rec[a].size >= n + Meta
      BY <1>4 DEF Meta
    <3> QED
      BY <3>1, <3>2, <3>3 DEF TakeLast
  <2>7. Put(m, g, e, r)
    <3>1. e <= m.top - 2
      BY <1>1, <1>4 DEF Meta
    <3> QED
      BY <2>3, <3>1, PutRecordWrites
  <2>8. Marked(g, s, a, e, n)
    <3>1. Memory(g) /\ a \in DOMAIN g.rec /\ a + Meta + n <= g.top
      BY <1>1, <1>4, <2>7 DEF Put, Meta
    <3>2. a \in Nat /\ e \in Int
      BY <1>1
    <3> QED
      BY <2>4, <3>1, <3>2, TakenWrites
  <2>9. e + Meta + r.size <= m.top
    BY <1>1, <2>5 DEF Meta
  <2>10. Took(m, B, s, B \cup {e}, a, n)
    BY <2>5, <2>7, <2>8, <2>9, SplitLast
  <2>11. got.ptr = a + Meta /\ got.mem = s
    BY <2>6 DEF Result
  <2> QED
    BY <2>10, <2>11
<1>5. CASE z >= n /\ ~(z >= n + Meta)
  <2>1. PICK s : s = Taken(m, a, NULL, n)
    OBVIOUS
  <2>2. got = Result(s, a + Meta)
    BY <1>2, <1>5, <2>1 DEF TakeLast
  <2>3. a + Meta + n <= m.top /\ m.top <= m.top
    BY <1>1, <1>5 DEF Meta
  <2>4. Marked(m, s, a, m.rec[a].next, n)
    <3>1. NULL \in Int /\ a \in Nat
      BY <1>1 DEF NULL
    <3> QED
      BY <1>1, <2>1, <2>3, <3>1, TakenWrites
  <2>5. Took(m, B, s, B, a, n)
    BY <2>3, <2>4, TakeWhole
  <2>6. got.ptr = a + Meta /\ got.mem = s
    BY <2>2 DEF Result
  <2> QED
    BY <2>5, <2>6
<1> QED
  BY <1>3, <1>4, <1>5 DEF Meta

\* A block with others behind it is split, and the next one told.
LEMMA SplitMiddle ==
  ASSUME NEW m, Memory(m), NEW B, List(m, B), NEW a \in B, m.rec[a].free, NEW n \in Nat, n # 0,
         NEW c \in Nat, m.rec[a].next = c, NEW e \in Nat, e = a + Meta + n, e + Meta <= c,
         NEW t, Marked(m, t, a, c, n),
         NEW l, NEW q, Changed(t, l, a, q),
         q.prev = t.rec[a].prev, q.next = e, ~q.free, q.size = n,
         NEW g, NEW r \in Rec, Put(l, g, e, r),
         r.prev = a, r.next = c, r.free, e + Meta + r.size <= c,
         NEW s, NEW w, Changed(g, s, c, w),
         w.prev = e, w.next = g.rec[c].next, w.free = g.rec[c].free, w.size = g.rec[c].size
  PROVE  Took(m, B, s, B \cup {e}, a, n)
<1>1. a \in Nat /\ a \in DOMAIN m.rec /\ m.top \in Nat /\ c \in B /\ c \in DOMAIN m.rec
  <2>1. a \in Nat /\ c \in B
    BY Order DEF NULL
  <2> QED
    BY <2>1 DEF List, Memory
<1>2. End(m, a) = c /\ c + Meta <= m.top
  <2>1. End(m, a) = c
    BY DEF End, NULL
  <2>2. c + Meta <= End(m, c) /\ End(m, c) <= m.top /\ End(m, c) \in Nat
    BY <1>1, Order
  <2> QED
    BY <1>1, <2>1, <2>2 DEF Meta
<1>3. /\ t.top = m.top /\ DOMAIN t.rec \subseteq DOMAIN m.rec /\ c \in DOMAIN t.rec
      /\ a \in DOMAIN t.rec /\ t.rec[a].prev = m.rec[a].prev
      /\ \A b \in DOMAIN t.rec : b # a => t.rec[b] = m.rec[b]
  BY <1>1, <1>2 DEF Marked, Meta
<1>4. l.top = m.top /\ l.cell = t.cell /\ DOMAIN l.rec = DOMAIN t.rec /\ l.rec[a] = q
      /\ \A b \in DOMAIN t.rec : b # a => l.rec[b] = m.rec[b]
  BY <1>3 DEF Changed
<1>5. /\ g.top = m.top /\ DOMAIN g.rec = (DOMAIN t.rec \ {e - 1}) \cup {e} /\ g.rec[e] = r
      /\ \A x \in 0 .. m.top - 1 : x \notin Span(e, Meta) => g.cell[x] = t.cell[x]
      /\ \A b \in DOMAIN g.rec : b # e => g.rec[b] = l.rec[b]
  BY <1>4 DEF Put
<1>6. a # e /\ a # e - 1 /\ c # a /\ c # e /\ c # e - 1 /\ c # NULL
  BY <1>1 DEF Meta, NULL
<1>7. Memory(s) /\ s.top = m.top /\ s.cell = g.cell /\ DOMAIN s.rec = DOMAIN g.rec /\ s.rec[c] = w
      /\ \A b \in DOMAIN s.rec : b # c => s.rec[b] = g.rec[b]
  BY <1>5 DEF Changed
<1>8. DOMAIN s.rec \subseteq DOMAIN m.rec \cup {e} /\ {a, c, e} \subseteq DOMAIN s.rec
  BY <1>3, <1>5, <1>6, <1>7
<1>9. s.rec[a] = q /\ s.rec[e] = r
  BY <1>3, <1>4, <1>5, <1>6, <1>7, <1>8
<1>10. ASSUME NEW b \in DOMAIN s.rec \ {a, e}
       PROVE  /\ s.rec[b].next = m.rec[b].next /\ s.rec[b].size = m.rec[b].size
              /\ s.rec[b].free = m.rec[b].free
              /\ b = c => s.rec[b].prev = e
              /\ b # c => s.rec[b].prev = m.rec[b].prev
  <2>1. b \in DOMAIN t.rec /\ g.rec[b] = m.rec[b]
    BY <1>4, <1>5, <1>7, <1>10
  <2>2. CASE b = c
    BY <1>7, <2>1, <2>2
  <2>3. CASE b # c
    BY <1>7, <2>1, <2>3
  <2> QED
    BY <2>2, <2>3
<1>11. \A x \in 0 .. m.top - 1 : x < a + Meta \/ x >= c => s.cell[x] = m.cell[x]
  <2>1. \A x \in 0 .. m.top - 1 : x < a + Meta \/ x >= c => x \notin Span(e, Meta)
    BY <1>1 DEF Span, Meta
  <2>2. \A x \in 0 .. m.top - 1 : x < a + Meta \/ x >= c => t.cell[x] = m.cell[x]
    BY <1>1 DEF Marked, Meta
  <2> QED
    BY <1>5, <1>7, <2>1, <2>2
<1>12. \A x \in a + Meta .. a + Meta + n - 1 : s.cell[x] = 0
  <2>1. \A x \in a + Meta .. a + Meta + n - 1 : x \in 0 .. m.top - 1 /\ x \notin Span(e, Meta)
    BY <1>1, <1>2 DEF Span, Meta
  <2>2. \A x \in a + Meta .. a + Meta + n - 1 : t.cell[x] = 0
    BY <1>1, <2>1 DEF Marked, Meta
  <2> QED
    BY <1>5, <1>7, <2>1, <2>2
<1>13. s.rec[a].prev = m.rec[a].prev /\ s.rec[a].next = e /\ ~s.rec[a].free /\ s.rec[a].size = n
  BY <1>3, <1>9
<1>14. e + Meta <= End(m, a) /\ e + Meta + s.rec[e].size <= End(m, a)
  BY <1>2, <1>9
<1>15. /\ e \in DOMAIN s.rec /\ s.rec[e].next = m.rec[a].next /\ s.rec[e].prev = a /\ s.rec[e].free
       /\ DOMAIN s.rec \subseteq DOMAIN m.rec \cup {e} /\ Memory(s) /\ s.top = m.top
  BY <1>7, <1>8, <1>9
<1>16. \A b \in DOMAIN s.rec \ {a, e} :
         /\ s.rec[b].next = m.rec[b].next /\ s.rec[b].size = m.rec[b].size
         /\ s.rec[b].free = m.rec[b].free
         /\ b = m.rec[a].next => s.rec[b].prev = e
         /\ b # m.rec[a].next => s.rec[b].prev = m.rec[b].prev
  BY <1>10
<1>17. \A x \in 0 .. m.top - 1 : x < a + Meta \/ x >= End(m, a) => s.cell[x] = m.cell[x]
  BY <1>2, <1>11
<1> QED
  BY <1>12, <1>13, <1>14, <1>15, <1>16, <1>17, TakenSplit

LEMMA TakeMiddleTakes ==
  ASSUME NEW m, Memory(m), NEW B, List(m, B), NEW a \in B, m.rec[a].free,
         m.rec[a].next # NULL, NEW n \in Nat, n # 0, m.rec[a].size >= n
  PROVE  LET got == TakeMiddle(m, a, n)
         IN  /\ got.ptr = a + Meta
             /\ \E C : Took(m, B, got.mem, C, a, n)
<1>1. /\ m.rec[a].next \in Nat /\ m.rec[a].next \in B /\ a \in Nat /\ m.rec[a].size \in Nat
      /\ End(m, a) = m.rec[a].next /\ End(m, a) <= m.top
  BY Order
<1>2. PICK c \in Nat : c = m.rec[a].next
  BY <1>1
<1>3. PICK e \in Nat : e = a + Meta + n
  BY <1>1 DEF Meta
<1>4. PICK got : got = TakeMiddle(m, a, n)
  OBVIOUS
<1>5. PICK t : t = Taken(m, a, c, n)
  OBVIOUS
<1>6. a \in DOMAIN m.rec /\ m.top \in Nat /\ e <= c /\ c <= m.top /\ c \in B /\ c \in DOMAIN m.rec
  <2>1. a \in DOMAIN m.rec /\ c \in DOMAIN m.rec /\ m.top \in Nat /\ a + Meta + m.rec[a].size <= End(m, a)
    BY <1>1, <1>2 DEF List, Memory
  <2> QED
    BY <1>1, <1>2, <1>3, <2>1 DEF Meta
<1>7. Marked(m, t, a, c, n)
  <2>1. c \in Int /\ a \in Nat /\ a + Meta + n <= m.top
    BY <1>1, <1>3, <1>6
  <2> QED
    BY <1>5, <1>6, <2>1, TakenWrites
<1>8. CASE c - a - Meta >= n + Meta
  <2>1. e + Meta <= c
    BY <1>1, <1>3, <1>8 DEF Meta
  <2>2. Record(a, c, TRUE, c - e - Meta) \in Rec
    <3>1. PICK w \in Nat : w = c - e - Meta
      BY <2>1 DEF Meta
    <3>2. Record(a, c, TRUE, w) \in Rec
      BY <1>1 DEF Record, Rec
    <3> QED
      BY <3>1, <3>2
  <2>3. PICK r \in Rec : r = Record(a, c, TRUE, c - e - Meta)
    BY <2>2
  <2>4. PICK l : l = SetNext(t, a, e)
    OBVIOUS
  <2>5. PICK g : g = PutRecord(l, e, r)
    OBVIOUS
  <2>6. PICK s : s = SetPrev(g, c, e)
    OBVIOUS
  <2>7. got = Result(s, a + Meta)
    BY <1>2, <1>3, <1>4, <1>5, <1>8, <2>3, <2>4, <2>5, <2>6 DEF TakeMiddle
  <2>8. got.ptr = a + Meta /\ got.mem = s
    BY <2>7 DEF Result
  <2>9. Memory(t) /\ a \in DOMAIN t.rec /\ t.top = m.top
    BY <1>7 DEF Marked
  <2>10. t.rec[a] \in Rec
    BY <2>9 DEF Memory
  <2>11. PICK q : q = Record(t.rec[a].prev, e, t.rec[a].free, t.rec[a].size)
    OBVIOUS
  <2>12. q.prev = t.rec[a].prev /\ q.next = e /\ ~q.free /\ q.size = n
    <3>1. q.prev = t.rec[a].prev /\ q.next = e /\ q.free = t.rec[a].free /\ q.size = t.rec[a].size
      BY <2>11 DEF Record
    <3> QED
      BY <1>7, <3>1 DEF Marked
  <2>13. Changed(t, l, a, q)
    <3>1. e \in Int
      OBVIOUS
    <3> QED
      BY <2>4, <2>9, <2>11, <3>1, FieldsSet
  <2>14. Put(l, g, e, r)
    <3>1. Memory(l) /\ l.top = m.top
      BY <2>9, <2>13 DEF Changed
    <3>2. e <= l.top - 2
      BY <1>6, <2>1, <3>1 DEF Meta
    <3> QED
      BY <2>5, <3>1, <3>2, PutRecordWrites
  <2>15. r.prev = a /\ r.next = c /\ r.free /\ e + Meta + r.size <= c
    <3>1. r.prev = a /\ r.next = c /\ r.free /\ r.size = c - e - Meta
      BY <2>3 DEF Record
    <3> QED
      BY <3>1 DEF Meta
  <2>16. Memory(g) /\ c \in DOMAIN g.rec
    <3>1. c \in DOMAIN t.rec /\ DOMAIN l.rec = DOMAIN t.rec
      BY <1>1, <1>3, <1>6, <1>7, <2>1, <2>13 DEF Marked, Changed, Meta
    <3> QED
      BY <2>1, <2>14, <3>1 DEF Put, Meta
  <2>17. PICK w : w = Record(e, g.rec[c].next, g.rec[c].free, g.rec[c].size)
    OBVIOUS
  <2>18. w.prev = e /\ w.next = g.rec[c].next /\ w.free = g.rec[c].free /\ w.size = g.rec[c].size
    BY <2>17 DEF Record
  <2>19. Changed(g, s, c, w)
    <3>1. e \in Int
      OBVIOUS
    <3> QED
      BY <2>6, <2>16, <2>17, <3>1, FieldsSet
  <2>20. Took(m, B, s, B \cup {e}, a, n)
    BY <1>2, <1>3, <1>7, <2>1, <2>12, <2>13, <2>14, <2>15, <2>18, <2>19, SplitMiddle
  <2> QED
    BY <1>4, <2>8, <2>20
<1>9. CASE ~(c - a - Meta >= n + Meta)
  <2>1. got = Result(t, a + Meta)
    BY <1>2, <1>4, <1>5, <1>9 DEF TakeMiddle
  <2>2. got.ptr = a + Meta /\ got.mem = t
    BY <2>1 DEF Result
  <2>3. Took(m, B, t, B, a, n)
    <3>1. /\ m.top <= m.top /\ m.rec = m.rec /\ \A x \in 0 .. m.top - 1 : m.cell[x] = m.cell[x]
          /\ m.rec[a].next # NULL => a + Meta + n <= m.rec[a].next /\ m.top = m.top
      BY <1>2, <1>3, <1>6
    <3>2. Marked(m, t, a, m.rec[a].next, n)
      BY <1>2, <1>7
    <3> QED
      BY <3>1, <3>2, TakeWhole
  <2> QED
    BY <1>4, <2>2, <2>3
<1> QED
  BY <1>8, <1>9

\* A call that succeeds takes a block; one that fails takes nothing.
LEMMA AllocatedTakes ==
  ASSUME NEW m, Memory(m), NEW B, List(m, B), NEW n \in Nat, NEW got, got = Allocated(m, n),
         got.ptr # NULL
  PROVE  n # 0 /\ \E a, C : got.ptr = a + Meta /\ Took(m, B, got.mem, C, a, n)
<1> PICK fits : fits = Fits(m, n)
  OBVIOUS
<1> PICK a : a = Min(fits)
  OBVIOUS
<1>1. n # 0
  <2>1. Result(m, NULL).ptr = NULL
    BY DEF Result
  <2> QED
    BY <2>1 DEF Allocated
<1>2. CASE fits = {}
  <2>1. got = Extend(m, n)
    BY <1>1, <1>2 DEF Allocated
  <2>2. got.ptr = m.top + Meta /\ Took(m, B, got.mem, B \cup {m.top}, m.top, n)
    BY <2>1, ExtendTakes
  <2> QED
    BY <1>1, <2>2
<1>3. CASE fits # {}
  <2>1. fits = {b \in B : m.rec[b].free /\ (m.rec[b].next = NULL \/ m.rec[b].size >= n)}
    BY ListIsBlocks DEF Fits
  <2>2. fits \in SUBSET Nat
    BY <2>1, Order
  <2>3. a \in fits
    BY <1>3, <2>2, Least
  <2>4. a \in B /\ m.rec[a].free
    BY <2>1, <2>3
  <2>5. CASE m.rec[a].next = NULL
    <3>1. got = TakeLast(m, a, n)
      BY <1>1, <1>3, <2>5 DEF Allocated
    <3>2. got.ptr = a + Meta /\ \E C : Took(m, B, got.mem, C, a, n)
      BY <1>1, <2>4, <2>5, <3>1, TakeLastTakes
    <3> QED
      BY <1>1, <3>2
  <2>6. CASE m.rec[a].next # NULL
    <3>1. got = TakeMiddle(m, a, n)
      BY <1>1, <1>3, <2>6 DEF Allocated
    <3>2. m.rec[a].size >= n
      BY <2>1, <2>3, <2>6
    <3>3. got.ptr = a + Meta /\ \E C : Took(m, B, got.mem, C, a, n)
      BY <1>1, <2>4, <2>6, <3>1, <3>2, TakeMiddleTakes
    <3> QED
      BY <1>1, <3>3
  <2> QED
    BY <2>5, <2>6
<1> QED
  BY <1>2, <1>3

LEMMA AllocatedNot ==
  ASSUME NEW m, Memory(m), NEW B, List(m, B), NEW n \in Nat, NEW got, got = Allocated(m, n),
         got.ptr = NULL
  PROVE  got.mem = m
<1> PICK fits : fits = Fits(m, n)
  OBVIOUS
<1> PICK a : a = Min(fits)
  OBVIOUS
<1>1. Result(m, NULL).mem = m
  BY DEF Result
<1>2. CASE n = 0
  BY <1>1, <1>2 DEF Allocated
<1>3. CASE n # 0 /\ fits = {}
  <2>1. got = Extend(m, n)
    BY <1>3 DEF Allocated
  <2>2. Result(PutRecord(SetNext(Sbrk(m, Meta + n), LastMet(m), m.top), m.top,
                         Record(LastMet(m), NULL, FALSE, n)), m.top + Meta).ptr # NULL
    BY DEF Result, Meta, NULL, Memory
  <2> QED
    BY <1>1, <2>1, <2>2 DEF Extend
<1>4. CASE n # 0 /\ fits # {}
  <2>1. fits \in SUBSET B /\ B \subseteq Nat
    BY ListIsBlocks, Order DEF Fits
  <2>2. a \in Nat
    BY <1>4, <2>1, Least
  <2>3. \A s : Result(s, a + Meta).ptr # NULL
    BY <2>2 DEF Result, Meta, NULL
  <2>4. CASE m.rec[a].next = NULL
    <3>1. got = TakeLast(m, a, n)
      BY <1>4, <2>4 DEF Allocated
    <3> QED
      BY <1>1, <2>3, <3>1 DEF TakeLast
  <2>5. CASE m.rec[a].next # NULL
    <3>1. got = TakeMiddle(m, a, n)
      BY <1>4, <2>5 DEF Allocated
    <3> QED
      BY <2>3, <3>1 DEF TakeMiddle
  <2> QED
    BY <2>4, <2>5
<1> QED
  BY <1>2, <1>3, <1>4

------------------------------------------------------------------------------
(* mm_free.                                                                 *)

\* s is m after other blocks were merged into b: the list is now C.
Joined(m, B, s, C, b) ==
  /\ Memory(s) /\ List(s, C)
  /\ s.top = m.top /\ s.cell = m.cell /\ DOMAIN s.rec = DOMAIN m.rec
  /\ C \subseteq B /\ b \in C /\ End(m, b) <= End(s, b)
  /\ \A c \in DOMAIN s.rec : s.rec[c].free = m.rec[c].free
  /\ \A c \in C \ {b} : s.rec[c].size = m.rec[c].size

\* q is the record of a with the block d merged into it.
Merged(m, a, d, q) ==
  /\ q.prev = m.rec[a].prev /\ q.next = m.rec[d].next /\ q.free = m.rec[a].free
  /\ q.size = m.rec[a].size + m.rec[d].size + Meta

InUse(m, d) == ~m.rec[d].free

\* A block that is in use is merged into the free one before it.  Its record
\* still says that it is in use, and so the next block's prev may stay.
LEMMA BackJoins ==
  ASSUME NEW m, Memory(m), NEW B, List(m, B), NEW a \in B, NEW d \in B, m.rec[a].next = d,
         InUse(m, d), NEW s, NEW q, Changed(m, s, a, q), Merged(m, a, d, q)
  PROVE  Joined(m, B, s, B \ {d}, a) /\ a < d /\ End(s, a) = End(m, d)
<1>1. /\ q.prev = m.rec[a].prev /\ q.next = m.rec[d].next /\ q.free = m.rec[a].free
      /\ q.size = m.rec[a].size + m.rec[d].size + Meta /\ ~m.rec[d].free
  BY DEF Merged, InUse
<1>2. /\ a \in Nat /\ d \in Nat /\ End(m, a) = d /\ a + Meta <= d
      /\ m.rec[a].size \in Nat /\ m.rec[d].size \in Nat /\ End(m, d) \in Nat
  BY Order DEF NULL
<1>3. a + Meta + m.rec[a].size <= d /\ d + Meta + m.rec[d].size <= End(m, d)
      /\ B \subseteq DOMAIN m.rec
  BY <1>2 DEF List
<1>4. a < d /\ a + Meta + q.size <= End(m, d)
  BY <1>1, <1>2, <1>3 DEF Meta
<1>5. Memory(s) /\ s.top = m.top /\ s.cell = m.cell /\ DOMAIN s.rec = DOMAIN m.rec
      /\ s.rec[a] = q /\ \A b \in DOMAIN m.rec : b # a => s.rec[b] = m.rec[b]
  BY DEF Changed
<1>6. \A b \in DOMAIN s.rec : s.rec[b].free = m.rec[b].free
  BY <1>1, <1>5
<1>7. Stale(m, s, B)
  BY <1>5, <1>6, SMTT(60) DEF Stale
<1>8. ASSUME m.rec[d].next # NULL PROVE Behind(s, a, m.rec[d].next)
  <2>1. PICK c : c = m.rec[d].next
    OBVIOUS
  <2>2. Behind(m, d, c) /\ c \in B /\ c \in Nat /\ d + Meta <= c /\ m.rec[c].prev \in Int
    BY <1>8, <2>1, Order DEF List
  <2>3. c # a /\ s.rec[c].prev = m.rec[c].prev
    BY <1>2, <1>3, <1>4, <1>5, <2>2 DEF Meta
  <2>4. m.rec[c].prev \in d .. c - Meta /\ (m.rec[c].prev \in DOMAIN m.rec => ~m.rec[m.rec[c].prev].free)
    BY <1>1, <1>2, <2>2 DEF Behind, Meta
  <2>5. m.rec[c].prev \in a + 1 .. c - Meta
    BY <1>2, <1>4, <2>2, <2>4 DEF Meta
  <2> QED
    BY <1>5, <1>6, <2>1, <2>3, <2>4, <2>5 DEF Behind
<1>9. \A b \in B \ {a, d} : /\ s.rec[b].next = m.rec[b].next /\ s.rec[b].size = m.rec[b].size
                            /\ b # m.rec[d].next => s.rec[b].prev = m.rec[b].prev
  BY <1>3, <1>5
<1>10. List(s, B \ {d})
  BY <1>1, <1>4, <1>5, <1>7, <1>8, <1>9, ListMerge
<1>11. End(s, a) = End(m, d)
  BY <1>1, <1>5 DEF End
<1>12. End(m, a) <= End(s, a) /\ a \in B \ {d}
  BY <1>2, <1>3, <1>4, <1>11 DEF Meta
<1> QED
  BY <1>4, <1>5, <1>6, <1>9, <1>10, <1>11, <1>12 DEF Joined

\* The next block is merged in, and the one behind it told.
LEMMA FrontJoins ==
  ASSUME NEW m, Memory(m), NEW B, List(m, B), NEW b \in B, NEW n \in B, m.rec[b].next = n,
         NEW t, NEW q, Changed(m, t, b, q),
         q.prev = m.rec[b].prev, q.next = m.rec[n].next, q.free = m.rec[b].free,
         q.size = m.rec[b].size + m.rec[n].size + Meta
  PROVE  Joined(m, B, SetPrev(t, m.rec[n].next, b), B \ {n}, b)
<1>1. PICK c, s : c = m.rec[n].next /\ s = SetPrev(t, c, b)
  OBVIOUS
<1>2. /\ b \in Nat /\ n \in Nat /\ End(m, b) = n /\ b + Meta <= n
      /\ m.rec[b].size \in Nat /\ m.rec[n].size \in Nat /\ End(m, n) \in Nat /\ n + Meta <= End(m, n)
      /\ c \in B \cup {NULL} /\ B \subseteq Nat
  BY <1>1, Order DEF NULL
<1>3. b + Meta + m.rec[b].size <= n /\ n + Meta + m.rec[n].size <= End(m, n)
      /\ B \subseteq DOMAIN m.rec
  BY <1>2 DEF List
<1>4. b < n /\ b + Meta + q.size <= End(m, n)
  BY <1>2, <1>3 DEF Meta
<1>5. Memory(t) /\ t.top = m.top /\ t.cell = m.cell /\ DOMAIN t.rec = DOMAIN m.rec
      /\ t.rec[b] = q /\ \A x \in DOMAIN m.rec : x # b => t.rec[x] = m.rec[x]
  BY DEF Changed
<1>6. c # NULL => c # b /\ c # n
  BY <1>1, <1>2, <1>4, Order DEF Meta
<1>7. /\ Memory(s) /\ s.top = m.top /\ s.cell = m.cell /\ DOMAIN s.rec = DOMAIN m.rec
      /\ s.rec[b] = q /\ (c # NULL => s.rec[c].prev = b)
      /\ \A x \in DOMAIN m.rec \ {b} : /\ s.rec[x].next = m.rec[x].next
                                       /\ s.rec[x].size = m.rec[x].size
                                       /\ s.rec[x].free = m.rec[x].free
                                       /\ x # c => s.rec[x].prev = m.rec[x].prev
  <2>1. CASE c = NULL
    <3>1. s = t
      BY <1>1, <2>1 DEF SetPrev
    <3> QED
      BY <1>5, <2>1, <3>1
  <2>2. CASE c # NULL
    <3>1. c \in DOMAIN t.rec /\ b \in Int
      BY <1>2, <1>3, <1>5, <2>2
    <3>2. PICK w : w = Record(b, t.rec[c].next, t.rec[c].free, t.rec[c].size)
      OBVIOUS
    <3>3. w.prev = b /\ w.next = t.rec[c].next /\ w.free = t.rec[c].free /\ w.size = t.rec[c].size
      BY <3>2, SMTT(60) DEF Record
    <3>4. Changed(t, s, c, w)
      BY <1>1, <1>5, <3>1, <3>2, FieldsSet
    <3>5. /\ Memory(s) /\ s.top = t.top /\ s.cell = t.cell /\ DOMAIN s.rec = DOMAIN t.rec
          /\ s.rec[c] = w /\ \A x \in DOMAIN t.rec : x # c => s.rec[x] = t.rec[x]
      BY <3>4 DEF Changed
    <3>6. c # b /\ b \in DOMAIN t.rec /\ t.rec[c] = m.rec[c]
      BY <1>3, <1>5, <1>6, <2>2, <3>1
    <3>7. s.rec[b] = q /\ s.rec[c].prev = b
      BY <1>5, <3>3, <3>5, <3>6
    <3>8. ASSUME NEW x \in DOMAIN m.rec \ {b}
          PROVE  /\ s.rec[x].next = m.rec[x].next /\ s.rec[x].size = m.rec[x].size
                 /\ s.rec[x].free = m.rec[x].free
                 /\ x # c => s.rec[x].prev = m.rec[x].prev
      <4>1. CASE x = c
        BY <3>3, <3>5, <3>6, <4>1
      <4>2. CASE x # c
        BY <1>5, <3>5, <3>8, <4>2
      <4> QED
        BY <4>1, <4>2
    <3> QED
      BY <1>5, <3>5, <3>7, <3>8
  <2> QED
    BY <2>1, <2>2
<1>8. \A x \in DOMAIN s.rec : s.rec[x].free = m.rec[x].free
  BY <1>7
<1>9. Stale(m, s, B)
  BY <1>7, <1>8, SMTT(60) DEF Stale
<1>10. m.rec[n].next # NULL => Behind(s, b, m.rec[n].next)
  BY <1>1, <1>7, SMTT(60) DEF Behind
<1>11. \A x \in B \ {b, n} : /\ s.rec[x].next = m.rec[x].next /\ s.rec[x].size = m.rec[x].size
                             /\ x # m.rec[n].next => s.rec[x].prev = m.rec[x].prev
  BY <1>1, <1>3, <1>7
<1>12. List(s, B \ {n})
  BY <1>4, <1>7, <1>9, <1>10, <1>11, ListMerge
<1>13. End(s, b) = End(m, n)
  BY <1>7 DEF End
<1>14. Joined(m, B, s, B \ {n}, b)
  BY <1>2, <1>4, <1>7, <1>8, <1>11, <1>12, <1>13 DEF Joined, Meta
<1> QED
  BY <1>1, <1>14

\* A prev that mm_free finds free leads to the block before, whatever else it
\* may lead to.
LEMMA BackIs ==
  ASSUME NEW m, Memory(m), NEW B, List(m, B), NEW d \in B, NEW q, q = m.rec[d].prev,
         ReadsFree(m, q)
  PROVE  q \in B /\ m.rec[q].next = d /\ m.rec[q].free
<1>1. q # NULL /\ m.cell[q + 1] = Info /\ m.rec[q].free
  BY DEF ReadsFree, Mark
<1>2. B \subseteq Nat /\ d \in DOMAIN m.rec /\ m.top \in Nat /\ d <= m.top - 2 /\ q \in Int
  <2>1. B \subseteq Nat /\ q \in Int
    BY Order
  <2>2. d \in DOMAIN m.rec
    BY DEF List
  <2> QED
    BY <2>1, <2>2 DEF Memory
<1>3. d # 0
  BY <1>1 DEF List
<1>4. PICK a \in B : m.rec[a].next = d
  BY <1>3 DEF List
<1>5. a \in Nat /\ d \in Nat /\ Behind(m, a, d)
  <2>1. d # NULL
    BY <1>2 DEF NULL
  <2> QED
    BY <1>2, <1>4, <2>1 DEF List
<1>6. CASE q = a
  BY <1>1, <1>4, <1>6
<1>7. CASE q # a
  <2>1. q \in a + 1 .. d - Meta /\ (q \in DOMAIN m.rec => ~m.rec[q].free)
    BY <1>5, <1>7 DEF Behind
  <2>2. q \in 0 .. m.top - 2
    BY <1>2, <1>5, <2>1 DEF Meta
  <2>3. q \in DOMAIN m.rec
    BY <1>1, <2>2 DEF Memory
  <2> QED
    BY <1>1, <2>1, <2>3
<1> QED
  BY <1>6, <1>7

LEMMA MergeBackJoins ==
  ASSUME NEW m, Memory(m), NEW B, List(m, B), NEW d \in B, ~m.rec[d].free,
         NEW b, b = FreedIn(m, d), NEW s, s = MergeBack(m, d)
  PROVE  /\ b \in B /\ b <= d /\ End(m, d) <= End(s, b)
         /\ b = d => Joined(m, B, s, B, b)
         /\ b # d => Joined(m, B, s, B \ {d}, b) /\ m.rec[b].free
<1>1. PICK q : q = m.rec[d].prev
  OBVIOUS
<1>2. d \in Nat /\ End(m, d) \in Nat
  BY Order
<1>3. CASE ReadsFree(m, q)
  <2>1. q \in B /\ m.rec[q].next = d /\ m.rec[q].free
    BY <1>1, <1>3, BackIs
  <2>2. b = q
    BY <1>1, <1>3 DEF FreedIn
  <2>3. /\ m.rec[q].prev \in Int /\ m.rec[q].size \in Nat /\ m.rec[q].free \in BOOLEAN
        /\ m.rec[d].next \in Int /\ m.rec[d].size \in Nat /\ q \in DOMAIN m.rec
    BY <2>1 DEF List, Memory, Rec
  <2>4. PICK z \in Nat : z = m.rec[q].size + m.rec[d].size + Meta
    BY <2>3 DEF Meta
  <2>5. Record(m.rec[q].prev, m.rec[d].next, m.rec[q].free, z) \in Rec
    BY <2>3 DEF Record, Rec
  <2>6. PICK r \in Rec : r = Record(m.rec[q].prev, m.rec[d].next, m.rec[q].free, z)
    BY <2>5
  <2>7. r.prev = m.rec[q].prev /\ r.next = m.rec[d].next /\ r.free = m.rec[q].free /\ r.size = z
    BY <2>6, SMTT(60) DEF Record
  <2>8. s = SetRecord(m, q, r)
    BY <1>1, <1>3, <2>4, <2>6 DEF MergeBack
  <2>9. Changed(m, s, q, r)
    BY <2>3, <2>8, FieldsSet
  <2>10. Joined(m, B, s, B \ {d}, q) /\ q < d /\ End(s, q) = End(m, d)
    <3>1. Merged(m, q, d, r) /\ InUse(m, d)
      BY <2>4, <2>7 DEF Merged, InUse
    <3> QED
      BY <2>1, <2>9, <3>1, BackJoins
  <2>11. q # d /\ q <= d /\ End(m, d) <= End(s, q)
    <3>1. q \in Nat
      BY <2>1, Order
    <3> QED
      BY <1>2, <2>10, <3>1
  <2> QED
    BY <2>1, <2>2, <2>10, <2>11
<1>4. CASE ~ReadsFree(m, q)
  <2>1. b = d /\ s = m
    BY <1>1, <1>4 DEF FreedIn, MergeBack
  <2>2. Joined(m, B, m, B, d)
    BY <1>2 DEF Joined
  <2> QED
    BY <1>2, <2>1, <2>2
<1> QED
  BY <1>3, <1>4

LEMMA MergeForwardJoins ==
  ASSUME NEW m, Memory(m), NEW B, List(m, B), NEW b \in B, NEW s, s = MergeForward(m, b)
  PROVE  \E C : Joined(m, B, s, C, b) /\ \A c \in B \ C : m.rec[c].free
<1> PICK n : n = m.rec[b].next
  OBVIOUS
<1>1. n \in B \cup {NULL} /\ b \in Nat /\ End(m, b) \in Nat /\ b \in DOMAIN m.rec
  BY Order DEF List
<1>2. CASE n # NULL /\ m.rec[n].free
  <2>1. n \in B
    BY <1>1, <1>2
  <2>2. /\ m.rec[b].prev \in Int /\ m.rec[b].size \in Nat /\ m.rec[b].free \in BOOLEAN
        /\ m.rec[n].next \in Int /\ m.rec[n].size \in Nat
    BY <2>1 DEF List, Memory, Rec
  <2>3. PICK z \in Nat : z = m.rec[b].size + m.rec[n].size + Meta
    BY <2>2 DEF Meta
  <2>4. Record(m.rec[b].prev, m.rec[n].next, m.rec[b].free, z) \in Rec
    BY <2>2 DEF Record, Rec
  <2>5. PICK r \in Rec : r = Record(m.rec[b].prev, m.rec[n].next, m.rec[b].free, z)
    BY <2>4
  <2>6. r.prev = m.rec[b].prev /\ r.next = m.rec[n].next /\ r.free = m.rec[b].free /\ r.size = z
    BY <2>5 DEF Record
  <2>7. PICK t : t = SetRecord(m, b, r)
    BY ZenonT(60)
  <2>8. s = SetPrev(t, m.rec[n].next, b)
    BY <1>2, <2>3, <2>5, <2>7, ZenonT(60) DEF MergeForward
  <2>9. Changed(m, t, b, r)
    BY <1>1, <2>7, FieldsSet
  <2>10. Joined(m, B, s, B \ {n}, b)
    BY <2>1, <2>3, <2>6, <2>8, <2>9, FrontJoins, SMTT(60)
  <2> QED
    BY <1>2, <2>10
<1>3. CASE ~(n # NULL /\ m.rec[n].free)
  <2>1. s = m
    BY <1>3 DEF MergeForward
  <2>2. Joined(m, B, m, B, b)
    BY <1>1 DEF Joined
  <2> QED
    BY <2>1, <2>2
<1> QED
  BY <1>2, <1>3

\* s is m after the block d was freed, which is now in the free block b.
Gave(m, B, s, C, d, b) ==
  /\ Memory(s) /\ List(s, C) /\ s.top = m.top /\ s.cell = m.cell /\ C \subseteq B
  /\ b \in C /\ b <= d /\ End(m, d) <= End(s, b) /\ s.rec[b].free
  /\ b # d => d \notin C /\ m.rec[b].free
  /\ \A c \in C \ {b} : s.rec[c].free = m.rec[c].free /\ s.rec[c].size = m.rec[c].size
  /\ \A c \in B \ C : c = d \/ m.rec[c].free

LEMMA FreedGives ==
  ASSUME NEW m, Memory(m), NEW B, List(m, B), NEW d \in B, ~m.rec[d].free,
         NEW p, p - Meta = d, NEW s, s = Freed(m, p)
  PROVE  \E C : Gave(m, B, s, C, d, FreedIn(m, d))
<1> PICK b : b = FreedIn(m, d)
  OBVIOUS
<1> PICK t : t = MergeBack(m, d)
  OBVIOUS
<1> PICK u : u = MergeForward(t, b)
  OBVIOUS
<1>1. s = SetFree(u, b)
  BY DEF Freed
<1>2. /\ b \in B /\ b <= d /\ End(m, d) <= End(t, b)
      /\ b = d => Joined(m, B, t, B, b)
      /\ b # d => Joined(m, B, t, B \ {d}, b) /\ m.rec[b].free
  BY MergeBackJoins
<1>3. PICK A : Joined(m, B, t, A, b) /\ ((b = d /\ A = B) \/ (b # d /\ A = B \ {d} /\ m.rec[b].free))
  BY <1>2
<1>4. Memory(t) /\ List(t, A) /\ b \in A
  BY <1>3 DEF Joined
<1>5. PICK C : Joined(t, A, u, C, b) /\ \A c \in A \ C : t.rec[c].free
  BY <1>4, MergeForwardJoins
<1>6. Memory(u) /\ List(u, C) /\ b \in C /\ C \subseteq A /\ b \in DOMAIN u.rec /\ C \subseteq DOMAIN u.rec
      /\ A \subseteq DOMAIN t.rec /\ B \subseteq DOMAIN m.rec
  BY <1>4, <1>5 DEF Joined, List
<1>7. PICK q : q = Record(u.rec[b].prev, u.rec[b].next, TRUE, u.rec[b].size)
  OBVIOUS
<1>8. q.prev = u.rec[b].prev /\ q.next = u.rec[b].next /\ q.free /\ q.size = u.rec[b].size
  BY <1>7 DEF Record
<1>9. Changed(u, s, b, q)
  BY <1>1, <1>6, <1>7, FieldsSet, ZenonT(60)
<1>10. /\ Memory(s) /\ s.top = u.top /\ s.cell = u.cell /\ DOMAIN s.rec = DOMAIN u.rec
       /\ s.rec[b] = q /\ \A c \in DOMAIN u.rec : c # b => s.rec[c] = u.rec[c]
  BY <1>9 DEF Changed
<1>11. List(s, C)
  <2>1. Stale(u, s, C)
    BY <1>6, <1>10 DEF Stale
  <2>2. \A c \in C : /\ s.rec[c].next = u.rec[c].next /\ s.rec[c].prev = u.rec[c].prev
                     /\ s.rec[c].size = u.rec[c].size /\ End(s, c) = End(u, c)
    BY <1>6, <1>8, <1>10 DEF End
  <2>3. \A c \in C : c + Meta + s.rec[c].size <= End(s, c)
    BY <1>6, <2>2 DEF List
  <2>4. C # {} /\ s.top >= u.top /\ C \subseteq DOMAIN s.rec
    BY <1>6, <1>10 DEF Memory
  <2> QED
    BY <1>6, <1>10, <2>1, <2>2, <2>3, <2>4, ListSame
<1>12. End(m, d) <= End(s, b)
  <2>1. End(s, b) = End(u, b)
    BY <1>8, <1>10 DEF End
  <2>2. End(t, b) <= End(u, b) /\ End(t, b) \in Nat /\ End(u, b) \in Nat /\ End(m, d) \in Nat
    BY <1>4, <1>5, <1>6, Order DEF Joined
  <2> QED
    BY <1>2, <2>1, <2>2
<1>13. \A c \in C \ {b} : s.rec[c].free = m.rec[c].free /\ s.rec[c].size = m.rec[c].size
  BY <1>3, <1>5, <1>6, <1>10 DEF Joined
<1>14. \A c \in B \ C : c = d \/ m.rec[c].free
  BY <1>3, <1>5, <1>6 DEF Joined
<1>15. s.top = m.top /\ s.cell = m.cell /\ C \subseteq B /\ (b # d => d \notin C /\ m.rec[b].free)
  BY <1>3, <1>5, <1>6, <1>10 DEF Joined
<1>16. Gave(m, B, s, C, d, b)
  BY <1>2, <1>6, <1>8, <1>10, <1>11, <1>12, <1>13, <1>14, <1>15 DEF Gave
<1> QED
  BY <1>16

------------------------------------------------------------------------------
(* What callers hold.                                                       *)

\* A block that a caller holds is in use, and its bytes lie inside it.
LEMMA HeldBlock ==
  ASSUME NEW m, Memory(m), NEW B, List(m, B), NEW h, Owned(m, B, h), NEW p \in DOMAIN h
  PROVE  /\ p \in Nat /\ p - Meta \in B /\ p - Meta \in Nat /\ ~m.rec[p - Meta].free
         /\ Len(h[p]) \in Nat /\ p + Len(h[p]) <= End(m, p - Meta) /\ End(m, p - Meta) <= m.top
         /\ End(m, p - Meta) \in Nat /\ m.rec[p - Meta].size = Len(h[p])
         /\ p - Meta + Meta = p
<1>1. p \in Nat /\ Holds(m, B, p, h[p])
  BY DEF Owned
<1>2. PICK d : d = p - Meta
  OBVIOUS
<1>3. d \in B /\ m.rec[d].size = Len(h[p]) /\ Len(h[p]) \in Nat
  BY <1>1, <1>2 DEF Holds
<1>4. d \in Nat /\ End(m, d) \in Nat /\ End(m, d) <= m.top
  BY <1>3, Order
<1>5. d + Meta = p
  BY <1>1, <1>2 DEF Meta
<1>6. ~m.rec[d].free
  BY <1>3, <1>5 DEF Owned
<1>7. d + Meta + Len(h[p]) <= End(m, d)
  BY <1>3 DEF List
<1> QED
  BY <1>1, <1>2, <1>3, <1>4, <1>5, <1>6, <1>7

\* What another caller holds stays as it was, if its block does.
LEMMA StillHolds ==
  ASSUME NEW m, NEW B, NEW s, NEW C, NEW p, NEW bytes, Holds(m, B, p, bytes),
         p - Meta \in C, s.rec[p - Meta].size = m.rec[p - Meta].size,
         \A i \in 1 .. Len(bytes) : s.cell[p + i - 1] = m.cell[p + i - 1]
  PROVE  Holds(s, C, p, bytes)
BY DEF Holds

LEMMA OwnedTook ==
  ASSUME NEW m, Memory(m), NEW B, List(m, B), NEW h, Owned(m, B, h),
         NEW n \in Nat, NEW a, NEW C, NEW s, Took(m, B, s, C, a, n),
         NEW p, p = a + Meta, NEW g, DOMAIN g = DOMAIN h \cup {p}, g[p] = Zeros(n),
         \A q \in DOMAIN h : q # p => g[q] = h[q]
  PROVE  Owned(s, C, g)
<1>1. /\ Memory(s) /\ List(s, C) /\ B \subseteq C /\ a \in C /\ m.top <= s.top
      /\ s.rec[a].size = n /\ ~s.rec[a].free
      /\ a \in B => m.rec[a].free
      /\ \A b \in B \ {a} : s.rec[b].free = m.rec[b].free /\ s.rec[b].size = m.rec[b].size
      /\ \A b \in C \ B : b # a => s.rec[b].free
      /\ \A x \in 0 .. m.top - 1 : (a \in B => x \notin a .. End(m, a) - 1) => s.cell[x] = m.cell[x]
      /\ \A x \in Span(a + Meta, n) : s.cell[x] = 0
  BY DEF Took
<1>2. C \subseteq Nat /\ a \in Nat /\ p \in Nat /\ p - Meta = a /\ B \subseteq Nat /\ m.top \in Nat
  <2>1. C \subseteq Nat /\ B \subseteq Nat
    BY <1>1, Order
  <2> QED
    BY <1>1, <2>1, SMTT(60) DEF Meta, Memory
<1>3. ASSUME NEW q \in DOMAIN h
      PROVE  q - Meta # a /\ q # p /\ Holds(s, C, q, h[q])
  <2>1. PICK d : d = q - Meta
    OBVIOUS
  <2>2. /\ q \in Nat /\ d \in B /\ d \in Nat /\ ~m.rec[d].free /\ Len(h[q]) \in Nat
        /\ q + Len(h[q]) <= End(m, d) /\ End(m, d) <= m.top /\ End(m, d) \in Nat /\ d + Meta = q
    BY <2>1, HeldBlock
  <2>3. d # a
    BY <1>1, <2>2
  <2>4. ASSUME NEW i \in 1 .. Len(h[q]) PROVE s.cell[q + i - 1] = m.cell[q + i - 1]
    <3>1. PICK x \in Int : x = q + i - 1
      BY <2>2
    <3>2. x \in 0 .. m.top - 1 /\ d < x /\ x < End(m, d)
      BY <2>2, <2>4, <3>1, <1>2, SMTT(60) DEF Meta
    <3>3. ASSUME a \in B PROVE x \notin a .. End(m, a) - 1
      <4>1. (a < d => End(m, a) <= d) /\ (d < a => End(m, d) <= a) /\ End(m, a) \in Nat
        BY <2>2, <3>3, Order
      <4> QED
        BY <1>2, <2>2, <2>3, <3>2, <4>1
    <3> QED
      BY <1>1, <3>1, <3>2, <3>3
  <2>5. s.rec[d].size = m.rec[d].size /\ d \in C
    BY <1>1, <2>2, <2>3
  <2>6. Holds(m, B, q, h[q])
    BY DEF Owned
  <2>7. Holds(s, C, q, h[q])
    BY <2>1, <2>4, <2>5, <2>6, StillHolds
  <2> QED
    BY <1>2, <2>1, <2>3, <2>7
<1>4. Holds(s, C, p, g[p])
  <2>1. g[p] \in Seq(Int) /\ Len(g[p]) = n /\ \A i \in 1 .. n : g[p][i] = 0
    BY DEF Zeros
  <2>2. \A i \in 1 .. n : p + i - 1 \in Span(a + Meta, n)
    BY <1>2 DEF Span
  <2>3. \A i \in 1 .. n : s.cell[p + i - 1] = 0
    BY <1>1, <2>2
  <2> QED
    BY <1>1, <1>2, <2>1, <2>3 DEF Holds, Ptrs, Info
<1>5. DOMAIN g \subseteq Nat
  BY <1>2 DEF Owned
<1>6. ASSUME NEW c \in C PROVE ~s.rec[c].free <=> c + Meta \in DOMAIN g
  <2>1. CASE c = a
    BY <1>1, <2>1
  <2>2. CASE c # a /\ c \in B
    <3>1. c + Meta # p
      BY <1>2, <2>2 DEF Meta
    <3>2. ~m.rec[c].free <=> c + Meta \in DOMAIN h
      BY <2>2 DEF Owned
    <3> QED
      BY <1>1, <2>2, <3>1, <3>2
  <2>3. CASE c # a /\ c \notin B
    <3>1. c + Meta # p /\ (c + Meta) - Meta = c
      BY <1>2, <2>3 DEF Meta
    <3>2. c + Meta \notin DOMAIN h
      BY <2>3, <3>1, HeldBlock
    <3> QED
      BY <1>1, <2>3, <3>1, <3>2
  <2> QED
    BY <2>1, <2>2, <2>3
<1>7. ASSUME NEW q \in DOMAIN g PROVE Holds(s, C, q, g[q])
  <2>1. CASE q = p
    BY <1>4, <2>1
  <2>2. CASE q # p
    <3>1. q \in DOMAIN h /\ g[q] = h[q]
      BY <2>2
    <3> QED
      BY <1>3, <3>1
  <2> QED
    BY <2>1, <2>2
<1> QED
  BY <1>5, <1>6, <1>7 DEF Owned

LEMMA OwnedGave ==
  ASSUME NEW m, Memory(m), NEW B, List(m, B), NEW h, Owned(m, B, h), NEW p \in DOMAIN h,
         NEW b, NEW C, NEW s, Gave(m, B, s, C, p - Meta, b),
         NEW g, DOMAIN g = DOMAIN h \ {p}, \A q \in DOMAIN g : g[q] = h[q]
  PROVE  Owned(s, C, g)
<1>1. PICK d : d = p - Meta
  OBVIOUS
<1>2. p \in Nat /\ d \in B /\ d \in Nat /\ ~m.rec[d].free /\ d + Meta = p
  BY <1>1, HeldBlock
<1>3. /\ s.cell = m.cell /\ C \subseteq B /\ b \in C /\ s.rec[b].free
      /\ b # d => d \notin C /\ m.rec[b].free
      /\ \A c \in C \ {b} : s.rec[c].free = m.rec[c].free /\ s.rec[c].size = m.rec[c].size
      /\ \A c \in B \ C : c = d \/ m.rec[c].free
  BY <1>1 DEF Gave
<1>4. B \subseteq Nat
  BY Order
<1>5. ASSUME NEW c \in C PROVE ~s.rec[c].free <=> c + Meta \in DOMAIN g
  <2>1. ~m.rec[c].free <=> c + Meta \in DOMAIN h
    BY <1>3 DEF Owned
  <2>2. c + Meta = p <=> c = d
    <3>1. c \in Nat
      BY <1>3, <1>4
    <3> QED
      BY <1>2, <3>1 DEF Meta
  <2>3. CASE c = b
    BY <1>3, <2>1, <2>2, <2>3
  <2>4. CASE c # b
    BY <1>3, <2>1, <2>2, <2>4
  <2> QED
    BY <2>3, <2>4
<1>6. ASSUME NEW q \in DOMAIN g PROVE Holds(s, C, q, g[q])
  <2>1. q \in DOMAIN h /\ q # p /\ g[q] = h[q]
    OBVIOUS
  <2>2. PICK c : c = q - Meta
    OBVIOUS
  <2>3. c \in B /\ ~m.rec[c].free /\ c + Meta = q
    BY <2>1, <2>2, HeldBlock
  <2>4. c # d /\ c \in C /\ c # b
    BY <1>2, <1>3, <2>1, <2>3
  <2>5. Holds(m, B, q, h[q])
    BY <2>1 DEF Owned
  <2>6. s.rec[c].size = m.rec[c].size
    BY <1>3, <2>4
  <2> QED
    BY <1>3, <2>1, <2>2, <2>4, <2>5, <2>6, StillHolds
<1>7. DOMAIN g \subseteq Nat
  BY DEF Owned
<1> QED
  BY <1>5, <1>6, <1>7 DEF Owned

\* A store inside a block that is held: by its caller, or by mm_realloc, which
\* may write more than was asked for.
LEMMA OwnedStored ==
  ASSUME NEW m, Memory(m), NEW B, List(m, B), NEW h, Owned(m, B, h), NEW p \in DOMAIN h,
         NEW k \in Nat, NEW bytes \in [1 .. k -> Int], p + k <= End(m, p - Meta),
         \A i \in 1 .. k : bytes[i] \notin {Ptrs, Info},
         NEW s, Stored(m, s, p, k, bytes),
         NEW g, DOMAIN g = DOMAIN h, \A q \in DOMAIN g \ {p} : g[q] = h[q],
         g[p] \in Seq(Int), Len(g[p]) = Len(h[p]),
         \A i \in 1 .. Len(h[p]) : g[p][i] = s.cell[p + i - 1]
  PROVE  List(s, B) /\ Owned(s, B, g)
<1>1. PICK d : d = p - Meta
  OBVIOUS
<1>2. /\ p \in Nat /\ d \in B /\ d \in Nat /\ d + Meta = p /\ Len(h[p]) \in Nat
      /\ p + Len(h[p]) <= End(m, d) /\ End(m, d) <= m.top /\ End(m, d) \in Nat
      /\ p + k <= End(m, d) /\ m.top \in Nat /\ B \subseteq Nat
  <2>1. /\ p \in Nat /\ d \in B /\ d \in Nat /\ d + Meta = p /\ Len(h[p]) \in Nat
        /\ p + Len(h[p]) <= End(m, d) /\ End(m, d) <= m.top /\ End(m, d) \in Nat
    BY <1>1, HeldBlock
  <2>2. m.top \in Nat /\ B \subseteq Nat
    BY Order DEF Memory
  <2> QED
    BY <1>1, <2>1, <2>2
<1>3. /\ Memory(s) /\ s.top = m.top
      /\ \A x \in 0 .. m.top - 1 : x < p \/ x >= p + k => s.cell[x] = m.cell[x]
      /\ DOMAIN s.rec \subseteq DOMAIN m.rec /\ \A a \in DOMAIN s.rec : s.rec[a] = m.rec[a]
      /\ \A i \in 1 .. k : s.cell[p + i - 1] = bytes[i]
  BY <1>2, SMTT(60) DEF Stored, Overwrote, Span
<1>4. B \subseteq DOMAIN s.rec
  <2>1. \A x \in 0 .. m.top - 1 : x < d + Meta \/ x >= End(m, d) => s.cell[x] = m.cell[x]
    BY <1>2, <1>3
  <2>2. Memory(s) /\ m.top <= s.top /\ d \in B
    BY <1>2, <1>3
  <2> QED
    BY <2>1, <2>2, Untouched
<1>5. \A b \in B : s.rec[b] = m.rec[b]
  BY <1>3, <1>4
<1>6. List(s, B)
  <2>1. Stale(m, s, B)
    BY <1>3 DEF Stale
  <2>2. \A b \in B : /\ s.rec[b].next = m.rec[b].next /\ s.rec[b].prev = m.rec[b].prev
                     /\ b + Meta + s.rec[b].size <= End(s, b)
    BY <1>3, <1>5 DEF List, End
  <2>3. B # {} /\ s.top >= m.top /\ Memory(s)
    BY <1>2, <1>3
  <2> QED
    BY <1>4, <2>1, <2>2, <2>3, ListSame, ZenonT(60)
<1>7. ASSUME NEW q \in DOMAIN g PROVE Holds(s, B, q, g[q])
  <2>1. CASE q # p
    <3>1. PICK c : c = q - Meta
      OBVIOUS
    <3>2. /\ q \in Nat /\ c \in B /\ c \in Nat /\ Len(h[q]) \in Nat /\ c + Meta = q
          /\ q + Len(h[q]) <= End(m, c) /\ End(m, c) <= m.top /\ End(m, c) \in Nat
      BY <3>1, HeldBlock
    <3>3. c # d
      BY <1>2, <2>1, <3>2
    <3>4. (c < d => End(m, c) <= d) /\ (d < c => End(m, d) <= c)
      BY <1>2, <3>2, Order
    <3>5. ASSUME NEW i \in 1 .. Len(h[q]) PROVE s.cell[q + i - 1] = m.cell[q + i - 1]
      <4>1. PICK x \in Int : x = q + i - 1
        BY <3>2
      <4>2. x >= q /\ x < End(m, c) /\ x < m.top
        BY <1>2, <3>2, <3>5, <4>1, SMTT(60)
      <4>3. x \in 0 .. m.top - 1 /\ d < p /\ c < q
        <5>1. d < p
          BY <1>2 DEF Meta
        <5>2. c < q
          BY <3>2 DEF Meta
        <5>3. x \in 0 .. m.top - 1
          BY <1>2, <3>2, <4>1, <4>2, SMTT(60)
        <5> QED
          BY <5>1, <5>2, <5>3
      <4>4. CASE c < d
        <5>1. PICK e \in Nat : e = End(m, c)
          BY <3>2
        <5>2. e <= d /\ x < e /\ x >= q
          BY <3>4, <4>2, <4>4, <5>1
        <5>3. x < p
          BY <1>2, <4>1, <4>3, <5>1, <5>2
        <5> QED
          BY <1>3, <4>1, <4>3, <5>3
      <4>5. CASE d < c
        <5>1. PICK e \in Nat : e = End(m, d)
          BY <1>2
        <5>2. e <= c /\ p + k <= e
          BY <1>2, <3>4, <4>5, <5>1
        <5>3. x >= p + k
          BY <1>2, <3>2, <4>1, <4>2, <4>3, <5>1, <5>2, SMTT(60)
        <5> QED
          BY <1>3, <4>1, <4>3, <5>3
      <4> QED
        BY <1>2, <3>2, <3>3, <4>4, <4>5
    <3>6. Holds(m, B, q, h[q]) /\ g[q] = h[q]
      BY <2>1 DEF Owned
    <3> QED
      BY <1>5, <3>1, <3>2, <3>5, <3>6, StillHolds
  <2>2. CASE q = p
    <3>1. Holds(m, B, p, h[p])
      BY DEF Owned
    <3>2. ASSUME NEW i \in 1 .. Len(g[p]) PROVE g[p][i] \notin {Ptrs, Info}
      <4>1. CASE i <= k
        <5>1. i \in 1 .. k
          BY <1>2, <3>2, <4>1
        <5> QED
          BY <1>3, <3>2, <5>1
      <4>2. CASE i > k
        <5>1. p + i - 1 \in 0 .. m.top - 1 /\ p + i - 1 >= p + k
          BY <1>2, <3>2, <4>2, SMTT(60)
        <5>2. s.cell[p + i - 1] = m.cell[p + i - 1]
          BY <1>3, <5>1
        <5> QED
          BY <3>1, <3>2, <5>2 DEF Holds
      <4> QED
        BY <1>2, <3>2, <4>1, <4>2
    <3>3. s.rec[d].size = Len(g[p])
      BY <1>1, <1>2, <1>5, <3>1 DEF Holds
    <3> QED
      BY <1>1, <1>2, <2>2, <3>2, <3>3 DEF Holds
  <2> QED
    BY <2>1, <2>2
<1>8. DOMAIN g \subseteq Nat /\ \A a \in B : ~s.rec[a].free <=> a + Meta \in DOMAIN g
  BY <1>5 DEF Owned
<1> QED
  BY <1>6, <1>7, <1>8 DEF Owned

------------------------------------------------------------------------------
(* The calls.                                                               *)

LEMMA MallocKeeps ==
  ASSUME NEW m, NEW B, NEW h, Heap(m, B, h), NEW n \in Nat, NEW got, got = Allocated(m, n),
         NEW g, got.ptr = NULL => g = h,
         got.ptr # NULL => /\ DOMAIN g = DOMAIN h \cup {got.ptr} /\ g[got.ptr] = Zeros(n)
                           /\ \A q \in DOMAIN h : q # got.ptr => g[q] = h[q]
  PROVE  \E C : Heap(got.mem, C, g)
<1>1. Memory(m) /\ List(m, B) /\ Owned(m, B, h)
  BY DEF Heap
<1>2. CASE got.ptr = NULL
  <2>1. got.mem = m
    BY <1>1, <1>2, AllocatedNot
  <2> QED
    BY <1>2, <2>1
<1>3. CASE got.ptr # NULL
  <2>1. PICK a, C : got.ptr = a + Meta /\ Took(m, B, got.mem, C, a, n)
    BY <1>1, <1>3, AllocatedTakes
  <2>2. Owned(got.mem, C, g)
    BY <1>1, <1>3, <2>1, OwnedTook
  <2>3. Memory(got.mem) /\ List(got.mem, C)
    BY <2>1 DEF Took
  <2> QED
    BY <2>2, <2>3 DEF Heap
<1> QED
  BY <1>2, <1>3

LEMMA FreeKeeps ==
  ASSUME NEW m, NEW B, NEW h, Heap(m, B, h), NEW p \in DOMAIN h, NEW s, s = Freed(m, p),
         NEW g, DOMAIN g = DOMAIN h \ {p}, \A q \in DOMAIN g : g[q] = h[q]
  PROVE  \E C : Heap(s, C, g) /\ Gave(m, B, s, C, p - Meta, FreedIn(m, p - Meta))
<1>1. Memory(m) /\ List(m, B) /\ Owned(m, B, h)
  BY DEF Heap
<1>2. PICK d : d = p - Meta
  OBVIOUS
<1>3. d \in B /\ ~m.rec[d].free
  BY <1>1, <1>2, HeldBlock
<1>4. PICK C : Gave(m, B, s, C, d, FreedIn(m, d))
  BY <1>1, <1>2, <1>3, FreedGives
<1>5. Owned(s, C, g)
  BY <1>1, <1>2, <1>4, OwnedGave
<1>6. Memory(s) /\ List(s, C)
  BY <1>4 DEF Gave
<1> QED
  BY <1>2, <1>4, <1>5, <1>6 DEF Heap

\* g is h with the block q for the block p.
Moved(h, g, p, q, bytes) ==
  /\ DOMAIN g = (DOMAIN h \ {p}) \cup {q} /\ g[q] = bytes
  /\ \A r \in DOMAIN h \ {p} : r # q => g[r] = h[r]

\* A caller writes its whole block.
LEMMA WriteKeeps ==
  ASSUME NEW m, NEW B, NEW h, Heap(m, B, h), NEW p \in DOMAIN h, NEW v \in Nat,
         NEW bytes, bytes = [i \in 1 .. Len(h[p]) |-> v], NEW s, s = Store(m, p, bytes),
         NEW g, Moved(h, g, p, p, bytes)
  PROVE  Heap(s, B, g)
<1>1. Memory(m) /\ List(m, B) /\ Owned(m, B, h)
  BY DEF Heap
<1>2. PICK k \in Nat : k = Len(h[p])
  BY <1>1, HeldBlock
<1>3. bytes = [i \in 1 .. k |-> v]
  BY <1>2
<1>4. /\ bytes \in [1 .. k -> Int] /\ \A i \in 1 .. k : bytes[i] = v
      /\ \A i \in 1 .. k : bytes[i] \notin {Ptrs, Info} /\ bytes[i] # Info
      /\ bytes \in Seq(Int) /\ Len(bytes) = k
  BY <1>3 DEF Ptrs, Info
<1>5. p \in Nat /\ p + k <= End(m, p - Meta) /\ p + k <= m.top
  <2>1. PICK e \in Nat : e = End(m, p - Meta)
    BY <1>1, HeldBlock
  <2>2. p \in Nat /\ p + k <= e /\ e <= m.top /\ m.top \in Nat
    BY <1>1, <1>2, <2>1, HeldBlock DEF Memory
  <2> QED
    BY <2>1, <2>2
<1>6. g[p] = bytes /\ DOMAIN g = DOMAIN h /\ \A q \in DOMAIN g \ {p} : g[q] = h[q]
  BY DEF Moved
<1>7. Stored(m, s, p, k, bytes)
  BY <1>1, <1>4, <1>5, <1>6, StoreWrites
<1>8. \A i \in 1 .. k : g[p][i] = s.cell[p + i - 1]
  BY <1>6, <1>7 DEF Stored
<1>9. List(s, B) /\ Owned(s, B, g)
  <2>1. /\ g[p] \in Seq(Int) /\ Len(g[p]) = Len(h[p])
        /\ \A i \in 1 .. Len(h[p]) : g[p][i] = s.cell[p + i - 1]
    BY <1>2, <1>4, <1>6, <1>8
  <2> QED
    BY <1>1, <1>4, <1>5, <1>6, <1>7, <2>1, OwnedStored, ZenonT(60)
<1>10. Memory(s)
  BY <1>7 DEF Stored, Overwrote
<1> QED
  BY <1>9, <1>10 DEF Heap

\* What the block p held is still in s, unless the block q, which was taken
\* since, is in the free block that p's has become part of.
Left(m, h, p, s, q) ==
  /\ m.top <= s.top
  /\ q # FreedIn(m, p - Meta) + Meta => \A i \in 1 .. Len(h[p]) : s.cell[p + i - 1] = h[p][i]

\* mm_realloc up to its copy: the caller of p has another block, all zeros.
LEMMA ReallocTakes ==
  ASSUME NEW m, NEW B, NEW h, Heap(m, B, h), NEW p \in DOMAIN h, NEW n \in Nat,
         NEW got, got = Allocated(Freed(m, p), n), got.ptr # NULL,
         NEW g, Moved(h, g, p, got.ptr, Zeros(n))
  PROVE  (\E C : Heap(got.mem, C, g)) /\ Left(m, h, p, got.mem, got.ptr)
<1>1. Memory(m) /\ List(m, B) /\ Owned(m, B, h)
  BY DEF Heap
<1>2. PICK d, b, f : d = p - Meta /\ b = FreedIn(m, d) /\ f = Freed(m, p)
  OBVIOUS
<1>3. PICK h0 : h0 = [q \in DOMAIN h \ {p} |-> h[q]]
  OBVIOUS
<1>4. DOMAIN h0 = DOMAIN h \ {p} /\ \A q \in DOMAIN h0 : h0[q] = h[q]
  BY <1>3
<1>5. PICK F : Heap(f, F, h0) /\ Gave(m, B, f, F, d, b)
  BY <1>2, <1>4, FreeKeeps
<1>6. Memory(f) /\ List(f, F) /\ Owned(f, F, h0)
  BY <1>5 DEF Heap
<1>7. f.cell = m.cell /\ f.top = m.top /\ b \in F /\ b <= d /\ End(m, d) <= End(f, b)
  BY <1>5 DEF Gave
<1>8. PICK a, C : got.ptr = a + Meta /\ Took(f, F, got.mem, C, a, n)
  BY <1>2, <1>6, AllocatedTakes
<1>9. /\ Memory(got.mem) /\ List(got.mem, C) /\ f.top <= got.mem.top
      /\ \A x \in 0 .. f.top - 1 : (a \in F => x \notin a .. End(f, a) - 1)
                                     => got.mem.cell[x] = f.cell[x]
  BY <1>8 DEF Took
<1>10. Owned(got.mem, C, g)
  <2>1. /\ DOMAIN g = DOMAIN h0 \cup {got.ptr} /\ g[got.ptr] = Zeros(n)
        /\ \A q \in DOMAIN h0 : q # got.ptr => g[q] = h0[q]
    BY <1>4 DEF Moved
  <2> QED
    BY <1>6, <1>8, <2>1, OwnedTook
<1>11. ASSUME got.ptr # b + Meta, NEW i \in 1 .. Len(h[p])
       PROVE  got.mem.cell[p + i - 1] = h[p][i]
  <2>1. /\ p \in Nat /\ d \in Nat /\ Len(h[p]) \in Nat /\ p + Len(h[p]) <= End(m, d)
        /\ End(m, d) <= m.top /\ End(m, d) \in Nat /\ d + Meta = p /\ m.top \in Nat
    BY <1>1, <1>2, HeldBlock DEF Memory
  <2>2. PICK x \in Int : x = p + i - 1
    BY <2>1
  <2>3. PICK e \in Nat : e = End(f, b)
    BY <1>6, <1>7, Order
  <2>4. b \in Nat
    BY <1>6, <1>7, Order
  <2>5. x \in 0 .. f.top - 1 /\ x >= p /\ x < End(m, d)
    BY <1>7, <1>11, <2>1, <2>2
  <2>6. d < p
    BY <2>1 DEF Meta
  <2>7. b < x /\ x < e
    BY <1>7, <2>1, <2>2, <2>3, <2>4, <2>5, <2>6, SMTT(60)
  <2>8. ASSUME a \in F PROVE x \notin a .. End(f, a) - 1
    <3>1. a # b
      BY <1>8, <1>11
    <3>2. (a < b => End(f, a) <= b) /\ (b < a => e <= a)
      BY <1>6, <1>7, <2>3, <2>8, Order
    <3>3. a \in Nat /\ End(f, a) \in Nat
      BY <1>6, <2>8, Order
    <3> QED
      BY <2>2, <2>3, <2>4, <2>7, <3>1, <3>2, <3>3
  <2>9. got.mem.cell[x] = f.cell[x]
    BY <1>9, <2>5, <2>8
  <2>10. Holds(m, B, p, h[p])
    BY <1>1 DEF Owned
  <2> QED
    BY <1>7, <1>11, <2>2, <2>9, <2>10 DEF Holds
<1>12. Left(m, h, p, got.mem, got.ptr)
  BY <1>2, <1>7, <1>9, <1>11 DEF Left
<1> QED
  BY <1>9, <1>10, <1>12 DEF Heap

\* The k cells from q on hold no record of a block.
Apart(C, q, k) == \A c \in C : Span(c, Meta) \cap Span(q, k) = {}

\* The copy of mm_realloc, when it stays clear of the records behind it.
LEMMA ReallocStores ==
  ASSUME NEW m, NEW C, NEW h, Heap(m, C, h), NEW q \in DOMAIN h,
         NEW p \in Nat, NEW k \in Nat, p + k <= m.top, q + k <= m.top,
         Apart(C, q, k),
         NEW s, s = Copied(m, q, p, k), NEW g, Moved(h, g, q, q, Bytes(s, q, Len(h[q])))
  PROVE  /\ Heap(s, C, g)
         /\ \A i \in 1 .. k : m.cell[p + i - 1] \notin {Ptrs, Info} =>
              s.cell[q + i - 1] = m.cell[p + i - 1]
<1>1. Memory(m) /\ List(m, C) /\ Owned(m, C, h) /\ m.top \in Nat
  BY DEF Heap, Memory
<1>2. PICK bytes : bytes = [i \in 1 .. k |-> IF m.cell[p + i - 1] \in {Ptrs, Info}
                                              THEN Torn ELSE m.cell[p + i - 1]]
  OBVIOUS
<1>3. ASSUME NEW i \in 1 .. k
      PROVE  /\ bytes[i] \in Int /\ bytes[i] \notin {Ptrs, Info}
             /\ m.cell[p + i - 1] \notin {Ptrs, Info} => bytes[i] = m.cell[p + i - 1]
  <2>1. p + i - 1 \in 0 .. m.top - 1
    BY <1>1
  <2>2. m.cell[p + i - 1] \in Int
    BY <1>1, <2>1 DEF Memory
  <2>3. bytes[i] = IF m.cell[p + i - 1] \in {Ptrs, Info} THEN Torn ELSE m.cell[p + i - 1]
    BY <1>2
  <2>4. CASE m.cell[p + i - 1] \in {Ptrs, Info}
    BY <2>3, <2>4 DEF Ptrs, Info, Torn
  <2>5. CASE m.cell[p + i - 1] \notin {Ptrs, Info}
    BY <2>2, <2>3, <2>5
  <2> QED
    BY <2>4, <2>5
<1>4. bytes \in [1 .. k -> Int] /\ \A i \in 1 .. k : bytes[i] # Info /\ bytes[i] \notin {Ptrs, Info}
  <2>1. DOMAIN bytes = 1 .. k /\ bytes = [i \in 1 .. k |-> bytes[i]]
    BY <1>2
  <2> QED
    BY <1>3, <2>1
<1>5. s = Store(m, q, bytes)
  BY <1>2 DEF Copied
<1>6. PICK a : a = q - Meta
  OBVIOUS
<1>7. /\ q \in Nat /\ a \in C /\ a \in Nat /\ a + Meta = q /\ End(m, a) \in Nat
      /\ Len(h[q]) \in Nat /\ End(m, a) <= m.top
  BY <1>1, <1>6, HeldBlock
<1>8. q + k <= End(m, a)
  <2>1. CASE m.rec[a].next = NULL
    BY <2>1 DEF End
  <2>2. CASE m.rec[a].next # NULL
    <3>1. PICK c \in Nat : c = End(m, a)
      BY <1>7
    <3>2. c \in C /\ a + Meta <= c
      BY <1>1, <1>7, <2>2, <3>1, Order DEF End
    <3>3. c \in Span(c, Meta) /\ c \notin Span(q, k)
      BY <3>1, <3>2 DEF Apart, Span, Meta
    <3> QED
      BY <1>7, <3>1, <3>2, <3>3 DEF Span
  <2> QED
    BY <2>1, <2>2
<1>9. Stored(m, s, q, k, bytes)
  BY <1>1, <1>4, <1>5, <1>7, StoreWrites
<1>10. Memory(s) /\ s.top = m.top /\ \A i \in 1 .. k : s.cell[q + i - 1] = bytes[i]
  BY <1>9 DEF Stored, Overwrote
<1>11. PICK n \in Nat : n = Len(h[q]) /\ q + n <= End(m, a)
  BY <1>1, <1>6, HeldBlock
<1>12. /\ g[q] \in Seq(Int) /\ Len(g[q]) = n
       /\ \A i \in 1 .. n : g[q][i] = s.cell[q + i - 1]
  <2>1. g[q] = [i \in 1 .. n |-> s.cell[q + i - 1]]
    BY <1>11 DEF Bytes, Moved
  <2>2. ASSUME NEW i \in 1 .. n PROVE s.cell[q + i - 1] \in Int
    <3>1. q + i - 1 \in 0 .. s.top - 1
      BY <1>1, <1>7, <1>10, <1>11, SMTT(60)
    <3> QED
      BY <1>10, <3>1 DEF Memory
  <2> QED
    BY <2>1, <2>2
<1>13. List(s, C) /\ Owned(s, C, g)
  <2>1. DOMAIN g = DOMAIN h /\ \A r \in DOMAIN g \ {q} : g[r] = h[r]
    BY DEF Moved
  <2> QED
    BY <1>1, <1>4, <1>6, <1>8, <1>9, <1>11, <1>12, <2>1, OwnedStored
<1> QED
  BY <1>3, <1>10, <1>13 DEF Heap

\* What the block p held is now in the block q, with the same exception.
Came(m, h, p, s, q) ==
  q # FreedIn(m, p - Meta) + Meta => \A i \in 1 .. Len(h[p]) : s.cell[q + i - 1] = h[p][i]

\* The two parts of mm_realloc, for a block that moves and a copy that stays
\* clear of the records behind it.
LEMMA ReallocKeepsHeap ==
  ASSUME NEW m, NEW B, NEW h, Heap(m, B, h), NEW p \in DOMAIN h, NEW n \in Nat,
         NEW got, got = Allocated(Freed(m, p), n), got.ptr # NULL,
         NEW k, k = m.rec[p - Meta].size, got.ptr + k <= got.mem.top,
         Apart(Blocks(got.mem), got.ptr, k),
         NEW s, s = Copied(got.mem, got.ptr, p, k),
         NEW g, Moved(h, g, p, got.ptr, Bytes(s, got.ptr, n))
  PROVE  (\E C : Heap(s, C, g)) /\ Came(m, h, p, s, got.ptr)
<1>1. Memory(m) /\ List(m, B) /\ Owned(m, B, h) /\ m.top \in Nat
  BY DEF Heap, Memory
<1>2. PICK z : z = [q \in (DOMAIN h \ {p}) \cup {got.ptr} |->
                      IF q = got.ptr THEN Zeros(n) ELSE h[q]]
  OBVIOUS
<1>3. Moved(h, z, p, got.ptr, Zeros(n))
  BY <1>2 DEF Moved
<1>4. PICK C : Heap(got.mem, C, z)
  BY <1>3, ReallocTakes
<1>5. /\ m.top <= got.mem.top
      /\ got.ptr # FreedIn(m, p - Meta) + Meta =>
           \A i \in 1 .. Len(h[p]) : got.mem.cell[p + i - 1] = h[p][i]
  <2>1. Left(m, h, p, got.mem, got.ptr)
    BY <1>3, ReallocTakes
  <2> QED
    BY <2>1 DEF Left
<1>6. p \in Nat /\ k \in Nat /\ k = Len(h[p]) /\ p + k <= got.mem.top
  <2>1. PICK e \in Nat : e = End(m, p - Meta)
    BY <1>1, HeldBlock
  <2>2. PICK l \in Nat : l = Len(h[p])
    BY <1>1, HeldBlock
  <2>3. p \in Nat /\ k = l /\ p + l <= e /\ e <= m.top
    BY <1>1, <2>1, <2>2, HeldBlock
  <2>4. got.mem.top \in Nat
    BY <1>4 DEF Heap, Memory
  <2> QED
    BY <1>1, <1>5, <2>2, <2>3, <2>4
<1>7. Blocks(got.mem) = C
  BY <1>4, ListIsBlocks DEF Heap
<1>8. Len(z[got.ptr]) = n
  BY <1>3 DEF Zeros, Moved
<1>9. got.ptr \in DOMAIN z /\ Moved(z, g, got.ptr, got.ptr, Bytes(s, got.ptr, Len(z[got.ptr])))
  BY <1>3, <1>8 DEF Moved
<1>10. /\ Heap(s, C, g)
       /\ \A i \in 1 .. k : got.mem.cell[p + i - 1] \notin {Ptrs, Info} =>
            s.cell[got.ptr + i - 1] = got.mem.cell[p + i - 1]
  BY <1>4, <1>6, <1>7, <1>8, <1>9, ReallocStores, SMTT(60)
<1>11. \A i \in 1 .. k : h[p][i] \notin {Ptrs, Info}
  BY <1>1, <1>6 DEF Owned, Holds
<1>12. Came(m, h, p, s, got.ptr)
  BY <1>5, <1>6, <1>10, <1>11 DEF Came
<1> QED
  BY <1>10, <1>12

------------------------------------------------------------------------------
(* The invariant holds.                                                     *)

\* It is enough to name the list that a call leaves.
LEMMA InvByList ==
  ASSUME ~wild' => \E C : Heap(mem', C, held')
  PROVE  HeapInv'
<1> SUFFICES ASSUME ~wild' PROVE Heap(mem', Blocks(mem'), held')
  BY DEF HeapInv
<1>1. PICK C : Heap(mem', C, held')
  OBVIOUS
<1>2. Blocks(mem') = C
  BY <1>1, ListIsBlocks DEF Heap
<1> QED
  BY <1>1, <1>2

LEMMA InitInv == Init => HeapInv
<1> SUFFICES ASSUME Init PROVE Heap(mem, Blocks(mem), held)
  BY DEF HeapInv
<1>1. PICK e : e = <<>>
  OBVIOUS
<1>2. mem = [cell |-> e, rec |-> e, top |-> 0] /\ held = e
  BY <1>1 DEF Init
<1>3. DOMAIN e = {} /\ e \in [{} -> Int]
  BY <1>1
<1>4. Memory(mem)
  <2>1. mem.cell = e /\ mem.rec = e /\ mem.top = 0
    BY <1>2
  <2>2. 0 .. 0 - 1 = {} /\ 0 .. 0 - 2 = {}
    OBVIOUS
  <2> QED
    BY <1>2, <1>3, <2>1, <2>2 DEF Memory
<1>5. List(mem, {})
  BY <1>2 DEF List
<1>6. Owned(mem, {}, held)
  BY <1>2, <1>3 DEF Owned
<1>7. Blocks(mem) = {}
  BY <1>4, <1>5, ListIsBlocks
<1> QED
  BY <1>4, <1>5, <1>6, <1>7 DEF Heap

LEMMA MallocInv ==
  ASSUME HeapInv, MMAllocAssumption, NEW n \in 0 .. MaxSize, Malloc(n)
  PROVE  HeapInv'
<1> PICK got : got = Allocated(mem, n)
  OBVIOUS
<1>1. n \in Nat
  BY DEF MMAllocAssumption
<1>2. Heap(mem, Blocks(mem), held) /\ mem' = got.mem
  BY DEF HeapInv, Malloc
<1>3. got.ptr = NULL => held' = held
  BY DEF Malloc
<1>4. got.ptr # NULL => held' = Hold(got.ptr, Zeros(n))
  BY DEF Malloc
<1>5. got.ptr # NULL => /\ DOMAIN held' = DOMAIN held \cup {got.ptr} /\ held'[got.ptr] = Zeros(n)
                        /\ \A q \in DOMAIN held : q # got.ptr => held'[q] = held[q]
  BY <1>4 DEF Hold
<1>6. \E C : Heap(got.mem, C, held')
  BY <1>1, <1>2, <1>3, <1>5, MallocKeeps
<1> QED
  BY <1>2, <1>6, InvByList

LEMMA FreeInv ==
  ASSUME HeapInv, NEW p \in DOMAIN held, Free(p)
  PROVE  HeapInv'
<1> SUFFICES ASSUME ~wild' PROVE \E C : Heap(mem', C, held')
  BY InvByList
<1>1. Heap(mem, Blocks(mem), held) /\ mem' = Freed(mem, p)
  BY DEF HeapInv, Free
<1>2. DOMAIN held' = DOMAIN held \ {p} /\ \A q \in DOMAIN held' : held'[q] = held[q]
  BY DEF Free, Drop
<1> QED
  BY <1>1, <1>2, FreeKeeps

LEMMA WriteInv ==
  ASSUME HeapInv, MMAllocAssumption, NEW p \in DOMAIN held, NEW v \in Values, Write(p, v)
  PROVE  HeapInv'
<1>1. v \in Nat
  BY DEF MMAllocAssumption
<1>2. /\ Heap(mem, Blocks(mem), held)
      /\ mem' = Store(mem, p, [i \in 1 .. Len(held[p]) |-> v])
      /\ held' = Hold(p, [i \in 1 .. Len(held[p]) |-> v])
  BY DEF HeapInv, Write
<1>3. PICK bytes : bytes = [i \in 1 .. Len(held[p]) |-> v]
  OBVIOUS
<1>4. mem' = Store(mem, p, bytes) /\ held' = Hold(p, bytes)
  BY <1>2, <1>3
<1>5. Moved(held, held', p, p, bytes)
  BY <1>4 DEF Hold, Moved
<1>6. Heap(mem', Blocks(mem), held')
  BY <1>1, <1>2, <1>3, <1>4, <1>5, WriteKeeps
<1> QED
  BY <1>6, InvByList

\* What mm_realloc leaves: its caller holds another block, or none.
LEMMA ReallocStep ==
  ASSUME HeapInv, NEW p \in DOMAIN held, NEW n \in 1 .. MaxSize, MMAllocAssumption, Realloc(p, n),
         ~wild', NEW got, got = Allocated(Freed(mem, p), n),
         NEW k, k = mem.rec[p - Meta].size
  PROVE  /\ Heap(mem, Blocks(mem), held) /\ n \in Nat
         /\ got.ptr = NULL => mem' = got.mem /\ held' = Drop(p)
         /\ got.ptr # NULL => Moved(held, held', p, got.ptr, Bytes(mem', got.ptr, n))
         /\ got.ptr = p => mem' = got.mem
         /\ got.ptr # NULL /\ got.ptr # p =>
              /\ mem' = Copied(got.mem, got.ptr, p, k) /\ got.ptr + k <= got.mem.top
              /\ Apart(Blocks(got.mem), got.ptr, k)
<1>1. Heap(mem, Blocks(mem), held) /\ n \in Nat
  BY DEF HeapInv, Realloc, MMAllocAssumption
<1>2. got.ptr = NULL => mem' = got.mem /\ held' = Drop(p)
  BY DEF Realloc
<1>3. got.ptr # NULL => held' = [q \in (DOMAIN held \ {p}) \cup {got.ptr} |->
                                  IF q = got.ptr THEN Bytes(mem', q, n) ELSE held[q]]
  BY DEF Realloc
<1>4. got.ptr # NULL => Moved(held, held', p, got.ptr, Bytes(mem', got.ptr, n))
  BY <1>3 DEF Moved
<1>5. got.ptr = p => mem' = got.mem
  BY DEF Realloc
<1>6. ASSUME got.ptr # NULL, got.ptr # p
      PROVE  /\ mem' = Copied(got.mem, got.ptr, p, k) /\ ~(got.ptr + k > got.mem.top)
             /\ Apart(Blocks(got.mem), got.ptr, k)
  BY <1>6 DEF Realloc, Apart
<1>7. ASSUME got.ptr # NULL, got.ptr # p
      PROVE  got.ptr + k <= got.mem.top
  <2>1. PICK z : z = [q \in (DOMAIN held \ {p}) \cup {got.ptr} |->
                        IF q = got.ptr THEN Zeros(n) ELSE held[q]]
    OBVIOUS
  <2>2. Moved(held, z, p, got.ptr, Zeros(n))
    BY <2>1 DEF Moved
  <2>3. PICK C : Heap(got.mem, C, z)
    BY <1>1, <1>7, <2>2, ReallocTakes
  <2>4. got.ptr \in Nat /\ got.mem.top \in Nat
    BY <2>2, <2>3 DEF Heap, Owned, Memory, Moved
  <2>5. k \in Nat
    BY <1>1, HeldBlock DEF Heap
  <2> QED
    BY <1>6, <1>7, <2>4, <2>5
<1> QED
  BY <1>1, <1>2, <1>4, <1>5, <1>6, <1>7

LEMMA ReallocInv ==
  ASSUME HeapInv, MMAllocAssumption, NEW p \in DOMAIN held, NEW n \in 1 .. MaxSize, Realloc(p, n)
  PROVE  HeapInv'
<1> SUFFICES ASSUME ~wild' PROVE \E C : Heap(mem', C, held')
  BY InvByList
<1> PICK got : got = Allocated(Freed(mem, p), n)
  OBVIOUS
<1> PICK k : k = mem.rec[p - Meta].size
  OBVIOUS
<1>1. /\ Heap(mem, Blocks(mem), held) /\ n \in Nat
      /\ got.ptr = NULL => mem' = got.mem /\ held' = Drop(p)
      /\ got.ptr # NULL => Moved(held, held', p, got.ptr, Bytes(mem', got.ptr, n))
      /\ got.ptr = p => mem' = got.mem
      /\ got.ptr # NULL /\ got.ptr # p =>
           /\ mem' = Copied(got.mem, got.ptr, p, k) /\ got.ptr + k <= got.mem.top
           /\ Apart(Blocks(got.mem), got.ptr, k)
  BY ReallocStep
<1>2. CASE got.ptr = NULL
  <2>1. PICK f : f = Freed(mem, p)
    OBVIOUS
  <2>2. DOMAIN held' = DOMAIN held \ {p} /\ \A q \in DOMAIN held' : held'[q] = held[q]
    BY <1>1, <1>2 DEF Drop
  <2>3. PICK C : Heap(f, C, held')
    BY <1>1, <2>1, <2>2, FreeKeeps
  <2>4. got.mem = f
    BY <1>1, <1>2, <2>1, <2>3, AllocatedNot DEF Heap
  <2> QED
    BY <1>1, <1>2, <2>3, <2>4
<1>3. CASE got.ptr # NULL /\ got.ptr = p
  <2>1. PICK z : z = [q \in (DOMAIN held \ {p}) \cup {got.ptr} |->
                        IF q = got.ptr THEN Zeros(n) ELSE held[q]]
    OBVIOUS
  <2>2. Moved(held, z, p, got.ptr, Zeros(n))
    BY <2>1 DEF Moved
  <2>3. PICK C : Heap(got.mem, C, z)
    BY <1>1, <1>3, <2>2, ReallocTakes
  <2>4. got.ptr \in DOMAIN z /\ z[got.ptr] = Zeros(n)
    BY <2>2 DEF Moved
  <2>5. Holds(got.mem, C, got.ptr, Zeros(n))
    BY <2>3, <2>4 DEF Heap, Owned
  <2>6. Bytes(got.mem, got.ptr, n) = Zeros(n)
    <3>1. Len(Zeros(n)) = n /\ \A i \in 1 .. n : Zeros(n)[i] = 0
      BY <1>1 DEF Zeros
    <3>2. \A i \in 1 .. n : got.mem.cell[got.ptr + i - 1] = 0
      BY <2>5, <3>1 DEF Holds
    <3> QED
      BY <3>2 DEF Bytes, Zeros
  <2>7. Moved(held, held', p, got.ptr, Zeros(n))
    BY <1>1, <1>3, <2>6
  <2> QED
    BY <1>1, <1>3, <2>7, ReallocTakes
<1>4. CASE got.ptr # NULL /\ got.ptr # p
  <2>1. /\ Moved(held, held', p, got.ptr, Bytes(mem', got.ptr, n))
        /\ mem' = Copied(got.mem, got.ptr, p, k) /\ got.ptr + k <= got.mem.top
        /\ Apart(Blocks(got.mem), got.ptr, k)
    BY <1>1, <1>4
  <2> QED
    BY <1>1, <1>4, <2>1, ReallocKeepsHeap
<1> QED
  BY <1>2, <1>3, <1>4

LEMMA NextInv == MMAllocAssumption /\ HeapInv /\ [Next]_vars => HeapInv'
<1> SUFFICES ASSUME MMAllocAssumption, HeapInv, [Next]_vars
             PROVE  HeapInv'
  OBVIOUS
<1>1. ASSUME NEW n \in 0 .. MaxSize, Malloc(n) PROVE HeapInv'
  BY <1>1, MallocInv
<1>2. ASSUME NEW p \in DOMAIN held, Free(p) PROVE HeapInv'
  BY <1>2, FreeInv
<1>3. ASSUME NEW p \in DOMAIN held, NEW n \in 1 .. MaxSize, Realloc(p, n) PROVE HeapInv'
  BY <1>3, ReallocInv
<1>4. ASSUME NEW p \in DOMAIN held, NEW v \in Values, Write(p, v) PROVE HeapInv'
  BY <1>4, WriteInv
<1>5. CASE UNCHANGED vars
  BY <1>5 DEF HeapInv, vars, Blocks
<1> QED
  BY <1>1, <1>2, <1>3, <1>4, <1>5 DEF Next

\* In every state of every heap: the blocks that mm_malloc's search walks are
\* linked, hold what callers hold, and no prev leads to a stale free mark.
THEOREM HeapInvariant == Spec => []HeapInv
<1>1. Init => HeapInv
  BY InitInv
<1>2. HeapInv /\ [Next]_vars => HeapInv'
  BY MMAllocAssumption, NextInv
<1> QED
  BY <1>1, <1>2, PTL DEF Spec

LEMMA InvHeapOK == HeapInv => HeapOK
<1> SUFFICES ASSUME HeapInv, ~wild,
                    NEW B, B = Blocks(mem)
             PROVE  BlocksOK(B) /\ UsedHeld(B) /\ PrevOK(B)
  BY DEF HeapOK
<1>1. Memory(mem) /\ List(mem, B) /\ Owned(mem, B, held)
  BY DEF HeapInv, Heap
<1>2. BlocksOK(B)
  BY <1>1 DEF BlocksOK, List, Owned
<1>3. UsedHeld(B)
  BY <1>1 DEF UsedHeld, Owned, Holds
<1>4. ASSUME NEW a \in B, NEW b \in B, mem.rec[a].next = b
      PROVE  mem.rec[b].prev \in a .. b - Meta
  <2>1. a \in Nat /\ b \in Nat /\ a + Meta <= End(mem, a) /\ b # NULL
    BY <1>1, Order DEF NULL
  <2>2. Behind(mem, a, b) /\ End(mem, a) = b
    BY <1>1, <1>4, <2>1 DEF List, End
  <2> QED
    BY <2>1, <2>2 DEF Behind, Meta
<1>5. PrevOK(B)
  BY <1>4 DEF PrevOK
<1> QED
  BY <1>2, <1>3, <1>5

\* After any calls of mm_malloc, mm_free and mm_realloc the list is a partition
\* of the heap into free blocks and those that callers hold.
THEOREM HeapSafe == Spec => []HeapOK
BY HeapInvariant, InvHeapOK, PTL

LEMMA InvContentsKept == HeapInv => ContentsKept
<1> SUFFICES ASSUME HeapInv, ~wild, NEW p \in DOMAIN held
             PROVE  Bytes(mem, p, Len(held[p])) = held[p]
  BY DEF ContentsKept
<1>1. Holds(mem, Blocks(mem), p, held[p])
  BY DEF HeapInv, Heap, Owned
<1>2. held[p] \in Seq(Int) /\ \A i \in 1 .. Len(held[p]) : mem.cell[p + i - 1] = held[p][i]
  BY <1>1 DEF Holds
<1>3. held[p] = [i \in 1 .. Len(held[p]) |-> held[p][i]]
  BY <1>2
<1> QED
  BY <1>2, <1>3 DEF Bytes

\* No call of one caller changes a byte that another caller holds.
THEOREM HeldKept == Spec => []ContentsKept
BY HeapInvariant, InvContentsKept, PTL

\* The bytes that mm_realloc copies are those that its caller had.
LEMMA SamePrefix ==
  ASSUME NEW s \in Seq(Int), NEW t \in Seq(Int),
         \A i \in 1 .. Len(s) : i <= Len(t) => s[i] = t[i],
         NEW n, n = Min({Len(t), Len(s)})
  PROVE  SubSeq(s, 1, n) = SubSeq(t, 1, n)
<1>1. n \in {Len(t), Len(s)} /\ n <= Len(t) /\ n <= Len(s)
  <2>1. {Len(t), Len(s)} \in SUBSET Nat /\ {Len(t), Len(s)} # {}
    OBVIOUS
  <2> QED
    BY <2>1, Least
<1>2. n \in Nat
  BY <1>1
<1>3. \A u \in Seq(Int) : n <= Len(u) => SubSeq(u, 1, n) = [i \in 1 .. n |-> u[i]]
  BY <1>2, SubSeqProperties
<1>4. ASSUME NEW i \in 1 .. n PROVE s[i] = t[i]
  <2>1. i \in 1 .. Len(s) /\ i <= Len(t)
    BY <1>1, <1>2
  <2> QED
    BY <2>1
<1>5. [i \in 1 .. n |-> s[i]] = [i \in 1 .. n |-> t[i]]
  BY <1>4, Zenon
<1>6. n <= Len(s) /\ n <= Len(t)
  BY <1>1
<1> QED
  BY <1>3, <1>5, <1>6, ZenonT(60)

\* One call of mm_realloc takes the bytes along.
Carried(p, q) ==
  LET n == Min({Len(held[p]), Len(held'[q])})
  IN  q # FreedIn(mem, p - Meta) + Meta => SubSeq(held'[q], 1, n) = SubSeq(held[p], 1, n)

LEMMA ReallocCarries ==
  ASSUME HeapInv, MMAllocAssumption, NEW r \in DOMAIN held, NEW l \in 1 .. MaxSize, Realloc(r, l),
         NEW p \in DOMAIN held \ DOMAIN held', NEW q \in DOMAIN held' \ DOMAIN held
  PROVE  Carried(p, q)
<1> PICK got : got = Allocated(Freed(mem, r), l)
  OBVIOUS
<1> PICK k : k = mem.rec[r - Meta].size
  OBVIOUS
<1>1. ~wild' /\ got.ptr # NULL
  <2>1. wild' \/ got.ptr = NULL => held' = Drop(r)
    BY DEF Realloc
  <2>2. DOMAIN Drop(r) \subseteq DOMAIN held
    BY DEF Drop
  <2> QED
    BY <2>1, <2>2 DEF Realloc
<1>2. /\ Heap(mem, Blocks(mem), held) /\ l \in Nat
      /\ Moved(held, held', r, got.ptr, Bytes(mem', got.ptr, l))
      /\ got.ptr # NULL /\ got.ptr # r =>
           /\ mem' = Copied(got.mem, got.ptr, r, k) /\ got.ptr + k <= got.mem.top
           /\ Apart(Blocks(got.mem), got.ptr, k)
  BY <1>1, ReallocStep
<1>3. p = r /\ q = got.ptr /\ q # p /\ held'[q] = Bytes(mem', q, l)
  BY <1>2 DEF Moved
<1>4. Came(mem, held, p, mem', q)
  BY <1>1, <1>2, <1>3, ReallocKeepsHeap
<1>5. HeapInv'
  BY ReallocInv
<1>6. held'[q] \in Seq(Int) /\ held[p] \in Seq(Int)
  BY <1>1, <1>2, <1>5 DEF HeapInv, Heap, Owned, Holds
<1>7. Len(held'[q]) = l /\ \A i \in 1 .. l : held'[q][i] = mem'.cell[q + i - 1]
  BY <1>2, <1>3 DEF Bytes
<1>8. ASSUME q # FreedIn(mem, p - Meta) + Meta,
             NEW n, n = Min({Len(held[p]), Len(held'[q])})
      PROVE  SubSeq(held'[q], 1, n) = SubSeq(held[p], 1, n)
  <2>1. PICK s \in Seq(Int) : s = held'[q]
    BY <1>6
  <2>2. PICK t \in Seq(Int) : t = held[p]
    BY <1>6
  <2>3. ASSUME NEW i \in 1 .. Len(s), i <= Len(t) PROVE s[i] = t[i]
    <3>1. i \in 1 .. l /\ i \in 1 .. Len(t)
      BY <1>7, <2>1, <2>3
    <3>2. s[i] = mem'.cell[q + i - 1]
      BY <1>7, <2>1, <3>1
    <3>3. \A j \in 1 .. Len(t) : mem'.cell[q + j - 1] = t[j]
      BY <1>4, <1>8, <2>2 DEF Came
    <3> QED
      BY <3>1, <3>2, <3>3
  <2>4. n = Min({Len(t), Len(s)})
    BY <1>8, <2>1, <2>2
  <2> QED
    BY <2>1, <2>2, <2>3, <2>4, SamePrefix
<1> QED
  BY <1>8 DEF Carried

LEMMA NextCarries ==
  ASSUME HeapInv, MMAllocAssumption, [Next]_vars,
         NEW p \in DOMAIN held \ DOMAIN held', NEW q \in DOMAIN held' \ DOMAIN held
  PROVE  Carried(p, q)
<1>1. ASSUME NEW n \in 0 .. MaxSize, Malloc(n) PROVE FALSE
  <2>1. DOMAIN held \subseteq DOMAIN held'
    BY <1>1 DEF Malloc, Hold
  <2> QED
    BY <2>1
<1>2. ASSUME NEW r \in DOMAIN held, Free(r) PROVE FALSE
  <2>1. DOMAIN held' \subseteq DOMAIN held
    BY <1>2 DEF Free, Drop
  <2> QED
    BY <2>1
<1>3. ASSUME NEW r \in DOMAIN held, NEW n \in 1 .. MaxSize, Realloc(r, n) PROVE Carried(p, q)
  BY <1>3, ReallocCarries
<1>4. ASSUME NEW r \in DOMAIN held, NEW v \in Values, Write(r, v) PROVE FALSE
  <2>1. DOMAIN held' = DOMAIN held
    BY <1>4 DEF Write, Hold
  <2> QED
    BY <2>1
<1>5. CASE UNCHANGED vars
  BY <1>5 DEF vars
<1> QED
  BY <1>1, <1>2, <1>3, <1>4, <1>5 DEF Next

\* A block that mm_realloc moves takes its bytes along, however much of the
\* old block mm_malloc has cleared or split meanwhile, but for the one case
\* that the property names.
THEOREM ReallocCopies == Spec => ReallocKeeps
<1> DEFINE A == \A p \in DOMAIN held \ DOMAIN held', q \in DOMAIN held' \ DOMAIN held : Carried(p, q)
<1>1. HeapInv /\ [Next]_vars => A
  BY MMAllocAssumption, NextCarries
<1>2. A => [\A p \in DOMAIN held \ DOMAIN held', q \in DOMAIN held' \ DOMAIN held :
              LET n == Min({Len(held[p]), Len(held'[q])})
              IN  q # FreedIn(mem, p - Meta) + Meta
                    => SubSeq(held'[q], 1, n) = SubSeq(held[p], 1, n)]_vars
  BY DEF Carried
<1> QED
  BY <1>1, <1>2, HeapInvariant, PTL DEF Spec, ReallocKeeps
================================================================================
