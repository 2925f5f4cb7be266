------------------------------- MODULE MMAlloc -------------------------------
(****************************************************************************)
(* malloc-master/mm_alloc.c: a first-fit heap over a doubly linked list of  *)
(* blocks.  The heap is what sbrk has handed out, an array of cells; the    *)
(* list's records lie in it, each before the bytes it describes, and so do  *)
(* the records of blocks that were merged away.                             *)
(*                                                                          *)
(* One action per call.  A call is computed on the memory as a value, so    *)
(* that mm_realloc is mm_free, then mm_malloc, then a copy.                 *)
(****************************************************************************)
EXTENDS Integers, SequencesExt

CONSTANTS HeapMax,   \* bound: cells the process may get from sbrk
          MaxSize,   \* bound: cells of a request
          Values     \* what a caller writes; never zero

\* A record takes two cells: the pointers, then the free mark and the size.
Meta == 2

ASSUME MMAllocAssumption ==
  /\ HeapMax \in Nat /\ MaxSize \in Nat
  /\ 0 \notin Values /\ Values \subseteq Nat

VARIABLES
  mem,   \* [cell, rec, top]: the cells, the records read by their second cell,
         \* and the end of the heap
  held,  \* history: the pointers callers hold, each with the cells it gave
  wild   \* history: a record was taken from, or lost to, a caller's bytes

vars == <<mem, held, wild>>

NULL == -1
Ptrs == -2   \* a cell with prev and next
Info == -3   \* a cell with free and size
Torn == -4   \* a copy of either, where no record is

Record(prev, next, free, size) == [prev |-> prev, next |-> next, free |-> free, size |-> size]

------------------------------------------------------------------------------
(* Memory.                                                                  *)

Span(a, n) == a .. a + n - 1
Bytes(m, p, n) == [i \in 1 .. n |-> m.cell[p + i - 1]]

\* The records whose second cell is still theirs.
Kept(m, cell) == [a \in {b \in DOMAIN m.rec : cell[b + 1] = Info} |-> m.rec[a]]

\* A store of bytes at p: memset, memcpy, or the caller.
Store(m, p, bytes) ==
  LET cell == [a \in DOMAIN m.cell |->
                 IF a \in Span(p, Len(bytes)) THEN bytes[a - p + 1] ELSE m.cell[a]]
  IN  [m EXCEPT !.cell = cell, !.rec = Kept(m, cell)]

Zeros(n) == [i \in 1 .. n |-> 0]
Clear(m, a, n) == Store(m, a + Meta, Zeros(n))

PutRecord(m, a, r) ==
  LET s == Store(m, a, <<Ptrs, Info>>)
  IN  [s EXCEPT !.rec = [b \in DOMAIN s.rec \cup {a} |-> IF b = a THEN r ELSE s.rec[b]]]

\* Assignments to the fields of a record, which leave its cells as marked.
SetRecord(m, a, r) == [m EXCEPT !.rec[a] = r]
SetNext(m, a, next) == IF a = NULL THEN m ELSE [m EXCEPT !.rec[a].next = next]
SetPrev(m, a, prev) == IF a = NULL THEN m ELSE [m EXCEPT !.rec[a].prev = prev]

\* sbrk: the new cells are zero, and follow the old ones.
Sbrk(m, n) ==
  [m EXCEPT !.cell = [a \in Span(0, m.top + n) |-> IF a < m.top THEN m.cell[a] ELSE 0],
            !.top = @ + n]

\* The blocks of the list, which starts at startOfMem: those that are in every
\* set with the first block and with the next of each of its blocks.
Blocks(m) ==
  {a \in DOMAIN m.rec :
     \A S \in SUBSET DOMAIN m.rec :
       0 \in S /\ (\A b \in S : m.rec[b].next \in S \cup {NULL}) => a \in S}

------------------------------------------------------------------------------
(* mm_malloc.                                                               *)

\* Blocks that the search stops at: free, and large enough or the last.
Fits(m, n) == {a \in Blocks(m) :
                 m.rec[a].free /\ (m.rec[a].next = NULL \/ m.rec[a].size >= n)}

Result(m, p) == [mem |-> m, ptr |-> p]

\* The last block that the loop came to, if there is any.
LastMet(m) == IF m.top = 0 THEN NULL ELSE CHOOSE a \in Blocks(m) : m.rec[a].next = NULL

\* A new block at the end of the heap.
Extend(m, n) ==
  IF m.top + Meta + n > HeapMax THEN Result(m, NULL)
  ELSE LET last == LastMet(m)
           linked == SetNext(Sbrk(m, Meta + n), last, m.top)
       IN  Result(PutRecord(linked, m.top, Record(last, NULL, FALSE, n)), m.top + Meta)

\* The block a, free so far, with n cells for the caller.
Taken(m, a, next, n) ==
  Clear(SetRecord(m, a, Record(m.rec[a].prev, next, FALSE, n)), a, n)

\* The last block is free: it grows, is split, or keeps what is left unused.
TakeLast(m, a, n) ==
  LET size == m.rec[a].size
      rest == a + Meta + n
      split == PutRecord(m, rest, Record(a, NULL, TRUE, size - n - Meta))
  IN  IF size < n /\ m.top + (n - size) > HeapMax THEN Result(m, NULL)
      ELSE Result(IF size < n THEN Taken(Sbrk(m, n - size), a, NULL, n)
                  ELSE IF size >= n + Meta THEN Taken(split, a, rest, n)
                  ELSE Taken(m, a, NULL, n),
                  a + Meta)

\* Mutant: the block after a split one still points past the new block.
TakeMiddleUntold(m, a, n) ==
  LET next == m.rec[a].next
      rest == a + Meta + n
      taken == Taken(m, a, next, n)
      split == PutRecord(SetNext(taken, a, rest), rest,
                         Record(a, next, TRUE, next - rest - Meta))
  IN  Result(IF next - a - Meta >= n + Meta THEN split ELSE taken, a + Meta)

\* Another free block is taken, and split if a record fits behind the request.
TakeMiddle(m, a, n) ==
  LET next == m.rec[a].next
      rest == a + Meta + n
      taken == Taken(m, a, next, n)
      split == PutRecord(SetNext(taken, a, rest), rest,
                         Record(a, next, TRUE, next - rest - Meta))
  IN  Result(IF next - a - Meta >= n + Meta THEN SetPrev(split, next, rest) ELSE taken,
             a + Meta)

Allocated(m, n) ==
  LET fits == Fits(m, n)
      a == Min(fits)
  IN  IF n = 0 THEN Result(m, NULL)
      ELSE IF fits = {} THEN Extend(m, n)
      ELSE IF m.rec[a].next = NULL THEN TakeLast(m, a, n)
      ELSE TakeMiddle(m, a, n)

------------------------------------------------------------------------------
(* mm_free.                                                                 *)

\* The free mark that mm_free finds behind a block's prev.  Where a record of
\* a merged block was, it may find zeros or a caller's bytes.
Mark(m, a) == m.cell[a + 1]

\* Mutant: the block before is merged with, free or not.
ReadsFreeAlways(m, a) == a # NULL /\ Mark(m, a) = Info

ReadsFree(m, a) == a # NULL /\ Mark(m, a) = Info /\ m.rec[a].free

ReadsForeign(m, p) ==
  LET prev == m.rec[p - Meta].prev
  IN  prev # NULL /\ Mark(m, prev) \notin {Info, 0}

\* Merged into the block before it, whose successor keeps its prev.
MergeBack(m, d) ==
  LET q == m.rec[d].prev
  IN  IF ReadsFree(m, q)
      THEN SetRecord(m, q, Record(m.rec[q].prev, m.rec[d].next, m.rec[q].free,
                                  m.rec[q].size + m.rec[d].size + Meta))
      ELSE m

\* The block after it merged in; here the successor is told.
MergeForward(m, d) ==
  LET n == m.rec[d].next
      merged == SetRecord(m, d, Record(m.rec[d].prev, m.rec[n].next, m.rec[d].free,
                                       m.rec[d].size + m.rec[n].size + Meta))
  IN  IF n # NULL /\ m.rec[n].free THEN SetPrev(merged, m.rec[n].next, d) ELSE m

SetFree(m, a) == [m EXCEPT !.rec[a].free = TRUE]

\* The block that a block is part of once it is free.
FreedIn(m, d) == IF ReadsFree(m, m.rec[d].prev) THEN m.rec[d].prev ELSE d

Freed(m, p) ==
  LET d == p - Meta
      b == FreedIn(m, d)
  IN  SetFree(MergeForward(MergeBack(m, d), b), b)

------------------------------------------------------------------------------
(* The calls.                                                               *)

Init ==
  /\ mem = [cell |-> <<>>, rec |-> <<>>, top |-> 0]
  /\ held = <<>> /\ wild = FALSE

Hold(p, bytes) == [q \in DOMAIN held \cup {p} |-> IF q = p THEN bytes ELSE held[q]]
Drop(p) == [q \in DOMAIN held \ {p} |-> held[q]]

\* mm_malloc, and mm_realloc of NULL.
Malloc(n) ==
  LET got == Allocated(mem, n)
  IN  /\ ~wild
      /\ mem' = got.mem
      /\ held' = IF got.ptr = NULL THEN held ELSE Hold(got.ptr, Zeros(n))
      /\ wild' = wild

\* mm_free, and mm_realloc to size 0.  What happens when the mark read is a
\* caller's byte is anybody's guess: the model ends there.
Free(p) ==
  /\ ~wild
  /\ wild' = ReadsForeign(mem, p)
  /\ mem' = IF wild' THEN mem ELSE Freed(mem, p)
  /\ held' = Drop(p)

\* Mutant: the new block is returned without the copy.
CopiedNot(m, dest, p, n) == m

\* The copy takes as many cells as the old block had.
Copied(m, dest, p, n) ==
  Store(m, dest, [i \in 1 .. n |-> IF m.cell[p + i - 1] \in {Ptrs, Info}
                                  THEN Torn ELSE m.cell[p + i - 1]])

\* mm_realloc: the old block is freed, a new one taken and cleared, and then
\* the old bytes copied.  The copy may run over what follows the new block.
Realloc(p, n) ==
  LET old == mem.rec[p - Meta].size
      got == Allocated(Freed(mem, p), n)
      copied == Copied(got.mem, got.ptr, p, old)
      moved == got.ptr # NULL /\ got.ptr # p
  IN  /\ ~wild
      /\ wild' = \/ ReadsForeign(mem, p)
                 \/ moved /\ got.ptr + old > got.mem.top
                 \/ moved /\ \E a \in Blocks(got.mem) :
                               Span(a, Meta) \cap Span(got.ptr, old) # {}
      /\ mem' = IF wild' THEN mem ELSE IF moved THEN copied ELSE got.mem
      /\ held' = IF wild' \/ got.ptr = NULL THEN Drop(p)
                 ELSE [q \in (DOMAIN held \ {p}) \cup {got.ptr} |->
                         IF q = got.ptr THEN Bytes(mem', q, n) ELSE held[q]]

\* A caller writes the cells it was given.
Write(p, v) ==
  /\ ~wild
  /\ mem' = Store(mem, p, [i \in 1 .. Len(held[p]) |-> v])
  /\ held' = Hold(p, [i \in 1 .. Len(held[p]) |-> v])
  /\ wild' = wild

Next ==
  \/ \E n \in 0 .. MaxSize : Malloc(n)
  \/ \E p \in DOMAIN held :
       \/ Free(p)
       \/ \E n \in 1 .. MaxSize : Realloc(p, n)
       \/ \E v \in Values : Write(p, v)

Spec == Init /\ [][Next]_vars

------------------------------------------------------------------------------
(* Correctness.                                                             *)

End(m, a) == IF m.rec[a].next = NULL THEN m.top ELSE m.rec[a].next

\* The list runs through the heap in order, each block has room for its size,
\* and the blocks in use are those the callers hold.
BlocksOK(blocks) ==
  \A a \in blocks :
     /\ a + Meta + mem.rec[a].size <= End(mem, a)
     /\ ~mem.rec[a].free <=> a + Meta \in DOMAIN held

UsedHeld(blocks) ==
  \A p \in DOMAIN held : p - Meta \in blocks /\ mem.rec[p - Meta].size = Len(held[p])

\* A block's prev is the block before it, or lies inside that block: where the
\* record was of a block merged into it.
PrevOK(blocks) ==
  \A a, b \in blocks : mem.rec[a].next = b => mem.rec[b].prev \in a .. b - Meta

\* After any calls, splits and merges, the list is a partition of the heap
\* into free blocks and the blocks callers hold, until a caller's bytes are
\* taken for a record.
HeapOK ==
  ~wild => LET blocks == Blocks(mem) IN BlocksOK(blocks) /\ UsedHeld(blocks) /\ PrevOK(blocks)

\* No call changes a cell of a block that is held, but the caller's own: no
\* record is written into one and no block is given out twice.
ContentsKept == ~wild => \A p \in DOMAIN held : Bytes(mem, p, Len(held[p])) = held[p]

\* A block that moves by mm_realloc takes its bytes along, unless it moves
\* within the free block it has become part of.
ReallocKeeps ==
  [][\A p \in DOMAIN held \ DOMAIN held', q \in DOMAIN held' \ DOMAIN held :
       LET n == Min({Len(held[p]), Len(held'[q])})
       IN  q # FreedIn(mem, p - Meta) + Meta => SubSeq(held'[q], 1, n) = SubSeq(held[p], 1, n)]_vars
==============================================================================
