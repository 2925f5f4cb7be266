-------------------------------- MODULE FileIO -------------------------------
(****************************************************************************)
(* The contents of one file: hello_write and hello_read of cachedfs/main.c, *)
(* one step per bucket they exchange with memcached.  The daemon serves one *)
(* request at a time and may be killed between any two steps.               *)
(*                                                                          *)
(* In the server:                                                           *)
(*   hdr    data_len and num_buckets of the file's header                   *)
(*   bkt    the buckets "&<i><path>", each the bytes after its bucket_struct *)
(*          (cur_size is the length of those bytes plus StructSize)         *)
(* In the daemon:                                                           *)
(*   stack    the running calls of hello_write, the innermost one first     *)
(*   reading  the running call of hello_read                                *)
(* History, read by the properties only:                                    *)
(*   want     the bytes the file should have once the write at hand is done *)
(*   before   the bytes it should have had before that write                *)
(*   gapped   a write has started beyond the bytes stored or beyond data_len *)
(*   crashed  the daemon was killed during a write                          *)
(****************************************************************************)
EXTENDS Memcached, SequencesExt

CONSTANTS
  BlockSize,   \* MAX_BUCKET_SIZE
  StructSize,  \* sizeof(struct bucket_struct)
  Bytes,       \* the bytes callers write
  Zero,        \* the byte of the zeros hello_write fills a hole with
  Junk,        \* a byte of a buffer that nothing was copied to
  MaxWrite,    \* bound: bytes in one write
  MaxSize,     \* bound: where a write may end
  NoRead       \* no hello_read is running

ASSUME FileIOAssumption ==
  /\ BlockSize \in Nat \ {0} /\ StructSize \in Nat \ {0}
  /\ MaxWrite \in Nat /\ MaxSize \in Nat
  /\ Junk \notin Bytes \cup {Zero}

VARIABLES hdr, bkt, stack, reading, want, before, gapped, crashed

server == <<hdr, bkt>>
history == <<want, before, gapped, crashed>>
vars == <<server, stack, reading, history>>

Least(x, y) == IF x < y THEN x ELSE y
Most(x, y) == IF x > y THEN x ELSE y

Byte == Bytes \cup {Zero, Junk}
Header == [data_len: Nat, num_buckets: Nat]
Frame == [rest: Seq(Byte), offset: Nat, bucket: Nat \ {0}, data_len: Nat, num_buckets: Nat]
Reading == [from: Nat, out: Seq(Byte), offset: Nat, size: Nat, bucket: Nat \ {0}]

Idle == stack = <<>> /\ reading = NoRead

\* How many bytes the buckets of the header hold, when all but the last of
\* them are full.
Stored == IF hdr.num_buckets \in DOMAIN bkt
          THEN BlockSize * (hdr.num_buckets - 1) + Len(bkt[hdr.num_buckets])
          ELSE 0

Init ==
  /\ hdr = [data_len |-> 0, num_buckets |-> 0]
  /\ bkt = EmptyStore
  /\ stack = <<>> /\ reading = NoRead
  /\ want = <<>> /\ before = <<>>
  /\ gapped = FALSE /\ crashed = FALSE

------------------------------------------------------------------------------
(* hello_write.                                                             *)

BucketOf(off) == 1 + off \div BlockSize

Call(buf, off, len, num) ==
  [rest |-> buf, offset |-> off, bucket |-> BucketOf(off), data_len |-> len,
   num_buckets |-> num]

Zeros(n) == [i \in 1 .. n |-> Zero]

\* Up to the loop.  A write beyond data_len first calls itself for the zeros
\* in between, and goes on with the num_buckets it read before that call.
Calls(buf, off) ==
  IF off > hdr.data_len
  THEN <<Call(Zeros(off - hdr.data_len), hdr.data_len, hdr.data_len, hdr.num_buckets),
         Call(buf, off, off, hdr.num_buckets)>>
  ELSE <<Call(buf, off, hdr.data_len, hdr.num_buckets)>>

\* The bytes c with buf written over them from off on.
Overlay(c, off, buf) ==
  [q \in 1 .. Most(Len(c), off + Len(buf)) |->
     IF q > off /\ q <= off + Len(buf) THEN buf[q - off]
     ELSE IF q <= Len(c) THEN c[q] ELSE Zero]

Write(buf, off) ==
  /\ Idle
  /\ off + Len(buf) <= MaxSize
  /\ stack' = Calls(buf, off)
  /\ gapped' = (gapped \/ off > Stored \/ off > hdr.data_len)
  /\ before' = IF gapped' THEN <<>> ELSE want
  /\ want' = IF gapped' THEN <<>> ELSE Overlay(want, off, buf)
  /\ UNCHANGED <<server, reading, crashed>>

Running == Head(stack)

\* The loop goes to the next bucket after n bytes.
Advance(f, n, grown, added) ==
  [f EXCEPT !.rest = SubSeq(f.rest, n + 1, Len(f.rest)), !.offset = @ + n,
            !.bucket = @ + 1, !.data_len = @ + grown, !.num_buckets = @ + added]

Continue(f) == stack' = <<f>> \o Tail(stack)

\* Mutant: one byte of the bucket is left unused.
NewBucketBytesButOne(f) == Least(Len(f.rest), BlockSize - 1)

\* The bucket is beyond num_buckets: it is stored with the bytes at its start,
\* and data_len grows by them and by the size of their bucket_struct.
NewBucketBytes(f) == Least(Len(f.rest), BlockSize)

NewBucket ==
  /\ stack # <<>> /\ Running.rest # <<>> /\ Running.num_buckets < Running.bucket
  /\ LET f == Running
         n == NewBucketBytes(f)
     IN  /\ bkt' = CacheSet(bkt, f.bucket, SubSeq(f.rest, 1, n))
         /\ Continue(Advance(f, n, n + StructSize, 1))
  /\ UNCHANGED <<hdr, reading, history>>

\* Bound: what a buffer left unset by a missing bucket reads as holds at
\* least one byte and at most a bucket of them.
Residue == {[i \in 1 .. n |-> Junk] : n \in 1 .. BlockSize}

\* What cache_get leaves in the buffer for bucket i.
Fetched(i) == IF i \in DOMAIN bkt THEN {bkt[i]} ELSE Residue

OldBucketBytes(f) == Least(Len(f.rest), BlockSize - (f.offset % BlockSize))

\* Mutant: the bucket ends where the patch does, also when it was longer.
PatchCut(old, start, n, buf) ==
  [i \in 1 .. start + n |->
     IF i > start THEN buf[i - start] ELSE IF i <= Len(old) THEN old[i] ELSE Junk]

\* Mutant: the bytes go to the start of the bucket.
PatchAtStart(old, start, n, buf) ==
  [i \in 1 .. Most(Len(old), n) |-> IF i <= n THEN buf[i] ELSE old[i]]

\* old with n bytes of buf over it from start on; bytes nobody set are junk.
Patch(old, start, n, buf) ==
  [i \in 1 .. Most(Len(old), start + n) |->
     IF i > start /\ i <= start + n THEN buf[i - start]
     ELSE IF i <= Len(old) THEN old[i] ELSE Junk]

\* The bucket is counted already: fetch it, patch it, store it.
OldBucket ==
  /\ stack # <<>> /\ Running.rest # <<>> /\ Running.num_buckets >= Running.bucket
  /\ LET f == Running
         n == OldBucketBytes(f)
     IN  \E old \in Fetched(f.bucket) :
           LET new == Patch(old, f.offset % BlockSize, n, f.rest)
           IN  /\ bkt' = CacheSet(bkt, f.bucket, new)
               /\ Continue(Advance(f, n, Len(new) - Len(old), 0))
  /\ UNCHANGED <<hdr, reading, history>>

\* Mutant: the call for the zeros never returns to the one that made it.
WriteEndOuter ==
  /\ Len(stack) = 1 /\ Running.rest = <<>>
  /\ hdr' = [data_len |-> Running.data_len, num_buckets |-> Running.num_buckets]
  /\ stack' = Tail(stack)
  /\ UNCHANGED <<bkt, reading, history>>

\* The loop is done: the header is stored and the call returns.
WriteEnd ==
  /\ stack # <<>> /\ Running.rest = <<>>
  /\ hdr' = [data_len |-> Running.data_len, num_buckets |-> Running.num_buckets]
  /\ stack' = Tail(stack)
  /\ UNCHANGED <<bkt, reading, history>>

------------------------------------------------------------------------------
(* hello_read.                                                              *)

\* A read at data_len or beyond returns 0 at once; this one has work to do.
Read(off, size) ==
  /\ Idle /\ off < hdr.data_len
  /\ reading' = [from |-> off, out |-> <<>>, offset |-> off, bucket |-> BucketOf(off),
                 size |-> Least(size, hdr.data_len - off)]
  /\ UNCHANGED <<server, stack, history>>

\* Mutant: the bucket is copied to its end, whatever size is left.
CopiedToEnd(data, start, size) == Least(BlockSize - start, Len(data))

\* Mutant: the start within the bucket is not taken off what is left of it.
CopiedWhole(data, start, size) == Least(Least(size, BlockSize), Len(data))

\* How much of a fetched bucket one turn of the loop copies.
Copied(data, start, size) == Least(Least(size, BlockSize - start), Len(data))

ReadBucket ==
  /\ reading # NoRead /\ reading.size > 0
  /\ \E data \in Fetched(reading.bucket) :
       LET start == reading.offset % BlockSize
           n == Copied(data, start, reading.size)
           bytes == [i \in 1 .. n |-> IF start + i <= Len(data) THEN data[start + i] ELSE Junk]
       IN  reading' = [reading EXCEPT !.out = @ \o bytes, !.offset = @ + n,
                                      !.size = @ - n, !.bucket = @ + 1]
  /\ UNCHANGED <<server, stack, history>>

ReadEnd ==
  /\ reading # NoRead /\ reading.size = 0
  /\ reading' = NoRead
  /\ UNCHANGED <<server, stack, history>>

------------------------------------------------------------------------------
\* The byte at position q of the file, counted from 1.
ByteAt(q) == bkt[BucketOf(q - 1)][1 + ((q - 1) % BlockSize)]

Content == [q \in 1 .. Stored |-> ByteAt(q)]

\* The daemon is killed and mounted again over the same server.  What a killed
\* write has left is what the file should have from now on.
Crash ==
  /\ ~Idle
  /\ stack' = <<>> /\ reading' = NoRead
  /\ crashed' = (crashed \/ stack # <<>>)
  /\ want' = IF gapped \/ stack = <<>> THEN want ELSE Content
  /\ before' = IF gapped \/ stack = <<>> THEN before ELSE Content
  /\ UNCHANGED <<server, gapped>>

Step == NewBucket \/ OldBucket \/ WriteEnd \/ ReadBucket \/ ReadEnd

Next ==
  \/ \E off \in 0 .. MaxSize, n \in 1 .. MaxWrite : 
       \/ Read(off, n)
       \/ \E buf \in [1 .. n -> Bytes] : Write(buf, off)
  \/ Step
  \/ Crash

\* The loops run on: every request to memcached is answered.
Spec == Init /\ [][Next]_vars /\ WF_vars(Step)

------------------------------------------------------------------------------
(* Correctness.  A write that leaves a gap spoils the layout for good (see  *)
(* NumBucketsIsCount), so what follows is claimed until the first of them.  *)

TypeOK ==
  /\ hdr \in Header
  /\ IsStore(bkt, Nat \ {0}, Seq(Byte))
  /\ stack \in Seq(Frame) /\ Len(stack) <= 2
  /\ reading # NoRead => reading \in Reading
  /\ want \in Seq(Byte) /\ before \in Seq(Byte)
  /\ gapped \in BOOLEAN /\ crashed \in BOOLEAN

\* Even while a write runs, and after it was killed, the buckets the stored
\* header counts are there, none longer than MAX_BUCKET_SIZE, all but the last
\* full, so offset / MAX_BUCKET_SIZE finds a byte; and data_len never claims
\* more than their bytes and their bucket_structs.
LayoutOK ==
  ~gapped =>
     /\ \A i \in 1 .. hdr.num_buckets :
          /\ i \in DOMAIN bkt
          /\ Len(bkt[i]) \in 1 .. BlockSize
          /\ i < hdr.num_buckets => Len(bkt[i]) = BlockSize
     /\ hdr.data_len <= Stored + StructSize * hdr.num_buckets
     /\ stack = <<>> /\ ~crashed => hdr.data_len = Stored + StructSize * hdr.num_buckets

\* When hello_write has returned, the stored bytes are those the writes so far
\* should have left, though it put them there bucket by bucket.
WriteLands == ~gapped /\ stack = <<>> => Content = want

\* Killed at any moment, hello_write leaves every byte old or new, and the
\* file no shorter than it was: the header is stored last.
KillSafe ==
  ~gapped =>
     /\ Len(before) <= Stored /\ Stored <= Len(want)
     /\ \A q \in 1 .. Stored :
          ByteAt(q) = want[q] \/ (q <= Len(before) /\ ByteAt(q) = before[q])

\* hello_read, bucket by bucket, gives back the bytes written, as far as there
\* are any: data_len lets it go on beyond them.
ReadBack ==
  ~gapped /\ reading # NoRead =>
     \A j \in DOMAIN reading.out :
        reading.from + j <= Len(want) => reading.out[j] = want[reading.from + j]

\* Every hello_write and hello_read returns, unless the daemon is killed.
CallsReturn == ~Idle ~> Idle

\* README.md:30 of num_buckets: "number of child buckets".
NumBucketsIsCount == Idle /\ ~crashed => hdr.num_buckets = Cardinality(DOMAIN bkt)
==============================================================================
