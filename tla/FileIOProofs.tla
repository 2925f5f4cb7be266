----------------------------- MODULE FileIOProofs ----------------------------
(****************************************************************************)
(* The contents of a file, for any sizes of buckets, structs and writes:    *)
(* where a byte lies, what a write that is half done has left in the        *)
(* server, and what a read makes of it.                                     *)
(****************************************************************************)
EXTENDS FileIO, SequenceTheorems, TLAPS

------------------------------------------------------------------------------
(* Buckets and positions.                                                   *)

\* The bytes before bucket b when all of them are full.
Pos(b) == BlockSize * (b - 1)

\* Offset x lies in bucket BucketOf(x), x % BlockSize bytes from its start.
LEMMA PosBucket ==
  ASSUME NEW x \in Nat
  PROVE  /\ BucketOf(x) \in Nat \ {0}
         /\ Pos(BucketOf(x)) <= x /\ x < Pos(BucketOf(x)) + BlockSize
         /\ x % BlockSize = x - Pos(BucketOf(x))
<1>1. /\ x \div BlockSize \in Nat /\ x % BlockSize \in 0 .. BlockSize - 1
      /\ x = BlockSize * (x \div BlockSize) + (x % BlockSize)
  BY FileIOAssumption
<1>2. BucketOf(x) - 1 = x \div BlockSize
  BY <1>1 DEF BucketOf
<1> QED
  BY <1>1, <1>2, FileIOAssumption DEF BucketOf, Pos

LEMMA PosSteps ==
  /\ Pos(1) = 0
  /\ \A b \in Nat \ {0} : Pos(b) \in Nat /\ Pos(b + 1) = Pos(b) + BlockSize
BY FileIOAssumption DEF Pos

LEMMA PosOrder ==
  ASSUME NEW b \in Nat \ {0}, NEW c \in Nat \ {0}, b < c
  PROVE  Pos(b) + BlockSize <= Pos(c)
<1> DEFINE between == BlockSize * (c - b)
<1>1. between \in Int /\ between >= BlockSize
  BY FileIOAssumption
<1>2. Pos(c) = Pos(b) + between
  BY FileIOAssumption DEF Pos
<1>3. Pos(b) \in Nat /\ Pos(c) \in Nat
  BY PosSteps
<1> HIDE DEF between
<1> QED
  BY <1>1, <1>2, <1>3, FileIOAssumption

\* Only one bucket holds offset x.
LEMMA BucketUnique ==
  ASSUME NEW x \in Nat, NEW b \in Nat \ {0}, Pos(b) <= x, x < Pos(b) + BlockSize
  PROVE  BucketOf(x) = b
<1> DEFINE c == BucketOf(x)
<1>1. c \in Nat \ {0} /\ Pos(c) <= x /\ x < Pos(c) + BlockSize
  BY PosBucket
<1>2. Pos(b) \in Nat /\ Pos(c) \in Nat
  BY <1>1, PosSteps
<1> HIDE DEF c
<1>3. ~(b < c) /\ ~(c < b)
  BY <1>1, <1>2, PosOrder, FileIOAssumption
<1> QED
  BY <1>1, <1>3 DEF c

------------------------------------------------------------------------------
(* Types.                                                                   *)

LEMMA LeastMost ==
  ASSUME NEW x \in Nat, NEW y \in Nat
  PROVE  /\ Least(x, y) \in Nat /\ Least(x, y) <= x /\ Least(x, y) <= y
         /\ Least(x, y) \in {x, y} /\ Most(x, y) \in {x, y}
         /\ Most(x, y) \in Nat /\ Most(x, y) >= x /\ Most(x, y) >= y
BY DEF Least, Most

\* What is left of a text after n bytes, and the n bytes.
LEMMA Rest ==
  ASSUME NEW s \in Seq(Byte), NEW n \in Nat, n <= Len(s)
  PROVE  /\ SubSeq(s, n + 1, Len(s)) \in Seq(Byte)
         /\ Len(SubSeq(s, n + 1, Len(s))) = Len(s) - n
         /\ \A i \in 1 .. Len(s) - n : SubSeq(s, n + 1, Len(s))[i] = s[n + i]
         /\ SubSeq(s, 1, n) \in Seq(Byte) /\ Len(SubSeq(s, 1, n)) = n
         /\ \A i \in 1 .. n : SubSeq(s, 1, n)[i] = s[i]
<1>1. Len(s) \in Nat /\ \A i \in 1 .. Len(s) : s[i] \in Byte
  BY LenProperties, ElementOfSeq
<1>2. n + 1 \in 1 .. Len(s) + 1 /\ 1 \in 1 .. Len(s) + 1 /\ n \in 0 .. Len(s)
  BY <1>1
<1> QED
  BY <1>1, <1>2, SubSeqProperties, SMTT(60)

LEMMA StoreSet ==
  ASSUME NEW K, NEW V, NEW store, IsStore(store, K, V), NEW k \in K, NEW v \in V
  PROVE  IsStore(CacheSet(store, k, v), K, V)
BY DEF IsStore, CacheSet

LEMMA PatchType ==
  ASSUME NEW old \in Seq(Byte), NEW buf \in Seq(Byte), NEW start \in Nat, NEW n \in Nat,
         n <= Len(buf)
  PROVE  /\ Patch(old, start, n, buf) \in Seq(Byte)
         /\ Len(Patch(old, start, n, buf)) = Most(Len(old), start + n)
         /\ \A i \in 1 .. Most(Len(old), start + n) :
              Patch(old, start, n, buf)[i] = IF i > start /\ i <= start + n THEN buf[i - start]
                                             ELSE IF i <= Len(old) THEN old[i] ELSE Junk
<1>1. /\ Len(old) \in Nat /\ Len(buf) \in Nat
      /\ \A i \in 1 .. Len(old) : old[i] \in Byte
      /\ \A i \in 1 .. Len(buf) : buf[i] \in Byte
  BY LenProperties, ElementOfSeq
<1>2. Most(Len(old), start + n) \in Nat
  BY <1>1, LeastMost
<1>3. Junk \in Byte
  BY DEF Byte
<1>4. Patch(old, start, n, buf) \in [1 .. Most(Len(old), start + n) -> Byte]
  BY <1>1, <1>2, <1>3 DEF Patch
<1> QED
  BY <1>2, <1>4, SMTT(60) DEF Patch

LEMMA OverlayType ==
  ASSUME NEW c \in Seq(Byte), NEW off \in Nat, NEW buf \in Seq(Byte)
  PROVE  /\ Overlay(c, off, buf) \in Seq(Byte)
         /\ Len(Overlay(c, off, buf)) = Most(Len(c), off + Len(buf))
         /\ \A q \in 1 .. Most(Len(c), off + Len(buf)) :
              Overlay(c, off, buf)[q] = IF q > off /\ q <= off + Len(buf) THEN buf[q - off]
                                        ELSE IF q <= Len(c) THEN c[q] ELSE Zero
<1>1. /\ Len(c) \in Nat /\ Len(buf) \in Nat
      /\ \A i \in 1 .. Len(c) : c[i] \in Byte
      /\ \A i \in 1 .. Len(buf) : buf[i] \in Byte
  BY LenProperties, ElementOfSeq
<1>2. Most(Len(c), off + Len(buf)) \in Nat
  BY <1>1 DEF Most
<1>3. Zero \in Byte
  BY DEF Byte
<1>4. Overlay(c, off, buf) \in [1 .. Most(Len(c), off + Len(buf)) -> Byte]
  BY <1>1, <1>2, <1>3 DEF Overlay
<1> QED
  BY <1>2, <1>4, SMTT(60) DEF Overlay

LEMMA FetchedType ==
  ASSUME TypeOK, NEW i \in Nat \ {0}, NEW bytes \in Fetched(i)
  PROVE  bytes \in Seq(Byte)
<1>1. CASE i \in DOMAIN bkt
  BY <1>1 DEF Fetched, TypeOK, IsStore
<1>2. CASE i \notin DOMAIN bkt
  <2>1. PICK n \in 1 .. BlockSize : bytes = [j \in 1 .. n |-> Junk]
    BY <1>2 DEF Fetched, Residue
  <2>2. bytes \in [1 .. n -> Byte] /\ n \in Nat
    BY <2>1, FileIOAssumption DEF Byte
  <2> QED
    BY <2>2
<1> QED
  BY <1>1, <1>2

LEMMA StoredType ==
  ASSUME TypeOK
  PROVE  /\ Stored \in Nat
         /\ Stored = IF hdr.num_buckets \in DOMAIN bkt
                     THEN Pos(hdr.num_buckets) + Len(bkt[hdr.num_buckets]) ELSE 0
<1>1. CASE hdr.num_buckets \in DOMAIN bkt
  <2>1. hdr.num_buckets \in Nat \ {0} /\ Len(bkt[hdr.num_buckets]) \in Nat
    BY <1>1 DEF TypeOK, IsStore, Header
  <2> QED
    BY <1>1, <2>1, PosSteps DEF Stored, Pos
<1>2. CASE hdr.num_buckets \notin DOMAIN bkt
  BY <1>2 DEF Stored
<1> QED
  BY <1>1, <1>2

\* The running call, and the stack when it goes on or returns.
LEMMA StackOps ==
  ASSUME TypeOK, stack # <<>>
  PROVE  /\ Running \in Frame /\ Running = stack[1]
         /\ Tail(stack) \in Seq(Frame) /\ Len(Tail(stack)) = Len(stack) - 1
         /\ \A f \in Frame : /\ <<f>> \o Tail(stack) \in Seq(Frame)
                             /\ Len(<<f>> \o Tail(stack)) = Len(stack)
                             /\ (<<f>> \o Tail(stack))[1] = f
<1>1. stack \in Seq(Frame) /\ stack # <<>>
  BY DEF TypeOK
<1> QED
  BY <1>1, HeadTailProperties DEF Running

LEMMA FrameFields ==
  ASSUME NEW f \in Frame
  PROVE  /\ f.rest \in Seq(Byte) /\ Len(f.rest) \in Nat
         /\ f.offset \in Nat /\ f.bucket \in Nat \ {0}
         /\ f.data_len \in Nat /\ f.num_buckets \in Nat
BY DEF Frame

LEMMA AdvanceType ==
  ASSUME NEW f \in Frame, NEW n \in Nat, n <= Len(f.rest), NEW grown \in Nat, NEW added \in Nat
  PROVE  /\ Advance(f, n, grown, added) \in Frame
         /\ Advance(f, n, grown, added).rest = SubSeq(f.rest, n + 1, Len(f.rest))
         /\ Advance(f, n, grown, added).offset = f.offset + n
         /\ Advance(f, n, grown, added).bucket = f.bucket + 1
         /\ Advance(f, n, grown, added).data_len = f.data_len + grown
         /\ Advance(f, n, grown, added).num_buckets = f.num_buckets + added
<1>1. SubSeq(f.rest, n + 1, Len(f.rest)) \in Seq(Byte)
  BY FrameFields, Rest
<1> DEFINE r == SubSeq(f.rest, n + 1, Len(f.rest))
<1>2. Advance(f, n, grown, added) =
        [rest |-> r, offset |-> f.offset + n, bucket |-> f.bucket + 1,
         data_len |-> f.data_len + grown, num_buckets |-> f.num_buckets + added]
  <2> HIDE DEF r
  <2>1. Advance(f, n, grown, added) =
          [f EXCEPT !.rest = r, !.offset = f.offset + n, !.bucket = f.bucket + 1,
                    !.data_len = f.data_len + grown, !.num_buckets = f.num_buckets + added]
    BY Zenon DEF Advance, r
  <2> QED
    BY <2>1 DEF Frame
<1> HIDE DEF r
<1> QED
  BY <1>1, <1>2, FrameFields, SMTT(60) DEF Frame, r

LEMMA InitTypes == Init => TypeOK
<1> SUFFICES ASSUME Init PROVE TypeOK
  OBVIOUS
<1>1. IsStore(bkt, Nat \ {0}, Seq(Byte))
  BY DEF Init, IsStore, EmptyStore
<1>2. hdr \in Header
  BY DEF Init, Header
<1>3. stack \in Seq(Frame) /\ Len(stack) <= 2 /\ want \in Seq(Byte) /\ before \in Seq(Byte)
  BY EmptySeq DEF Init
<1>4. gapped \in BOOLEAN /\ crashed \in BOOLEAN /\ (reading # NoRead => reading \in Reading)
  BY Zenon DEF Init
<1> QED
  BY <1>1, <1>2, <1>3, <1>4 DEF TypeOK

LEMMA WriteTypes ==
  ASSUME TypeOK, NEW off \in 0 .. MaxSize, NEW n \in 1 .. MaxWrite, NEW buf \in [1 .. n -> Bytes],
         Write(buf, off)
  PROVE  TypeOK'
<1>1. off \in Nat /\ buf \in Seq(Byte) /\ hdr.data_len \in Nat /\ hdr.num_buckets \in Nat
  BY FileIOAssumption DEF TypeOK, Header, Byte
<1>2. ASSUME NEW b \in Seq(Byte), NEW x \in Nat, NEW len \in Nat, NEW num \in Nat
      PROVE  Call(b, x, len, num) \in Frame
  BY <1>2, PosBucket DEF Call, Frame
<1>3. off > hdr.data_len => Zeros(off - hdr.data_len) \in Seq(Byte)
  BY <1>1 DEF Zeros, Byte
<1>4. stack' \in Seq(Frame) /\ Len(stack') <= 2
  BY <1>1, <1>2, <1>3 DEF Write, Calls
<1>5. want' \in Seq(Byte) /\ before' \in Seq(Byte) /\ gapped' \in BOOLEAN
  <2>1. before' = IF gapped' THEN <<>> ELSE want
    BY Zenon DEF Write
  <2>2. want' = IF gapped' THEN <<>> ELSE Overlay(want, off, buf)
    BY Zenon DEF Write
  <2>3. Overlay(want, off, buf) \in Seq(Byte) /\ want \in Seq(Byte)
    BY <1>1, OverlayType DEF TypeOK
  <2>4. gapped' \in BOOLEAN
    BY Zenon DEF Write
  <2> QED
    BY <2>1, <2>2, <2>3, <2>4
<1> QED
  BY <1>4, <1>5 DEF Write, TypeOK, server

LEMMA NewBucketTypes ==
  ASSUME TypeOK, NewBucket
  PROVE  /\ TypeOK' /\ Running \in Frame
         /\ NewBucketBytes(Running) \in Nat /\ NewBucketBytes(Running) <= Len(Running.rest)
<1> DEFINE f == Running
           n == NewBucketBytes(f)
<1>1. stack # <<>> /\ bkt' = CacheSet(bkt, f.bucket, SubSeq(f.rest, 1, n))
      /\ stack' = <<Advance(f, n, n + StructSize, 1)>> \o Tail(stack)
      /\ UNCHANGED <<hdr, reading, history>>
  BY DEF NewBucket, Continue
<1>2. f \in Frame
  BY <1>1, StackOps
<1>3. n \in Nat /\ n <= Len(f.rest)
  BY <1>2, FrameFields, LeastMost, FileIOAssumption DEF NewBucketBytes
<1> HIDE DEF f, n
<1>4. IsStore(bkt', Nat \ {0}, Seq(Byte))
  BY <1>1, <1>2, <1>3, FrameFields, Rest, StoreSet DEF TypeOK
<1>5. Advance(f, n, n + StructSize, 1) \in Frame
  BY <1>2, <1>3, AdvanceType, FileIOAssumption
<1>6. stack' \in Seq(Frame) /\ Len(stack') <= 2
  BY <1>1, <1>5, StackOps DEF TypeOK
<1> QED
  BY <1>1, <1>2, <1>3, <1>4, <1>6 DEF TypeOK, history, f, n

\* The bytes of the bucket at hand go at most to its end.
LEMMA OldBytes ==
  ASSUME NEW f \in Frame
  PROVE  /\ f.offset % BlockSize \in 0 .. BlockSize - 1
         /\ OldBucketBytes(f) \in Nat /\ OldBucketBytes(f) <= Len(f.rest)
         /\ OldBucketBytes(f) <= BlockSize - (f.offset % BlockSize)
         /\ OldBucketBytes(f) \in {Len(f.rest), BlockSize - (f.offset % BlockSize)}
<1>1. f.offset % BlockSize \in 0 .. BlockSize - 1
  BY FrameFields, FileIOAssumption
<1>2. BlockSize - (f.offset % BlockSize) \in Nat
  BY <1>1, FileIOAssumption
<1> QED
  BY <1>1, <1>2, FrameFields, LeastMost DEF OldBucketBytes

LEMMA OldBucketTypes ==
  ASSUME TypeOK, OldBucket
  PROVE  TypeOK' /\ Running \in Frame
<1> DEFINE f == Running
           n == OldBucketBytes(f)
           start == f.offset % BlockSize
<1>1. stack # <<>> /\ UNCHANGED <<hdr, reading, history>>
  BY DEF OldBucket
<1>2. PICK old \in Fetched(f.bucket) :
        LET new == Patch(old, start, n, f.rest)
        IN  /\ bkt' = CacheSet(bkt, f.bucket, new)
            /\ stack' = <<Advance(f, n, Len(new) - Len(old), 0)>> \o Tail(stack)
  BY DEF OldBucket, Continue
<1> DEFINE new == Patch(old, start, n, f.rest)
<1>3. bkt' = CacheSet(bkt, f.bucket, new)
      /\ stack' = <<Advance(f, n, Len(new) - Len(old), 0)>> \o Tail(stack)
  BY <1>2
<1>4. f \in Frame
  BY <1>1, StackOps
<1>5. n \in Nat /\ n <= Len(f.rest) /\ start \in Nat
  BY <1>4, OldBytes
<1>6. f.bucket \in Nat \ {0} /\ f.rest \in Seq(Byte) /\ old \in Seq(Byte)
  BY <1>4, FrameFields, FetchedType
<1> HIDE DEF f, n, start
<1>7. new \in Seq(Byte) /\ Len(new) = Most(Len(old), start + n) /\ Len(old) \in Nat
  <2>1. new \in Seq(Byte) /\ Len(new) = Most(Len(old), start + n)
    <3>1. \A o, b \in Seq(Byte), s, k \in Nat : k <= Len(b) =>
            /\ Patch(o, s, k, b) \in Seq(Byte)
            /\ Len(Patch(o, s, k, b)) = Most(Len(o), s + k)
      BY PatchType, ZenonT(60)
    <3> QED
      BY <1>5, <1>6, <3>1, ZenonT(60)
  <2> QED
    BY <1>6, <2>1
<1> HIDE DEF new
<1>8. Len(new) - Len(old) \in Nat
  BY <1>5, <1>7 DEF Most
<1>9. IsStore(bkt', Nat \ {0}, Seq(Byte))
  BY <1>3, <1>6, <1>7, StoreSet DEF TypeOK
<1>10. Advance(f, n, Len(new) - Len(old), 0) \in Frame
  BY <1>4, <1>5, <1>8, AdvanceType
<1>11. stack' \in Seq(Frame) /\ Len(stack') <= 2
  BY <1>1, <1>3, <1>10, StackOps DEF TypeOK
<1> QED
  BY <1>1, <1>4, <1>9, <1>11 DEF TypeOK, history, f

LEMMA WriteEndTypes ==
  ASSUME TypeOK, WriteEnd
  PROVE  TypeOK' /\ Running \in Frame
<1>1. stack # <<>> /\ UNCHANGED <<bkt, reading, history>> /\ stack' = Tail(stack)
      /\ hdr' = [data_len |-> Running.data_len, num_buckets |-> Running.num_buckets]
  BY DEF WriteEnd
<1>2. Running \in Frame /\ stack' \in Seq(Frame) /\ Len(stack') <= 2
  BY <1>1, StackOps DEF TypeOK
<1>3. hdr' \in Header
  BY <1>1, <1>2, FrameFields DEF Header
<1> QED
  BY <1>1, <1>2, <1>3 DEF TypeOK, history

LEMMA ReadTypes ==
  ASSUME TypeOK, NEW off \in 0 .. MaxSize, NEW n \in 1 .. MaxWrite, Read(off, n)
  PROVE  TypeOK'
<1>1. off \in Nat /\ n \in Nat /\ hdr.data_len - off \in Nat
  BY FileIOAssumption DEF Read, TypeOK, Header
<1>2. Least(n, hdr.data_len - off) \in Nat /\ BucketOf(off) \in Nat \ {0}
  BY <1>1, LeastMost, PosBucket
<1>3. <<>> \in Seq(Byte)
  BY EmptySeq
<1>4. reading' \in Reading
  BY <1>1, <1>2, <1>3 DEF Read, Reading
<1> QED
  BY <1>4 DEF Read, TypeOK, server, history

LEMMA ReadingFields ==
  ASSUME NEW r \in Reading
  PROVE  /\ r.from \in Nat /\ r.out \in Seq(Byte) /\ Len(r.out) \in Nat
         /\ r.offset \in Nat /\ r.size \in Nat /\ r.bucket \in Nat \ {0}
BY DEF Reading

\* One turn of the loop of hello_read, with the n bytes it takes.
LEMMA ReadTurn ==
  ASSUME TypeOK, ReadBucket
  PROVE  \E bytes \in Fetched(reading.bucket) :
           LET start == reading.offset % BlockSize
               n == Copied(bytes, start, reading.size)
               more == [i \in 1 .. n |-> IF start + i <= Len(bytes) THEN bytes[start + i] ELSE Junk]
           IN  /\ bytes \in Seq(Byte) /\ reading \in Reading /\ start \in 0 .. BlockSize - 1
               /\ n \in Nat /\ n <= reading.size /\ n <= BlockSize - start /\ n <= Len(bytes)
               /\ n \in {reading.size, BlockSize - start, Len(bytes)}
               /\ more \in Seq(Byte) /\ Len(more) = n
               /\ reading' = [from |-> reading.from, out |-> reading.out \o more,
                              offset |-> reading.offset + n, size |-> reading.size - n,
                              bucket |-> reading.bucket + 1]
<1> DEFINE start == reading.offset % BlockSize
           n(bytes) == Copied(bytes, start, reading.size)
           more(bytes) == [i \in 1 .. n(bytes) |->
                             IF start + i <= Len(bytes) THEN bytes[start + i] ELSE Junk]
<1>1. PICK bytes \in Fetched(reading.bucket) :
        reading' = [reading EXCEPT !.out = @ \o more(bytes), !.offset = @ + n(bytes),
                                   !.size = @ - n(bytes), !.bucket = @ + 1]
  BY ZenonT(60) DEF ReadBucket
<1>2. reading \in Reading
  BY DEF ReadBucket, TypeOK
<1>3. start \in 0 .. BlockSize - 1
  BY <1>2, ReadingFields, FileIOAssumption
<1>4. bytes \in Seq(Byte) /\ Len(bytes) \in Nat /\ \A i \in 1 .. Len(bytes) : bytes[i] \in Byte
  BY <1>2, ReadingFields, FetchedType, LenProperties, ElementOfSeq
<1> HIDE DEF start
<1>5. /\ n(bytes) \in Nat /\ n(bytes) <= reading.size /\ n(bytes) <= BlockSize - start
      /\ n(bytes) <= Len(bytes) /\ n(bytes) \in {reading.size, BlockSize - start, Len(bytes)}
  BY <1>2, <1>3, <1>4, ReadingFields, FileIOAssumption DEF Copied, Least
<1> HIDE DEF n
<1>6. more(bytes) \in [1 .. n(bytes) -> Byte]
  BY <1>3, <1>4, <1>5, FileIOAssumption DEF Byte
<1>7. more(bytes) \in Seq(Byte) /\ Len(more(bytes)) = n(bytes)
  BY <1>5, <1>6
<1> HIDE DEF more
<1>8. reading' = [from |-> reading.from, out |-> reading.out \o more(bytes),
                  offset |-> reading.offset + n(bytes), size |-> reading.size - n(bytes),
                  bucket |-> reading.bucket + 1]
  BY <1>1, <1>2 DEF Reading
<1> QED
  BY <1>2, <1>3, <1>4, <1>5, <1>7, <1>8, ZenonT(60) DEF start, n, more

LEMMA ReadBucketTypes ==
  ASSUME TypeOK, ReadBucket
  PROVE  TypeOK'
<1>1. PICK n \in Nat, more \in Seq(Byte) :
        /\ n <= reading.size /\ reading \in Reading
        /\ reading' = [from |-> reading.from, out |-> reading.out \o more,
                       offset |-> reading.offset + n, size |-> reading.size - n,
                       bucket |-> reading.bucket + 1]
  BY ReadTurn, Zenon
<1>2. reading.out \o more \in Seq(Byte)
  BY <1>1, ReadingFields, ConcatProperties
<1>3. reading' \in Reading
  BY <1>1, <1>2, ReadingFields DEF Reading
<1> QED
  BY <1>3 DEF ReadBucket, TypeOK, server, history

------------------------------------------------------------------------------
(* The inductive invariant.                                                 *)

\* Buckets 1 to n are there, none too long or empty, all but the last full.
LaidOut(n) ==
  \A i \in 1 .. n : /\ i \in DOMAIN bkt /\ Len(bkt[i]) \in 1 .. BlockSize
                    /\ i < n => Len(bkt[i]) = BlockSize

\* The bytes they hold.
Held(n) == IF n = 0 THEN 0 ELSE Pos(n) + Len(bkt[n])

\* What data_len says with n buckets; after a crash it may say less.
Counted(len, n) ==
  /\ len <= Held(n) + StructSize * n
  /\ ~crashed => len = Held(n) + StructSize * n

\* No write runs.
AtRest ==
  /\ Counted(hdr.data_len, hdr.num_buckets)
  /\ Len(want) = Stored /\ \A q \in 1 .. Stored : ByteAt(q) = want[q]

\* A write runs and has come to f.offset: the bytes up to there are those the
\* file should have, the others those it had, and the header it will store
\* fits what is in the server.
InWrite(f) ==
  /\ hdr.num_buckets <= f.num_buckets /\ LaidOut(f.num_buckets)
  /\ Counted(f.data_len, f.num_buckets)
  /\ f.rest # <<>> => f.bucket = BucketOf(f.offset)
  /\ f.offset <= Held(f.num_buckets) /\ Held(f.num_buckets) = Most(Len(before), f.offset)
  /\ \A q \in 1 .. f.offset : ByteAt(q) = want[q]
  /\ \A q \in f.offset + 1 .. Len(before) : ByteAt(q) = before[q]
  /\ Len(want) = Most(Len(before), f.offset + Len(f.rest))
  /\ \A i \in 1 .. Len(f.rest) : want[f.offset + i] = f.rest[i]
  /\ \A q \in f.offset + Len(f.rest) + 1 .. Len(before) : want[q] = before[q]

\* A read runs: it has come to reading.offset, and goes on in the bucket of
\* that offset as long as there are bytes.
InRead ==
  /\ reading.offset = reading.from + Len(reading.out)
  /\ \A j \in 1 .. Len(reading.out) :
       reading.from + j <= Len(want) => reading.out[j] = want[reading.from + j]
  /\ reading.size > 0 /\ reading.offset < Len(want) => reading.bucket = BucketOf(reading.offset)

ContentInv ==
  ~gapped =>
     /\ LaidOut(hdr.num_buckets) /\ Len(before) <= Stored
     /\ hdr.data_len <= Stored + StructSize * hdr.num_buckets
     /\ stack = <<>> => AtRest
     /\ stack # <<>> => Len(stack) = 1 /\ InWrite(stack[1])
     /\ reading # NoRead => InRead

IndInv ==
  /\ TypeOK
  /\ reading # NoRead => stack = <<>>
  /\ ContentInv

------------------------------------------------------------------------------
(* Where the bytes of a layout lie.                                         *)

LEMMA BucketBytes ==
  ASSUME TypeOK, NEW i \in DOMAIN bkt
  PROVE  /\ i \in Nat \ {0} /\ bkt[i] \in Seq(Byte) /\ Len(bkt[i]) \in Nat
         /\ \A j \in 1 .. Len(bkt[i]) : bkt[i][j] \in Byte
<1>1. i \in Nat \ {0} /\ bkt[i] \in Seq(Byte)
  BY DEF TypeOK, IsStore
<1> QED
  BY <1>1, LenProperties, ElementOfSeq

LEMMA HeldFacts ==
  ASSUME TypeOK, NEW n \in Nat, LaidOut(n)
  PROVE  /\ Held(n) \in Nat /\ Pos(n + 1) \in Nat /\ Held(n) <= Pos(n + 1)
         /\ n > 0 => /\ n \in DOMAIN bkt /\ Pos(n) \in Nat /\ Len(bkt[n]) \in 1 .. BlockSize
                     /\ Held(n) = Pos(n) + Len(bkt[n]) /\ Pos(n + 1) = Pos(n) + BlockSize
         /\ n = hdr.num_buckets => Stored = Held(n)
<1>1. CASE n = 0
  <2>1. 0 \notin DOMAIN bkt
    BY DEF TypeOK, IsStore
  <2> QED
    BY <1>1, <2>1, PosSteps DEF Held, Stored
<1>2. CASE n > 0
  <2>1. n \in DOMAIN bkt /\ Len(bkt[n]) \in 1 .. BlockSize
    BY <1>2 DEF LaidOut
  <2>2. Pos(n) \in Nat /\ Pos(n + 1) = Pos(n) + BlockSize
    BY <1>2, PosSteps
  <2> QED
    BY <1>2, <2>1, <2>2, FileIOAssumption DEF Held, Stored, Pos
<1> QED
  BY <1>1, <1>2

\* A byte of the first n buckets, and the bucket it lies in.
LEMMA ByteIn ==
  ASSUME TypeOK, NEW n \in Nat, LaidOut(n), NEW q \in 1 .. Held(n)
  PROVE  LET b == BucketOf(q - 1)
         IN  /\ b \in 1 .. n /\ b \in DOMAIN bkt /\ Pos(b) \in Nat
             /\ Pos(b) < q /\ q <= Pos(b) + Len(bkt[b])
             /\ ByteAt(q) = bkt[b][q - Pos(b)] /\ ByteAt(q) \in Byte
<1> DEFINE b == BucketOf(q - 1)
<1>1. Held(n) \in Nat /\ Held(n) <= Pos(n + 1) /\ Pos(n + 1) \in Nat
  BY HeldFacts
<1>2. q \in Nat /\ q - 1 \in Nat
  BY <1>1
<1>3. /\ b \in Nat \ {0} /\ Pos(b) <= q - 1 /\ q - 1 < Pos(b) + BlockSize
      /\ (q - 1) % BlockSize = q - 1 - Pos(b) /\ Pos(b) \in Nat
  BY <1>2, PosBucket, PosSteps
<1>4. ByteAt(q) = bkt[b][1 + ((q - 1) % BlockSize)]
  BY DEF ByteAt
<1> HIDE DEF b
<1>5. b \in 1 .. n
  <2>1. ~(n + 1 < b)
    BY <1>1, <1>2, <1>3, PosOrder, FileIOAssumption
  <2>2. b # n + 1
    BY <1>1, <1>2, <1>3
  <2> QED
    BY <1>3, <2>1, <2>2
<1>6. b \in DOMAIN bkt /\ q <= Pos(b) + Len(bkt[b])
  <2>1. CASE b < n
    BY <1>2, <1>3, <1>5, <2>1, FileIOAssumption, SMTT(60) DEF LaidOut
  <2>2. CASE b = n
    BY <1>2, <1>3, <1>5, <2>2, HeldFacts
  <2> QED
    BY <1>5, <2>1, <2>2
<1>7. ByteAt(q) = bkt[b][q - Pos(b)]
  BY <1>2, <1>3, <1>4
<1>8. ByteAt(q) \in Byte
  BY <1>2, <1>3, <1>6, <1>7, BucketBytes
<1> QED
  BY <1>2, <1>3, <1>5, <1>6, <1>7, <1>8 DEF b

\* The same, found from the bucket.
LEMMA ByteOf ==
  ASSUME NEW b \in Nat \ {0}, NEW q \in Nat, Pos(b) < q, q <= Pos(b) + BlockSize
  PROVE  BucketOf(q - 1) = b /\ ByteAt(q) = bkt[b][q - Pos(b)]
<1>1. Pos(b) \in Nat /\ q - 1 \in Nat /\ Pos(b) <= q - 1 /\ q - 1 < Pos(b) + BlockSize
  BY PosSteps, FileIOAssumption
<1>2. BucketOf(q - 1) = b
  BY <1>1, BucketUnique
<1>3. (q - 1) % BlockSize = q - 1 - Pos(b)
  BY <1>1, <1>2, PosBucket
<1>4. 1 + ((q - 1) % BlockSize) = q - Pos(b)
  BY <1>1, <1>3
<1> QED
  BY <1>2, <1>4 DEF ByteAt

LEMMA FewerHeld ==
  ASSUME TypeOK, NEW n \in Nat, LaidOut(n), NEW m \in 0 .. n
  PROVE  LaidOut(m) /\ Held(m) <= Held(n) /\ Held(m) \in Nat
<1>1. LaidOut(m)
  BY DEF LaidOut
<1>2. Held(m) \in Nat /\ Held(n) \in Nat /\ Held(m) <= Pos(m + 1)
  BY <1>1, HeldFacts
<1>3. CASE m < n
  <2>1. Pos(n) \in Nat /\ Pos(n) < Held(n) /\ Pos(m + 1) \in Nat
    BY <1>3, <1>1, HeldFacts
  <2>2. m + 1 = n \/ Pos(m + 1) + BlockSize <= Pos(n)
    BY <1>3, PosOrder
  <2> QED
    BY <1>1, <1>2, <2>1, <2>2, FileIOAssumption
<1> QED
  BY <1>1, <1>2, <1>3

LEMMA ContentType ==
  ASSUME TypeOK, LaidOut(hdr.num_buckets)
  PROVE  /\ Content \in Seq(Byte) /\ Len(Content) = Stored
         /\ \A q \in 1 .. Stored : Content[q] = ByteAt(q)
<1>1. hdr.num_buckets \in Nat
  BY DEF TypeOK, Header
<1>2. Stored = Held(hdr.num_buckets) /\ Stored \in Nat
  BY <1>1, HeldFacts
<1>3. \A q \in 1 .. Stored : ByteAt(q) \in Byte
  BY <1>1, <1>2, ByteIn
<1>4. Content \in [1 .. Stored -> Byte]
  BY <1>3 DEF Content
<1> QED
  BY <1>2, <1>4 DEF Content

------------------------------------------------------------------------------
(* hello_write, bucket by bucket.                                           *)

\* What one turn of the loop does that takes k bytes and counts that many more
\* buckets.
TurnOf(f, k, added) ==
  LET n == f.num_buckets + added
  IN  /\ k \in 1 .. Len(f.rest)
      /\ k < Len(f.rest) => BucketOf(f.offset + k) = f.bucket + 1
      /\ stack' = <<Advance(f, k, (Held(n)' - Held(f.num_buckets)) + StructSize * added, added)>>
      /\ Held(n)' >= Held(f.num_buckets)
      /\ LaidOut(n)' /\ Held(n)' = Most(Held(f.num_buckets), f.offset + k)
      /\ Held(hdr.num_buckets)' >= Held(hdr.num_buckets)
      /\ \A q \in 1 .. Held(n)' :
           ByteAt(q)' = IF q > f.offset /\ q <= f.offset + k THEN f.rest[q - f.offset] ELSE ByteAt(q)
      /\ UNCHANGED <<hdr, reading, history>>

\* The frame of a write that runs, as a value.
LEMMA OneFrame ==
  ASSUME IndInv, ~gapped, stack # <<>>
  PROVE  /\ Running \in Frame /\ Running = stack[1] /\ InWrite(Running)
         /\ \A g : <<g>> \o Tail(stack) = <<g>>
         /\ Tail(stack) = <<>> /\ reading = NoRead
<1>1. Running \in Frame /\ Running = stack[1] /\ Tail(stack) \in Seq(Frame)
      /\ Len(Tail(stack)) = Len(stack) - 1
  BY StackOps DEF IndInv
<1>2. Len(stack) = 1 /\ InWrite(stack[1])
  BY DEF IndInv, ContentInv
<1>3. Tail(stack) = <<>>
  <2>1. Len(Tail(stack)) = 0
    BY <1>1, <1>2
  <2> QED
    BY <1>1, <2>1, EmptySeq, Zenon
<1>4. \A g : <<g>> \o <<>> = <<g>>
  OBVIOUS
<1> QED
  BY <1>1, <1>2, <1>3, <1>4 DEF IndInv

\* A bucket beyond num_buckets is the next one, and the last is full.
LEMMA NewBucketTurn ==
  ASSUME IndInv, ~gapped, NewBucket, NEW f \in Frame, f = Running
  PROVE  TurnOf(f, NewBucketBytes(f), 1)
<1> DEFINE k == NewBucketBytes(f)
           n == f.num_buckets
           b == f.bucket
           new == SubSeq(f.rest, 1, k)
<1>1. /\ stack # <<>> /\ f.rest # <<>> /\ n < b /\ bkt' = CacheSet(bkt, b, new)
      /\ stack' = <<Advance(f, k, k + StructSize, 1)>> \o Tail(stack)
      /\ UNCHANGED <<hdr, reading, history>>
  BY DEF NewBucket, Continue
<1>2. InWrite(f) /\ stack' = <<Advance(f, k, k + StructSize, 1)>> /\ TypeOK
  BY <1>1, OneFrame DEF IndInv
<1>3. /\ f.rest \in Seq(Byte) /\ Len(f.rest) \in Nat /\ Len(f.rest) > 0
      /\ f.offset \in Nat /\ b \in Nat \ {0} /\ n \in Nat /\ n + 1 \in Nat \ {0}
  BY <1>1, FrameFields, EmptySeq
<1>4. k \in 1 .. Len(f.rest) /\ k <= BlockSize /\ k \in {Len(f.rest), BlockSize}
  BY <1>3, FileIOAssumption DEF NewBucketBytes, Least
<1>5. new \in Seq(Byte) /\ Len(new) = k /\ \A i \in 1 .. k : new[i] = f.rest[i]
  BY <1>3, <1>4, Rest
<1>6. LaidOut(n) /\ f.offset <= Held(n) /\ b = BucketOf(f.offset) /\ hdr.num_buckets <= n
  BY <1>1, <1>2 DEF InWrite
<1>7. hdr.num_buckets \in Nat
  BY <1>2 DEF TypeOK, Header
<1> HIDE DEF k, n, b, new
<1>8. Held(n) \in Nat /\ Held(n) <= Pos(n + 1) /\ Pos(n + 1) \in Nat
  BY <1>2, <1>3, <1>6, HeldFacts
<1>9. b = n + 1 /\ f.offset = Pos(n + 1) /\ Held(n) = Pos(n + 1)
  <2>1. Pos(b) <= f.offset /\ Pos(b) \in Nat
    BY <1>3, <1>6, PosBucket, PosSteps
  <2>2. ~(n + 1 < b)
    BY <1>3, <1>6, <1>8, <2>1, PosOrder, FileIOAssumption
  <2>3. b = n + 1
    BY <1>1, <1>3, <2>2 DEF n, b
  <2> QED
    BY <1>3, <1>6, <1>8, <2>1, <2>3
<1>10. /\ DOMAIN bkt' = DOMAIN bkt \cup {b}
       /\ bkt'[b] = new /\ \A i \in DOMAIN bkt \ {b} : bkt'[i] = bkt[i]
  BY <1>1 DEF CacheSet
<1>11. LaidOut(n + 1)'
  <2>1. ASSUME n > 0 PROVE Len(bkt[n]) = BlockSize
    <3>1. /\ Pos(n) \in Nat /\ Len(bkt[n]) \in 1 .. BlockSize
          /\ Held(n) = Pos(n) + Len(bkt[n]) /\ Pos(n + 1) = Pos(n) + BlockSize
      BY <1>2, <1>3, <1>6, <2>1, HeldFacts
    <3> QED
      BY <1>9, <3>1, FileIOAssumption
  <2>2. ASSUME NEW i \in 1 .. n + 1
        PROVE  i \in DOMAIN bkt' /\ Len(bkt'[i]) \in 1 .. BlockSize
               /\ (i < n + 1 => Len(bkt'[i]) = BlockSize)
    <3>1. CASE i = n + 1
      BY <3>1, <1>3, <1>4, <1>5, <1>9, <1>10, FileIOAssumption
    <3>2. CASE i \in 1 .. n
      BY <3>2, <1>3, <1>6, <1>9, <1>10, <2>1 DEF LaidOut
    <3> QED
      BY <1>3, <3>1, <3>2
  <2> QED
    BY <2>2 DEF LaidOut
<1>12. Held(n + 1)' = Pos(n + 1) + k
  BY <1>3, <1>5, <1>9, <1>10 DEF Held, Pos
<1>13. Held(n + 1)' = Most(Held(n), f.offset + k)
  BY <1>3, <1>4, <1>8, <1>9, <1>12 DEF Most
<1>14. Held(hdr.num_buckets)' = Held(hdr.num_buckets)
  <2>1. hdr'.num_buckets = hdr.num_buckets
    BY <1>1
  <2>2. hdr.num_buckets > 0 => hdr.num_buckets \in DOMAIN bkt \ {b}
    BY <1>3, <1>6, <1>7, <1>9 DEF LaidOut
  <2> QED
    BY <1>7, <1>10, <2>1, <2>2 DEF Held, Pos
<1>15. ASSUME NEW q \in 1 .. Held(n + 1)'
       PROVE  ByteAt(q)' = IF q > f.offset /\ q <= f.offset + k THEN f.rest[q - f.offset] ELSE ByteAt(q)
  <2>1. q \in Nat /\ q >= 1 /\ q <= f.offset + k
    BY <1>3, <1>4, <1>8, <1>9, <1>12
  <2>2. CASE q > f.offset
    <3>1. BucketOf(q - 1) = b /\ b \in DOMAIN bkt'
      BY <1>3, <1>4, <1>9, <1>10, <2>1, <2>2, ByteOf, FileIOAssumption
    <3>2. (q - 1) % BlockSize = q - 1 - Pos(b)
      BY <2>1, <3>1, PosBucket
    <3>3. ByteAt(q)' = bkt'[b][1 + (q - 1 - Pos(b))]
      BY <3>1, <3>2 DEF ByteAt
    <3>4. 1 + (q - 1 - Pos(b)) = q - f.offset /\ q - f.offset \in 1 .. k
      BY <1>3, <1>4, <1>8, <1>9, <2>1, <2>2
    <3>5. ByteAt(q)' = new[q - f.offset]
      BY <1>10, <3>3, <3>4
    <3> QED
      BY <1>5, <2>1, <2>2, <3>4, <3>5
  <2>3. CASE q <= f.offset
    <3>1. q \in 1 .. Held(n)
      BY <1>3, <1>8, <1>9, <2>1, <2>3
    <3>2. BucketOf(q - 1) \in 1 .. n /\ BucketOf(q - 1) \in DOMAIN bkt
      BY <1>2, <1>3, <1>6, <3>1, ByteIn
    <3>3. BucketOf(q - 1) \in DOMAIN bkt \ {b}
      BY <1>3, <1>9, <3>2
    <3>4. ByteAt(q)' = ByteAt(q)
      BY <1>10, <3>3 DEF ByteAt
    <3> QED
      BY <1>3, <2>1, <2>3, <3>4
  <2> QED
    BY <1>3, <2>1, <2>2, <2>3
<1>16. k < Len(f.rest) => BucketOf(f.offset + k) = b + 1
  <2> SUFFICES ASSUME k < Len(f.rest) PROVE BucketOf(f.offset + k) = b + 1
    OBVIOUS
  <2>1. k = BlockSize
    BY <1>3, <1>4
  <2>2. Pos(b + 1) = Pos(b) + BlockSize /\ Pos(b) = f.offset
    BY <1>3, <1>9, PosSteps
  <2>3. Pos(b + 1) = f.offset + k /\ b + 1 \in Nat \ {0} /\ f.offset + k \in Nat
    BY <1>3, <2>1, <2>2, FileIOAssumption
  <2> QED
    BY <2>3, BucketUnique, FileIOAssumption
<1>17. k + StructSize = (Held(n + 1)' - Held(n)) + StructSize * 1
  BY <1>3, <1>4, <1>8, <1>9, <1>12, FileIOAssumption
<1>18. Held(n + 1)' >= Held(n) /\ Held(hdr.num_buckets)' >= Held(hdr.num_buckets)
  <2>1. Held(hdr.num_buckets) \in Nat
    BY <1>2, <1>3, <1>6, <1>7, FewerHeld
  <2> QED
    BY <1>4, <1>8, <1>9, <1>12, <1>14, <2>1
<1>19. stack' = <<Advance(f, k, (Held(n + 1)' - Held(n)) + StructSize * 1, 1)>>
  BY <1>2, <1>17
<1>20. TurnOf(f, k, 1)
  BY <1>1, <1>4, <1>11, <1>13, <1>15, <1>16, <1>18, <1>19, Zenon DEF TurnOf, n, b
<1> QED
  BY <1>20 DEF k

\* A bucket that is counted is patched where the write has come to, and grows
\* only if it is the last.
LEMMA OldBucketTurn ==
  ASSUME IndInv, ~gapped, OldBucket, NEW f \in Frame, f = Running
  PROVE  TurnOf(f, OldBucketBytes(f), 0)
<1> DEFINE k == OldBucketBytes(f)
           n == f.num_buckets
           b == f.bucket
           start == f.offset % BlockSize
           old == bkt[b]
           new == Patch(old, start, k, f.rest)
<1>1. stack # <<>> /\ f.rest # <<>> /\ n >= b /\ UNCHANGED <<hdr, reading, history>>
  BY DEF OldBucket
<1>2. InWrite(f) /\ TypeOK /\ \A g : <<g>> \o Tail(stack) = <<g>>
  BY <1>1, OneFrame DEF IndInv
<1>3. /\ f.rest \in Seq(Byte) /\ Len(f.rest) \in Nat /\ Len(f.rest) > 0
      /\ f.offset \in Nat /\ b \in Nat \ {0} /\ n \in Nat
  BY <1>1, FrameFields, EmptySeq
<1>4. LaidOut(n) /\ f.offset <= Held(n) /\ b = BucketOf(f.offset) /\ hdr.num_buckets <= n
  BY <1>1, <1>2 DEF InWrite
<1>5. b \in 1 .. n /\ b \in DOMAIN bkt /\ Len(old) \in 1 .. BlockSize /\ (b < n => Len(old) = BlockSize)
  BY <1>1, <1>3, <1>4 DEF LaidOut
<1>6. bkt' = CacheSet(bkt, b, new) /\ stack' = <<Advance(f, k, Len(new) - Len(old), 0)>>
  <2>1. Fetched(b) = {old}
    BY <1>5 DEF Fetched
  <2>2. PICK o \in Fetched(b) :
          LET w == Patch(o, start, k, f.rest)
          IN  /\ bkt' = CacheSet(bkt, b, w)
              /\ stack' = <<Advance(f, k, Len(w) - Len(o), 0)>> \o Tail(stack)
    BY DEF OldBucket, Continue
  <2>3. o = old
    BY <2>1
  <2> QED
    BY <1>2, <2>2, <2>3
<1>7. hdr.num_buckets \in Nat /\ old \in Seq(Byte)
  BY <1>2, <1>5, BucketBytes DEF TypeOK, Header
<1> HIDE DEF k, start, n, b, old, new
<1>8. /\ f.offset = Pos(b) + start /\ Pos(b) \in Nat /\ Pos(b) <= f.offset /\ start \in Nat
      /\ f.offset < Pos(b) + BlockSize
  <2>1. /\ Pos(b) <= f.offset /\ f.offset < Pos(b) + BlockSize
        /\ f.offset % BlockSize = f.offset - Pos(b)
    BY <1>3, <1>4, PosBucket
  <2>2. Pos(b) \in Nat
    BY <1>3, PosSteps
  <2> QED
    BY <1>3, <2>1, <2>2 DEF start
<1>9. /\ k \in 1 .. Len(f.rest) /\ k \in Nat /\ k >= 1 /\ k <= Len(f.rest) /\ start + k <= BlockSize
      /\ k = Len(f.rest) \/ start + k = BlockSize
  <2>1. k \in Nat /\ k <= Len(f.rest) /\ k <= BlockSize - start /\ k \in {Len(f.rest), BlockSize - start}
    BY OldBytes DEF k, start
  <2>2. BlockSize \in Nat /\ start < BlockSize
    BY <1>3, <1>8, FileIOAssumption
  <2> QED
    BY <1>3, <1>8, <2>1, <2>2
<1>10. /\ new \in Seq(Byte) /\ Len(new) = Most(Len(old), start + k)
       /\ \A i \in 1 .. Len(new) : new[i] = IF i > start /\ i <= start + k THEN f.rest[i - start]
                                            ELSE IF i <= Len(old) THEN old[i] ELSE Junk
  <2>1. old \in Seq(Byte) /\ f.rest \in Seq(Byte) /\ start \in Nat /\ k \in Nat /\ k <= Len(f.rest)
    BY <1>3, <1>7, <1>8, <1>9
  <2>2. new \in Seq(Byte) /\ Len(new) = Most(Len(old), start + k)
    <3>1. \A o, t \in Seq(Byte), x, m \in Nat : m <= Len(t) =>
            Patch(o, x, m, t) \in Seq(Byte) /\ Len(Patch(o, x, m, t)) = Most(Len(o), x + m)
      BY PatchType, ZenonT(60)
    <3> QED
      BY <2>1, <3>1, Zenon DEF new
  <2>3. ASSUME NEW i \in 1 .. Len(new)
        PROVE  new[i] = IF i > start /\ i <= start + k THEN f.rest[i - start]
                        ELSE IF i <= Len(old) THEN old[i] ELSE Junk
    <3>1. i \in 1 .. Most(Len(old), start + k)
      BY <2>2
    <3> QED
      BY <3>1 DEF new, Patch
  <2> QED
    BY <2>2, <2>3
<1>11. Held(n) \in Nat /\ (b = n => Held(n) = Pos(b) + Len(old)) /\ (b < n => Pos(b) + BlockSize < Held(n))
  <2>1. Held(n) \in Nat /\ Pos(n) \in Nat /\ Len(bkt[n]) \in 1 .. BlockSize /\ Held(n) = Pos(n) + Len(bkt[n])
    BY <1>2, <1>3, <1>4, <1>5, HeldFacts
  <2>2. b < n => Pos(b) + BlockSize <= Pos(n)
    BY <1>3, <1>5, PosOrder
  <2> QED
    BY <1>3, <1>5, <1>8, <2>1, <2>2, FileIOAssumption DEF old
<1>12. start <= Len(old) /\ Len(new) \in Len(old) .. BlockSize /\ (b < n => Len(new) = BlockSize)
  BY <1>3, <1>4, <1>5, <1>8, <1>9, <1>10, <1>11, FileIOAssumption, SMTT(60) DEF Most
<1>13. DOMAIN bkt' = DOMAIN bkt /\ bkt'[b] = new /\ \A i \in DOMAIN bkt \ {b} : bkt'[i] = bkt[i]
  BY <1>5, <1>6 DEF CacheSet
<1>14. LaidOut(n)'
  <2>1. ASSUME NEW i \in 1 .. n
        PROVE  i \in DOMAIN bkt' /\ Len(bkt'[i]) \in 1 .. BlockSize
               /\ (i < n => Len(bkt'[i]) = BlockSize)
    <3>1. CASE i = b
      BY <3>1, <1>5, <1>12, <1>13, FileIOAssumption
    <3>2. CASE i # b
      BY <3>2, <1>4, <1>13 DEF LaidOut
    <3> QED
      BY <3>1, <3>2
  <2> QED
    BY <2>1 DEF LaidOut, n
<1>15. Held(n)' = IF b = n THEN Pos(b) + Len(new) ELSE Held(n)
  <2>1. n # 0 /\ n \in DOMAIN bkt
    BY <1>3, <1>4, <1>5 DEF LaidOut
  <2>2. Held(n)' = Pos(n) + Len(bkt'[n]) /\ Held(n) = Pos(n) + Len(bkt[n])
    BY <2>1 DEF Held, Pos, n
  <2> QED
    BY <1>13, <2>1, <2>2
<1>16. Held(n)' = Most(Held(n), f.offset + k) /\ Held(n)' - Held(n) = Len(new) - Len(old)
       /\ Held(n)' >= Held(n)
  BY <1>3, <1>5, <1>8, <1>9, <1>10, <1>11, <1>12, <1>15, FileIOAssumption, SMTT(60) DEF Most
<1>17. Held(hdr.num_buckets)' >= Held(hdr.num_buckets)
  <2> DEFINE N == hdr.num_buckets
  <2>1. N' = N /\ N \in 0 .. n /\ Held(N) \in Nat
    BY <1>1, <1>2, <1>3, <1>4, <1>7, FewerHeld DEF n
  <2>2. CASE N = 0
    BY <2>1, <2>2 DEF Held
  <2>3. CASE N # 0
    <3>1. N \in DOMAIN bkt /\ N \in Nat \ {0}
      BY <1>3, <1>4, <2>1, <2>3 DEF LaidOut
    <3>2. Held(N)' = Pos(N) + Len(bkt'[N]) /\ Held(N) = Pos(N) + Len(bkt[N])
      BY <2>1, <2>3 DEF Held, Pos
    <3>3. Pos(N) \in Nat /\ Len(bkt[N]) \in Nat
      BY <1>2, <3>1, PosSteps, BucketBytes
    <3>4. Len(bkt'[N]) \in Nat /\ Len(bkt'[N]) >= Len(bkt[N])
      <4>1. CASE N = b
        BY <4>1, <1>5, <1>12, <1>13, FileIOAssumption DEF old
      <4>2. CASE N # b
        BY <4>2, <1>13, <3>1, <3>3
      <4> QED
        BY <4>1, <4>2
    <3> QED
      BY <3>2, <3>3, <3>4
  <2> QED
    BY <2>2, <2>3
<1>18. ASSUME NEW q \in 1 .. Held(n)'
       PROVE  ByteAt(q)' = IF q > f.offset /\ q <= f.offset + k THEN f.rest[q - f.offset] ELSE ByteAt(q)
  <2>1. Held(n)' \in Nat /\ q \in Nat /\ q >= 1 /\ q - 1 \in Nat
    BY <1>3, <1>9, <1>11, <1>16 DEF Most
  <2>2. ASSUME ~(q > f.offset /\ q <= f.offset + k) PROVE q \in 1 .. Held(n)
    BY <1>3, <1>4, <1>9, <1>11, <1>16, <2>1, <2>2 DEF Most
  <2>3. CASE BucketOf(q - 1) # b
    <3>1. ~(q > f.offset /\ q <= f.offset + k)
      <4> SUFFICES ASSUME q > f.offset, q <= f.offset + k PROVE BucketOf(q - 1) = b
        BY <2>3
      <4>1. Pos(b) < q /\ q <= Pos(b) + BlockSize
        BY <1>3, <1>8, <1>9, <2>1, FileIOAssumption, SMTT(60)
      <4> QED
        BY <1>3, <2>1, <4>1, ByteOf DEF b
    <3>2. BucketOf(q - 1) \in DOMAIN bkt \ {b}
      BY <1>2, <1>3, <1>4, <2>2, <2>3, <3>1, ByteIn DEF n
    <3> QED
      BY <1>13, <3>1, <3>2 DEF ByteAt
  <2>4. CASE BucketOf(q - 1) = b
    <3>1. /\ (q - 1) % BlockSize = q - 1 - Pos(b)
          /\ Pos(b) <= q - 1 /\ q - 1 < Pos(b) + BlockSize
      BY <2>1, <2>4, PosBucket
    <3>2. 1 + ((q - 1) % BlockSize) = q - Pos(b)
      BY <1>8, <2>1, <3>1
    <3>3. ByteAt(q)' = new[q - Pos(b)] /\ ByteAt(q) = old[q - Pos(b)]
      BY <1>13, <2>4, <3>2 DEF ByteAt, old
    <3>4. CASE q > f.offset /\ q <= f.offset + k
      <4>0. Len(old) \in Nat /\ Len(new) >= start + k /\ Len(new) \in Nat
        BY <1>5, <1>8, <1>9, <1>10, FileIOAssumption DEF Most
      <4>1. /\ q - Pos(b) \in 1 .. Len(new) /\ q - Pos(b) > start /\ q - Pos(b) <= start + k
            /\ (q - Pos(b)) - start = q - f.offset
        BY <1>8, <1>9, <2>1, <3>4, <4>0
      <4> QED
        BY <1>10, <3>3, <3>4, <4>1
    <3>5. CASE ~(q > f.offset /\ q <= f.offset + k)
      <4>1. q <= Pos(b) + Len(old)
        BY <1>2, <1>3, <1>4, <2>2, <2>4, <3>5, ByteIn DEF n, old
      <4>2. /\ q - Pos(b) \in Nat /\ q - Pos(b) >= 1 /\ q - Pos(b) <= Len(old)
            /\ ~(q - Pos(b) > start /\ q - Pos(b) <= start + k)
        BY <1>5, <1>8, <1>9, <2>1, <3>1, <3>5, <4>1, SMTT(60)
      <4>4. q - Pos(b) \in 1 .. Len(new)
        BY <1>5, <1>12, <4>2, FileIOAssumption
      <4>3. new[q - Pos(b)] = old[q - Pos(b)]
        BY <1>10, <4>2, <4>4
      <4> QED
        BY <3>3, <3>5, <4>3
    <3> QED
      BY <3>4, <3>5
  <2> QED
    BY <2>3, <2>4
<1>19. k < Len(f.rest) => BucketOf(f.offset + k) = b + 1
  <2> SUFFICES ASSUME k < Len(f.rest) PROVE BucketOf(f.offset + k) = b + 1
    OBVIOUS
  <2>1. start + k = BlockSize
    BY <1>9
  <2>2. Pos(b + 1) = Pos(b) + BlockSize /\ b \in Nat \ {0}
    BY <1>3, PosSteps DEF b
  <2>3. Pos(b + 1) = f.offset + k /\ b + 1 \in Nat \ {0} /\ f.offset + k \in Nat
    BY <1>3, <1>8, <1>9, <2>1, <2>2, FileIOAssumption, SMTT(60)
  <2> QED
    BY <2>3, BucketUnique, FileIOAssumption
<1>20. n + 0 = n /\ Len(new) - Len(old) = (Held(n)' - Held(n)) + StructSize * 0
  BY <1>3, <1>5, <1>11, <1>12, <1>16, FileIOAssumption
<1>21. TurnOf(f, k, 0)
  BY <1>1, <1>6, <1>9, <1>14, <1>16, <1>17, <1>18, <1>19, <1>20, Zenon DEF TurnOf, n, b
<1> QED
  BY <1>21 DEF k

\* The bytes held, after a step.
LEMMA HeldNext ==
  ASSUME TypeOK', NEW n \in Nat, LaidOut(n)'
  PROVE  Held(n)' \in Nat /\ (n = hdr'.num_buckets => Stored' = Held(n)')
<1>1. CASE n = 0
  <2>1. 0 \notin DOMAIN bkt'
    BY DEF TypeOK, IsStore
  <2> QED
    BY <1>1, <2>1 DEF Held, Stored
<1>2. CASE n > 0
  <2>1. n \in DOMAIN bkt' /\ Len(bkt'[n]) \in 1 .. BlockSize
    BY <1>2 DEF LaidOut
  <2>2. Pos(n) \in Nat
    BY <1>2, PosSteps
  <2>3. Held(n)' = Pos(n) + Len(bkt'[n]) /\ Len(bkt'[n]) \in Nat
    BY <1>2, <2>1, FileIOAssumption DEF Held, Pos
  <2>4. n = hdr'.num_buckets => Stored' = Pos(n) + Len(bkt'[n])
    BY <2>1 DEF Stored, Pos
  <2> QED
    BY <2>2, <2>3, <2>4
<1> QED
  BY <1>1, <1>2

\* A turn leaves the write where its new frame says it is.
LEMMA TurnKeeps ==
  ASSUME IndInv, ~gapped, stack # <<>>, TypeOK', NEW f \in Frame, f = Running,
         NEW k \in Nat, NEW added \in {0, 1}, TurnOf(f, k, added)
  PROVE  ContentInv'
<1> DEFINE m == f.num_buckets
           n == m + added
           N == hdr.num_buckets
           old == Held(m)
           now == Held(n)'
           grown == (now - old) + StructSize * added
<1>1. /\ InWrite(f) /\ reading = NoRead /\ TypeOK /\ Len(before) <= Stored
      /\ hdr.data_len <= Stored + StructSize * N /\ LaidOut(N)
  BY OneFrame DEF IndInv, ContentInv
<1>2. /\ f.rest \in Seq(Byte) /\ Len(f.rest) \in Nat /\ f.offset \in Nat
      /\ m \in Nat /\ n \in Nat /\ f.data_len \in Nat
  BY FrameFields
<1>3. /\ N \in Nat /\ hdr.data_len \in Nat
      /\ before \in Seq(Byte) /\ Len(before) \in Nat /\ want \in Seq(Byte) /\ Len(want) \in Nat
  BY <1>1 DEF TypeOK, Header
<1>4. /\ k \in 1 .. Len(f.rest) /\ (k < Len(f.rest) => BucketOf(f.offset + k) = f.bucket + 1)
      /\ stack' = <<Advance(f, k, grown, added)>> /\ now >= old
      /\ LaidOut(n)' /\ now = Most(old, f.offset + k) /\ Held(N)' >= Held(N)
      /\ UNCHANGED <<hdr, reading, history>>
  BY Zenon DEF TurnOf
<1>5. ASSUME NEW q \in 1 .. now
      PROVE  ByteAt(q)' = IF q > f.offset /\ q <= f.offset + k THEN f.rest[q - f.offset] ELSE ByteAt(q)
  BY Zenon DEF TurnOf
<1>6. /\ N <= m /\ LaidOut(m) /\ f.offset <= old /\ old = Most(Len(before), f.offset)
      /\ f.data_len <= old + StructSize * m
      /\ (~crashed => f.data_len = old + StructSize * m)
  BY <1>1 DEF InWrite, Counted
<1>7. old \in Nat /\ now \in Nat /\ Stored = Held(N) /\ Held(N) \in Nat
  BY <1>1, <1>2, <1>3, <1>4, <1>6, HeldFacts, HeldNext
<1> HIDE DEF m, n, N, old, now
<1>8. grown \in Nat
  BY <1>4, <1>7, FileIOAssumption
<1>9. PICK g \in Frame :
        /\ stack' = <<g>> /\ g.rest = SubSeq(f.rest, k + 1, Len(f.rest)) /\ g.offset = f.offset + k
        /\ g.bucket = f.bucket + 1 /\ g.data_len = f.data_len + grown /\ g.num_buckets = n
  <2> HIDE DEF grown
  <2> DEFINE g == Advance(f, k, grown, added)
             r == SubSeq(f.rest, k + 1, Len(f.rest))
  <2>1. k \in Nat /\ k <= Len(f.rest) /\ added \in Nat
    BY <1>2, <1>4
  <2>2. /\ g \in Frame /\ g.offset = f.offset + k /\ g.bucket = f.bucket + 1
        /\ g.data_len = f.data_len + grown /\ g.num_buckets = f.num_buckets + added
    BY <1>8, <2>1, AdvanceType
  <2>3. g.rest = r
    <3>1. g = [f EXCEPT !.rest = r, !.offset = f.offset + k, !.bucket = f.bucket + 1,
                        !.data_len = f.data_len + grown, !.num_buckets = f.num_buckets + added]
      BY Zenon DEF Advance
    <3> HIDE DEF r, g
    <3> QED
      BY <3>1 DEF Frame
  <2>4. stack' = <<g>>
    BY <1>4
  <2> HIDE DEF g
  <2> QED
    BY <2>2, <2>3, <2>4 DEF n, m
<1>10. /\ Len(g.rest) = Len(f.rest) - k /\ Len(g.rest) \in Nat /\ g.rest \in Seq(Byte)
       /\ \A i \in 1 .. Len(g.rest) : g.rest[i] = f.rest[k + i]
  BY <1>2, <1>4, <1>9, Rest, FrameFields, SMTT(60)
<1> HIDE DEF grown
<1>11. InWrite(g)'
  <2>1. N' <= n /\ N' = N
    BY <1>2, <1>3, <1>4, <1>6, SMTT(60) DEF n, N, m
  <2>2. Counted(g.data_len, n)'
    <3>1. /\ grown = (now - old) + StructSize * added /\ StructSize * m \in Nat
          /\ StructSize * added \in Nat /\ StructSize * n = StructSize * m + StructSize * added
      BY <1>2, FileIOAssumption, SMTT(60) DEF grown, n, m
    <3>2. g.data_len = f.data_len + ((now - old) + StructSize * added) /\ f.data_len \in Nat
      BY <1>2, <1>9, <3>1
    <3>3. /\ g.data_len <= now + StructSize * n
          /\ ~crashed => g.data_len = now + StructSize * n
      BY <1>6, <1>7, <3>1, <3>2, SMTT(60)
    <3> QED
      BY <1>4, <3>3 DEF Counted, now, history
  <2>3. g.rest # <<>> => g.bucket = BucketOf(g.offset)
    BY <1>2, <1>4, <1>9, <1>10, EmptySeq
  <2>4. g.offset <= now /\ now = Most(Len(before), g.offset)
    BY <1>2, <1>3, <1>4, <1>6, <1>7, <1>9, SMTT(60) DEF Most
  <2>5. ASSUME NEW q \in 1 .. g.offset PROVE ByteAt(q)' = want[q]
    <3>1. q \in 1 .. now /\ q \in Nat
      BY <1>2, <1>7, <1>9, <2>4
    <3>2. CASE q > f.offset
      <4>1. ByteAt(q)' = f.rest[q - f.offset] /\ q - f.offset \in 1 .. Len(f.rest)
        BY <1>2, <1>4, <1>5, <1>9, <3>1, <3>2, SMTT(60)
      <4>2. want[f.offset + (q - f.offset)] = f.rest[q - f.offset]
        BY <1>1, <4>1 DEF InWrite
      <4> QED
        BY <1>2, <3>1, <4>1, <4>2
    <3>3. CASE q <= f.offset
      BY <1>1, <1>2, <1>5, <3>1, <3>3 DEF InWrite
    <3> QED
      BY <1>2, <3>1, <3>2, <3>3
  <2>6. ASSUME NEW q \in g.offset + 1 .. Len(before) PROVE ByteAt(q)' = before[q]
    <3>1. q \in 1 .. now /\ q \in Nat /\ q > f.offset + k /\ q \in f.offset + 1 .. Len(before)
      BY <1>2, <1>3, <1>7, <1>9, <2>4, SMTT(60) DEF Most
    <3> QED
      BY <1>1, <1>2, <1>5, <3>1 DEF InWrite
  <2>7. Len(want) = Most(Len(before), g.offset + Len(g.rest))
    <3>1. g.offset + Len(g.rest) = f.offset + Len(f.rest)
      BY <1>2, <1>9, <1>10, SMTT(60)
    <3> QED
      BY <1>1, <3>1 DEF InWrite
  <2>8. ASSUME NEW i \in 1 .. Len(g.rest) PROVE want[g.offset + i] = g.rest[i]
    <3>1. k + i \in 1 .. Len(f.rest) /\ f.offset + (k + i) = g.offset + i
      BY <1>2, <1>9, <1>10
    <3>2. want[f.offset + (k + i)] = f.rest[k + i]
      BY <1>1, <3>1 DEF InWrite
    <3> QED
      BY <1>10, <3>1, <3>2
  <2>9. ASSUME NEW q \in g.offset + Len(g.rest) + 1 .. Len(before) PROVE want[q] = before[q]
    <3>1. q \in f.offset + Len(f.rest) + 1 .. Len(before)
      BY <1>2, <1>9, <1>10, SMTT(60)
    <3> QED
      BY <1>1, <3>1 DEF InWrite
  <2>10. want' = want /\ before' = before /\ g.num_buckets = n /\ LaidOut(n)' /\ Held(n)' = now
    BY <1>4, <1>9 DEF history, now
  <2> QED
    BY <2>1, <2>2, <2>3, <2>4, <2>5, <2>6, <2>7, <2>8, <2>9, <2>10 DEF InWrite, N
<1>12. LaidOut(N)' /\ N' = N
  BY <1>2, <1>3, <1>4, <1>6, SMTT(60) DEF LaidOut, n, N, m
<1>13. Stored' = Held(N)' /\ Held(N)' \in Nat
  BY <1>3, <1>12, HeldNext DEF N
<1>14. StructSize * N \in Nat
  BY <1>3, FileIOAssumption
<1>15. Len(before) <= Stored' /\ hdr.data_len <= Stored' + StructSize * N
  BY <1>1, <1>3, <1>4, <1>7, <1>13, <1>14, SMTT(60)
<1>16. stack' # <<>> /\ Len(stack') = 1 /\ stack'[1] = g
  BY <1>9
<1>17. gapped' = gapped /\ before' = before /\ hdr' = hdr /\ reading' = NoRead
  BY <1>1, <1>4 DEF history
<1> QED
  BY <1>11, <1>12, <1>15, <1>16, <1>17 DEF ContentInv, N

\* The loop is done: every byte is new or, beyond the write, what it was.
LEMMA WriteEndKeeps ==
  ASSUME IndInv, ~gapped, WriteEnd, TypeOK', NEW f \in Frame, f = Running
  PROVE  ContentInv'
<1>1. /\ stack # <<>> /\ f.rest = <<>> /\ bkt' = bkt /\ reading' = reading
      /\ want' = want /\ before' = before /\ gapped' = gapped /\ crashed' = crashed
      /\ hdr' = [data_len |-> f.data_len, num_buckets |-> f.num_buckets]
  BY DEF WriteEnd, history
<1>2. InWrite(f) /\ reading = NoRead /\ stack' = <<>>
  BY <1>1, OneFrame DEF WriteEnd
<1>3. f.offset \in Nat /\ f.num_buckets \in Nat /\ Len(f.rest) = 0
  BY <1>1, FrameFields
<1>4. hdr'.num_buckets = f.num_buckets /\ hdr'.data_len = f.data_len
  BY <1>1
<1>5. LaidOut(f.num_buckets)' /\ Held(f.num_buckets)' = Held(f.num_buckets)
  BY <1>1, <1>2 DEF InWrite, LaidOut, Held
<1>6. Stored' = Held(f.num_buckets) /\ Held(f.num_buckets) \in Nat
  BY <1>3, <1>4, <1>5, HeldNext
<1>7. before \in Seq(Byte) /\ Len(before) \in Nat
  BY DEF IndInv, TypeOK
<1>8. /\ Held(f.num_buckets) = Most(Len(before), f.offset)
      /\ Len(want) = Most(Len(before), f.offset + Len(f.rest))
  BY <1>2 DEF InWrite
<1>9. Len(want) = Stored' /\ Len(before) <= Stored'
  BY <1>3, <1>6, <1>7, <1>8 DEF Most
<1>10. Counted(f.data_len, f.num_buckets)'
  BY <1>1, <1>2, <1>5 DEF InWrite, Counted
<1>11. f.data_len <= Stored' + StructSize * f.num_buckets
  BY <1>2, <1>6 DEF InWrite, Counted
<1>12. ASSUME NEW q \in 1 .. Stored' PROVE ByteAt(q)' = want[q]
  <2>1. ByteAt(q)' = ByteAt(q) /\ q \in Nat
    BY <1>1, <1>6 DEF ByteAt
  <2>2. CASE q <= f.offset
    BY <1>2, <1>3, <1>6, <2>1, <2>2 DEF InWrite
  <2>3. CASE q > f.offset
    <3>1. q \in f.offset + 1 .. Len(before) /\ q \in f.offset + Len(f.rest) + 1 .. Len(before)
      BY <1>3, <1>6, <1>7, <1>8, <2>1, <2>3 DEF Most
    <3> QED
      BY <1>2, <2>1, <3>1 DEF InWrite
  <2> QED
    BY <1>3, <2>1, <2>2, <2>3
<1>13. AtRest'
  BY <1>1, <1>4, <1>9, <1>10, <1>12 DEF AtRest
<1> QED
  BY <1>1, <1>2, <1>4, <1>5, <1>9, <1>11, <1>13 DEF ContentInv

\* What a step that leaves the server alone leaves alone.
LEMMA SameServer ==
  ASSUME UNCHANGED server
  PROVE  /\ hdr' = hdr /\ bkt' = bkt /\ Stored' = Stored
         /\ \A n : (LaidOut(n)' <=> LaidOut(n)) /\ Held(n)' = Held(n)
         /\ \A q : ByteAt(q)' = ByteAt(q)
<1>1. hdr' = hdr /\ bkt' = bkt
  BY DEF server
<1> QED
  BY <1>1 DEF Stored, LaidOut, Held, ByteAt

\* A write that leaves no gap starts with every byte old.
LEMMA WriteKeeps ==
  ASSUME IndInv, NEW off \in Nat, NEW buf \in Seq(Byte), Write(buf, off), ~gapped', TypeOK'
  PROVE  ContentInv'
<1> DEFINE n == hdr.num_buckets
<1>1. /\ ~gapped /\ off <= Stored /\ off <= hdr.data_len /\ Idle
      /\ before' = want /\ want' = Overlay(want, off, buf)
      /\ stack' = Calls(buf, off) /\ UNCHANGED server /\ reading' = reading /\ crashed' = crashed
  <2>1. gapped' = (gapped \/ off > Stored \/ off > hdr.data_len)
    BY Zenon DEF Write
  <2>2. ~gapped /\ ~(off > Stored) /\ ~(off > hdr.data_len)
    BY <2>1, Zenon
  <2>3. Stored \in Nat /\ hdr.data_len \in Nat
    BY StoredType DEF IndInv, TypeOK, Header
  <2> QED
    BY <2>2, <2>3 DEF Write
<1>2. TypeOK /\ LaidOut(n) /\ hdr.data_len <= Stored + StructSize * n /\ AtRest /\ reading = NoRead
  BY <1>1 DEF IndInv, ContentInv, Idle
<1>3. /\ n \in Nat /\ hdr.data_len \in Nat /\ want \in Seq(Byte) /\ Len(want) \in Nat
      /\ buf \in Seq(Byte) /\ Len(buf) \in Nat
  BY <1>2 DEF TypeOK, Header
<1>4. Stored = Held(n) /\ Stored \in Nat /\ Len(want) = Stored
  BY <1>2, <1>3, HeldFacts DEF AtRest
<1>5. /\ Len(want') = Most(Len(want), off + Len(buf))
      /\ \A q \in 1 .. Most(Len(want), off + Len(buf)) :
           want'[q] = IF q > off /\ q <= off + Len(buf) THEN buf[q - off]
                      ELSE IF q <= Len(want) THEN want[q] ELSE Zero
  <2>1. \A c, b \in Seq(Byte), x \in Nat :
          /\ Len(Overlay(c, x, b)) = Most(Len(c), x + Len(b))
          /\ \A q \in 1 .. Most(Len(c), x + Len(b)) :
               Overlay(c, x, b)[q] = IF q > x /\ q <= x + Len(b) THEN b[q - x]
                                     ELSE IF q <= Len(c) THEN c[q] ELSE Zero
    BY OverlayType
  <2>2. want' = Overlay(want, off, buf)
    BY <1>1
  <2>3. Len(Overlay(want, off, buf)) = Most(Len(want), off + Len(buf))
    BY <1>3, <2>1
  <2>4. \A q \in 1 .. Most(Len(want), off + Len(buf)) :
          Overlay(want, off, buf)[q] = IF q > off /\ q <= off + Len(buf) THEN buf[q - off]
                                       ELSE IF q <= Len(want) THEN want[q] ELSE Zero
    BY <1>3, <2>1
  <2> QED
    BY <2>2, <2>3, <2>4
<1>6. PICK g : 
      /\ stack' = <<g>> /\ g.rest = buf /\ g.offset = off /\ g.bucket = BucketOf(off)
      /\ g.data_len = hdr.data_len /\ g.num_buckets = n
  <2> DEFINE g == Call(buf, off, hdr.data_len, n)
  <2>1. stack' = <<g>>
    BY <1>1, <1>3 DEF Calls
  <2>2. /\ g.rest = buf /\ g.offset = off /\ g.bucket = BucketOf(off)
        /\ g.data_len = hdr.data_len /\ g.num_buckets = n
    BY DEF Call
  <2> QED
    BY <2>1, <2>2
<1>7. /\ hdr' = hdr /\ Stored' = Stored /\ LaidOut(n)' /\ Held(n)' = Held(n)
      /\ \A q : ByteAt(q)' = ByteAt(q)
  BY <1>1, <1>2, SameServer
<1>8. InWrite(g)'
  <2>2. Counted(g.data_len, n)'
    BY <1>1, <1>2, <1>6, <1>7 DEF AtRest, Counted
  <2>3. g.offset <= Held(n) /\ Held(n) = Most(Len(want), g.offset)
    BY <1>1, <1>4, <1>6 DEF Most
  <2>4. ASSUME NEW q \in 1 .. off PROVE ByteAt(q)' = want'[q]
    <3>1. q \in 1 .. Stored /\ q \in 1 .. Most(Len(want), off + Len(buf)) /\ ~(q > off) /\ q <= Len(want)
      BY <1>1, <1>3, <1>4 DEF Most
    <3> QED
      BY <1>2, <1>5, <1>7, <3>1 DEF AtRest
  <2>5. ASSUME NEW q \in off + 1 .. Len(want) PROVE ByteAt(q)' = want[q]
    BY <1>2, <1>4, <1>7 DEF AtRest
  <2>6. ASSUME NEW i \in 1 .. Len(buf) PROVE want'[off + i] = buf[i]
    <3>1. /\ off + i \in 1 .. Most(Len(want), off + Len(buf)) /\ off + i > off
          /\ off + i <= off + Len(buf) /\ (off + i) - off = i
      BY <1>3 DEF Most
    <3> QED
      BY <1>5, <3>1
  <2>7. ASSUME NEW q \in off + Len(buf) + 1 .. Len(want) PROVE want'[q] = want[q]
    <3>1. /\ q \in 1 .. Most(Len(want), off + Len(buf)) /\ ~(q <= off + Len(buf)) /\ q <= Len(want)
      BY <1>3 DEF Most
    <3> QED
      BY <1>5, <3>1
  <2> QED
    BY <1>1, <1>3, <1>5, <1>6, <1>7, <2>2, <2>3, <2>4, <2>5, <2>6, <2>7 DEF InWrite
<1>9. stack' # <<>> /\ Len(stack') = 1 /\ stack'[1] = g
  BY <1>6
<1> QED
  BY <1>1, <1>2, <1>4, <1>7, <1>8, <1>9 DEF ContentInv

\* Whatever leaves the server and the history alone, and runs no write.
LEMMA RestKeeps ==
  ASSUME IndInv, ~gapped, stack = <<>>, UNCHANGED <<server, stack, want, before, gapped, crashed>>,
         reading' # NoRead => InRead'
  PROVE  ContentInv'
<1>1. /\ hdr' = hdr /\ Stored' = Stored /\ \A m : (LaidOut(m)' <=> LaidOut(m)) /\ Held(m)' = Held(m)
      /\ \A q : ByteAt(q)' = ByteAt(q)
  BY SameServer
<1>2. /\ LaidOut(hdr.num_buckets) /\ Len(before) <= Stored
      /\ hdr.data_len <= Stored + StructSize * hdr.num_buckets /\ AtRest
  BY DEF IndInv, ContentInv
<1>3. AtRest'
  BY <1>1, <1>2 DEF AtRest, Counted
<1> QED
  BY <1>1, <1>2, <1>3 DEF ContentInv

\* A read starts with nothing read.
LEMMA ReadKeeps ==
  ASSUME IndInv, ~gapped, NEW off \in Nat, NEW n \in Nat, Read(off, n)
  PROVE  ContentInv'
<1>1. /\ stack = <<>> /\ UNCHANGED <<server, stack, want, before, gapped, crashed>>
      /\ reading' = [from |-> off, out |-> <<>>, offset |-> off, bucket |-> BucketOf(off),
                     size |-> Least(n, hdr.data_len - off)]
  BY DEF Read, Idle, history
<1>2. InRead'
  BY <1>1 DEF InRead
<1> QED
  BY <1>1, <1>2, RestKeeps

\* One turn of a read copies the bytes from where it is, and finds the next
\* bucket unless it is beyond the last byte.
LEMMA ReadBucketKeeps ==
  ASSUME IndInv, ~gapped, ReadBucket
  PROVE  ContentInv'
<1> DEFINE x == reading.offset
           b == reading.bucket
           size == Len(want)
           start == x % BlockSize
<1>1. /\ stack = <<>> /\ reading # NoRead /\ reading.size > 0
      /\ UNCHANGED <<server, stack, want, before, gapped, crashed>>
  BY DEF IndInv, ReadBucket, history
<1>2. /\ TypeOK /\ AtRest /\ InRead /\ LaidOut(hdr.num_buckets) /\ reading \in Reading
  BY <1>1 DEF IndInv, ContentInv, TypeOK
<1>3. /\ hdr.num_buckets \in Nat /\ size \in Nat /\ size = Stored /\ Stored = Held(hdr.num_buckets)
  <2>1. hdr.num_buckets \in Nat /\ want \in Seq(Byte)
    BY <1>2 DEF TypeOK, Header
  <2> QED
    BY <1>2, <2>1, HeldFacts DEF AtRest
<1>4. PICK bytes \in Fetched(b), n \in Nat, more \in Seq(Byte) :
        /\ bytes \in Seq(Byte) /\ n <= reading.size /\ n <= BlockSize - start
        /\ n <= Len(bytes) /\ n \in {reading.size, BlockSize - start, Len(bytes)}
        /\ Len(more) = n
        /\ more = [i \in 1 .. n |-> IF start + i <= Len(bytes)
                                    THEN bytes[start + i] ELSE Junk]
        /\ reading' = [from |-> reading.from, out |-> reading.out \o more,
                       offset |-> x + n, size |-> reading.size - n, bucket |-> b + 1]
  BY <1>2, ReadTurn, Zenon
<1>5. /\ x \in Nat /\ reading.from \in Nat /\ reading.out \in Seq(Byte) /\ Len(reading.out) \in Nat
      /\ reading.size \in Nat /\ b \in Nat \ {0} /\ Len(bytes) \in Nat
      /\ x = reading.from + Len(reading.out)
  BY <1>2, <1>4, ReadingFields DEF InRead
<1> DEFINE out == reading.out \o more
<1>6. /\ Len(out) = Len(reading.out) + n
      /\ \A j \in 1 .. Len(reading.out) : out[j] = reading.out[j]
      /\ \A i \in 1 .. n : out[Len(reading.out) + i] = more[i]
  BY <1>4, <1>5, ConcatProperties, SMTT(60)
<1> HIDE DEF x, b, size, out, start
<1>7. /\ start \in Nat /\ start + n <= BlockSize /\ n \in Nat /\ n <= Len(bytes)
      /\ n = reading.size \/ start + n = BlockSize \/ n = Len(bytes)
  <2>1. start \in Nat /\ start < BlockSize /\ BlockSize \in Nat
    BY <1>5, FileIOAssumption DEF start
  <2>2. n <= BlockSize - start /\ n \in {reading.size, BlockSize - start, Len(bytes)} /\ n <= Len(bytes)
    BY <1>4
  <2> QED
    BY <1>5, <2>1, <2>2
<1>8. x < size => /\ b \in DOMAIN bkt /\ bytes = bkt[b] /\ Pos(b) \in Nat /\ Pos(b) <= x
                  /\ x = Pos(b) + start /\ Len(bytes) \in 1 .. BlockSize
                  /\ (b < hdr.num_buckets => Len(bytes) = BlockSize)
                  /\ (b = hdr.num_buckets => size = Pos(b) + Len(bytes))
                  /\ b <= hdr.num_buckets
  <2> SUFFICES ASSUME x < size
               PROVE  /\ b \in DOMAIN bkt /\ bytes = bkt[b] /\ Pos(b) \in Nat /\ Pos(b) <= x
                      /\ x = Pos(b) + start /\ Len(bytes) \in 1 .. BlockSize
                      /\ (b < hdr.num_buckets => Len(bytes) = BlockSize)
                      /\ (b = hdr.num_buckets => size = Pos(b) + Len(bytes))
                      /\ b <= hdr.num_buckets
    OBVIOUS
  <2>1. b = BucketOf(x)
    BY <1>1, <1>2 DEF InRead, x, b, size
  <2>2. x + 1 \in 1 .. Held(hdr.num_buckets) /\ (x + 1) - 1 = x
    BY <1>3, <1>5, SMTT(60)
  <2>3. b \in 1 .. hdr.num_buckets
    BY <1>2, <1>3, <2>1, <2>2, ByteIn
  <2>4. b \in DOMAIN bkt /\ Len(bkt[b]) \in 1 .. BlockSize /\ (b < hdr.num_buckets => Len(bkt[b]) = BlockSize)
    BY <1>2, <2>3 DEF LaidOut
  <2>5. bytes = bkt[b]
    BY <1>4, <2>4 DEF Fetched
  <2>6. Pos(b) \in Nat /\ Pos(b) <= x /\ x = Pos(b) + start
    <3>1. Pos(b) <= x /\ x % BlockSize = x - Pos(b) /\ b \in Nat \ {0}
      BY <1>5, <2>1, PosBucket
    <3>2. Pos(b) \in Nat
      BY <3>1, PosSteps
    <3> QED
      BY <1>5, <3>1, <3>2 DEF start
  <2>7. b = hdr.num_buckets => size = Pos(b) + Len(bkt[b])
    BY <1>2, <1>3, <1>5, HeldFacts
  <2> QED
    BY <1>3, <2>3, <2>4, <2>5, <2>6, <2>7
<1>9. ASSUME NEW j \in 1 .. Len(out), reading.from + j <= size
      PROVE  out[j] = want[reading.from + j]
  <2>1. CASE j <= Len(reading.out)
    BY <1>2, <1>5, <1>6, <1>9, <2>1 DEF InRead, size
  <2>2. CASE j > Len(reading.out)
    <3> DEFINE i == j - Len(reading.out)
    <3>1. i \in 1 .. n /\ j = Len(reading.out) + i /\ x + i = reading.from + j
      BY <1>5, <1>6, <1>7, <2>2, SMTT(60)
    <3> HIDE DEF i
    <3>2. x < size /\ x + i <= size /\ x + i \in 1 .. Stored /\ x + i \in Nat
      BY <1>3, <1>5, <1>9, <3>1, SMTT(60)
    <3>3. Pos(b) < x + i /\ x + i <= Pos(b) + BlockSize /\ (x + i) - Pos(b) = start + i
      BY <1>8, <1>7, <3>1, <3>2, FileIOAssumption
    <3>4. BucketOf((x + i) - 1) = b /\ ByteAt(x + i) = bkt[b][start + i]
      BY <1>5, <3>2, <3>3, ByteOf
    <3>5. x + i <= Pos(b) + Len(bkt[b])
      BY <1>2, <1>3, <3>2, <3>4, ByteIn
    <3>6. start + i <= Len(bytes)
      BY <1>5, <1>8, <1>7, <3>1, <3>2, <3>5, SMTT(60)
    <3>7. more[i] = bytes[start + i]
      BY <1>4, <3>1, <3>6
    <3>8. want[x + i] = ByteAt(x + i)
      BY <1>2, <3>2 DEF AtRest
    <3> QED
      BY <1>6, <1>8, <3>1, <3>2, <3>4, <3>7, <3>8
  <2> QED
    BY <1>5, <1>6, <2>1, <2>2
<1>10. ASSUME reading.size - n > 0, x + n < size PROVE b + 1 = BucketOf(x + n)
  <2>1. x < size /\ (start + n = BlockSize \/ n = Len(bytes))
    BY <1>3, <1>5, <1>10, <1>7, SMTT(60)
  <2>2. CASE start + n = BlockSize
    <3>1. Pos(b + 1) = Pos(b) + BlockSize /\ b + 1 \in Nat \ {0}
      BY <1>5, PosSteps
    <3>2. x + n = Pos(b + 1) /\ x + n \in Nat
      <4>1. x = Pos(b) + start /\ Pos(b) \in Nat
        BY <1>8, <2>1
      <4> QED
        BY <1>5, <1>7, <2>2, <3>1, <4>1, SMTT(60)
    <3> QED
      BY <3>1, <3>2, BucketUnique, FileIOAssumption
  <2>3. ASSUME n = Len(bytes), start + n < BlockSize PROVE FALSE
    <3>1. Len(bytes) < BlockSize /\ BlockSize \in Nat
      BY <1>7, <2>3, FileIOAssumption
    <3>2. b = hdr.num_buckets
      BY <1>3, <1>5, <1>8, <2>1, <3>1
    <3> QED
      BY <1>3, <1>5, <1>8, <1>10, <1>7, <2>1, <2>3, <3>2
  <2> QED
    BY <1>7, <2>1, <2>2, <2>3, FileIOAssumption
<1>11. /\ reading'.from = reading.from /\ reading'.out = out /\ reading'.offset = x + n
       /\ reading'.size = reading.size - n /\ reading'.bucket = b + 1
  BY <1>4 DEF out
<1>12. x + n = reading.from + Len(out)
  BY <1>5, <1>6, <1>7, SMTT(60)
<1>13. want' = want
  BY <1>1
<1>14. InRead'
  BY <1>9, <1>10, <1>11, <1>12, <1>13 DEF InRead, size
<1> QED
  BY <1>1, <1>14, RestKeeps

\* Killed, the daemon leaves a layout, and what is in it is the file.
LEMMA CrashKeeps ==
  ASSUME IndInv, Crash
  PROVE  TypeOK' /\ ContentInv'
<1>1. /\ stack' = <<>> /\ reading' = NoRead /\ UNCHANGED server /\ gapped' = gapped
      /\ want' = IF gapped \/ stack = <<>> THEN want ELSE Content
      /\ before' = IF gapped \/ stack = <<>> THEN before ELSE Content
      /\ crashed' = (crashed \/ stack # <<>>)
  BY Zenon DEF Crash
<1>2. TypeOK
  BY DEF IndInv
<1>3. /\ hdr' = hdr /\ bkt' = bkt /\ Stored' = Stored
      /\ \A m : (LaidOut(m)' <=> LaidOut(m)) /\ Held(m)' = Held(m)
      /\ \A q : ByteAt(q)' = ByteAt(q)
  BY <1>1, SameServer
<1>4. ASSUME ~gapped
      PROVE  /\ Content \in Seq(Byte) /\ Len(Content) = Stored /\ Stored \in Nat
             /\ \A q \in 1 .. Stored : Content[q] = ByteAt(q)
             /\ LaidOut(hdr.num_buckets) /\ Len(before) <= Stored /\ Stored = Held(hdr.num_buckets)
             /\ hdr.data_len <= Stored + StructSize * hdr.num_buckets
  <2>1. /\ LaidOut(hdr.num_buckets) /\ Len(before) <= Stored
        /\ hdr.data_len <= Stored + StructSize * hdr.num_buckets
    BY <1>4 DEF IndInv, ContentInv
  <2>2. hdr.num_buckets \in Nat
    BY <1>2 DEF TypeOK, Header
  <2> QED
    BY <1>2, <2>1, <2>2, ContentType, HeldFacts
<1>5. TypeOK'
  <2>1. want' \in Seq(Byte) /\ before' \in Seq(Byte)
    <3>1. want \in Seq(Byte) /\ before \in Seq(Byte)
      BY <1>2 DEF TypeOK
    <3>2. CASE gapped
      BY <1>1, <3>1, <3>2
    <3>3. CASE ~gapped
      BY <1>1, <1>4, <3>1, <3>3
    <3> QED
      BY <3>2, <3>3
  <2>2. gapped' \in BOOLEAN /\ crashed' \in BOOLEAN
    BY <1>1, <1>2, Zenon DEF TypeOK
  <2>3. stack' \in Seq(Frame) /\ Len(stack') <= 2
    BY <1>1, EmptySeq
  <2> QED
    BY <1>1, <1>2, <1>3, <2>1, <2>2, <2>3 DEF TypeOK
<1>6. ASSUME ~gapped PROVE ContentInv'
  <2>1. CASE stack = <<>>
    <3>1. want' = want /\ before' = before /\ stack' = stack
      BY <1>1, <2>1
    <3>2. crashed' = crashed
      BY <1>1, <1>2, <2>1, Zenon DEF TypeOK
    <3> QED
      BY <1>1, <1>6, <2>1, <3>1, <3>2, RestKeeps
  <2>2. CASE stack # <<>>
    <3>1. want' = Content /\ before' = Content /\ crashed'
      BY <1>1, <1>6, <2>2
    <3>2. AtRest'
      BY <1>3, <1>4, <1>6, <3>1 DEF AtRest, Counted
    <3> QED
      BY <1>1, <1>3, <1>4, <1>6, <3>1, <3>2 DEF ContentInv
  <2> QED
    BY <2>1, <2>2
<1>7. ASSUME gapped PROVE ContentInv'
  BY <1>1, <1>7, Zenon DEF ContentInv
<1> QED
  BY <1>5, <1>6, <1>7

------------------------------------------------------------------------------
(* The theorems.                                                            *)

LEMMA InitInv == Init => IndInv
<1> SUFFICES ASSUME Init PROVE IndInv
  OBVIOUS
<1>1. TypeOK
  BY InitTypes
<1>2. /\ hdr.num_buckets = 0 /\ hdr.data_len = 0 /\ stack = <<>> /\ reading = NoRead
      /\ want = <<>> /\ before = <<>>
  BY DEF Init
<1>3. LaidOut(0) /\ Held(0) = 0
  BY DEF LaidOut, Held
<1>4. Stored = 0
  BY <1>1, <1>2, <1>3, HeldFacts
<1>5. Len(want) = 0 /\ Len(before) = 0
  BY <1>2
<1>6. AtRest
  BY <1>2, <1>3, <1>4, <1>5, FileIOAssumption DEF AtRest, Counted
<1> QED
  BY <1>1, <1>2, <1>3, <1>4, <1>5, <1>6, FileIOAssumption DEF IndInv, ContentInv

LEMMA StepInv == IndInv /\ [Next]_vars => IndInv'
<1> SUFFICES ASSUME IndInv, [Next]_vars PROVE IndInv'
  OBVIOUS
<1>1. TypeOK /\ (reading # NoRead => stack = <<>>)
  BY DEF IndInv
<1>2. ASSUME NEW off \in 0 .. MaxSize, NEW n \in 1 .. MaxWrite, NEW buf \in [1 .. n -> Bytes],
             Write(buf, off)
      PROVE  IndInv'
  <2>1. TypeOK'
    BY <1>1, <1>2, WriteTypes
  <2>2. reading' = NoRead
    BY <1>2 DEF Write, Idle
  <2>3. off \in Nat /\ buf \in Seq(Byte)
    BY FileIOAssumption DEF Byte
  <2>4. CASE ~gapped'
    BY <1>2, <2>1, <2>2, <2>3, <2>4, WriteKeeps DEF IndInv
  <2>5. CASE gapped'
    BY <2>1, <2>2, <2>5 DEF IndInv, ContentInv
  <2> QED
    BY <2>4, <2>5
<1>3. ASSUME NEW off \in 0 .. MaxSize, NEW n \in 1 .. MaxWrite, Read(off, n)
      PROVE  IndInv'
  <2>1. TypeOK' /\ off \in Nat /\ n \in Nat
    BY <1>1, <1>3, ReadTypes, FileIOAssumption
  <2>2. stack' = <<>> /\ gapped' = gapped
    BY <1>3 DEF Read, Idle, history
  <2>3. ~gapped => ContentInv'
    BY <1>3, <2>1, ReadKeeps
  <2> QED
    BY <2>1, <2>2, <2>3 DEF IndInv, ContentInv
<1>4. CASE NewBucket
  <2>1. /\ TypeOK' /\ Running \in Frame /\ NewBucketBytes(Running) \in Nat
        /\ stack # <<>> /\ reading' = NoRead /\ gapped' = gapped
    BY <1>1, <1>4, NewBucketTypes DEF NewBucket, history
  <2>2. ASSUME ~gapped, NEW f \in Frame, f = Running PROVE ContentInv'
    <3>1. TurnOf(f, NewBucketBytes(f), 1)
      BY <1>4, <2>2, NewBucketTurn
    <3> QED
      BY <2>1, <2>2, <3>1, TurnKeeps
  <2> QED
    BY <2>1, <2>2 DEF IndInv, ContentInv
<1>5. CASE OldBucket
  <2>1. /\ TypeOK' /\ Running \in Frame
        /\ stack # <<>> /\ reading' = NoRead /\ gapped' = gapped
    BY <1>1, <1>5, OldBucketTypes DEF OldBucket, history
  <2>2. ASSUME ~gapped, NEW f \in Frame, f = Running PROVE ContentInv'
    <3>1. TurnOf(f, OldBucketBytes(f), 0) /\ OldBucketBytes(f) \in Nat
      BY <1>5, <2>2, OldBucketTurn, OldBytes
    <3> QED
      BY <2>1, <2>2, <3>1, TurnKeeps
  <2> QED
    BY <2>1, <2>2 DEF IndInv, ContentInv
<1>6. CASE WriteEnd
  <2>1. /\ TypeOK' /\ Running \in Frame /\ reading' = NoRead /\ gapped' = gapped
    BY <1>1, <1>6, WriteEndTypes DEF WriteEnd, history
  <2>2. ASSUME ~gapped, NEW f \in Frame, f = Running PROVE ContentInv'
    BY <1>6, <2>1, <2>2, WriteEndKeeps
  <2> QED
    BY <2>1, <2>2 DEF IndInv, ContentInv
<1>7. CASE ReadBucket
  <2>1. TypeOK' /\ stack' = <<>> /\ gapped' = gapped
    BY <1>1, <1>7, ReadBucketTypes, ZenonT(60) DEF ReadBucket, history
  <2>2. ~gapped => ContentInv'
    BY <1>7, ReadBucketKeeps
  <2> QED
    BY <2>1, <2>2, SMTT(60) DEF IndInv, ContentInv
<1>8. CASE ReadEnd
  <2>1. /\ reading' = NoRead /\ stack = <<>>
        /\ UNCHANGED <<server, stack, want, before, gapped, crashed>>
    BY <1>1, <1>8 DEF ReadEnd, history
  <2>2. TypeOK'
    BY <1>1, <2>1 DEF TypeOK, server
  <2>3. ~gapped => ContentInv'
    BY <2>1, RestKeeps
  <2> QED
    BY <2>1, <2>2, <2>3 DEF IndInv, ContentInv
<1>9. CASE Crash
  <2>1. reading' = NoRead
    BY <1>9 DEF Crash
  <2> QED
    BY <1>9, <2>1, CrashKeeps DEF IndInv
<1>10. CASE UNCHANGED vars
  BY <1>10 DEF vars, server, history, IndInv, TypeOK, ContentInv, AtRest, Counted, InWrite, InRead,
               LaidOut, Held, Stored, ByteAt
<1> QED
  BY <1>2, <1>3, <1>4, <1>5, <1>6, <1>7, <1>8, <1>9, <1>10 DEF Next, Step

LEMMA Inductive == Spec => []IndInv
BY InitInv, StepInv, PTL DEF Spec

LEMMA LayoutHolds == IndInv => LayoutOK
<1> SUFFICES ASSUME IndInv, ~gapped PROVE LayoutOK
  BY DEF LayoutOK
<1>1. /\ TypeOK /\ hdr.num_buckets \in Nat /\ LaidOut(hdr.num_buckets)
      /\ hdr.data_len <= Stored + StructSize * hdr.num_buckets /\ (stack = <<>> => AtRest)
  BY DEF IndInv, ContentInv, TypeOK, Header
<1>2. Stored = Held(hdr.num_buckets)
  BY <1>1, HeldFacts
<1> QED
  BY <1>1, <1>2 DEF LayoutOK, LaidOut, AtRest, Counted

LEMMA LandsHolds == IndInv => WriteLands
<1> SUFFICES ASSUME IndInv, ~gapped, stack = <<>> PROVE Content = want
  BY DEF WriteLands
<1>1. /\ TypeOK /\ LaidOut(hdr.num_buckets) /\ want \in Seq(Byte) /\ Len(want) = Stored
      /\ \A q \in 1 .. Stored : ByteAt(q) = want[q]
  BY DEF IndInv, ContentInv, TypeOK, AtRest
<1>2. /\ Content \in Seq(Byte) /\ Len(Content) = Stored
      /\ \A q \in 1 .. Stored : Content[q] = ByteAt(q)
  BY <1>1, ContentType
<1>3. \A q \in 1 .. Len(want) : Content[q] = want[q]
  BY <1>1, <1>2
<1> QED
  BY <1>1, <1>2, <1>3, SeqEqual

LEMMA KillHolds == IndInv => KillSafe
<1> SUFFICES ASSUME IndInv, ~gapped PROVE KillSafe
  BY DEF KillSafe
<1>1. /\ TypeOK /\ hdr.num_buckets \in Nat /\ LaidOut(hdr.num_buckets) /\ Len(before) <= Stored
      /\ Len(before) \in Nat
  BY DEF IndInv, ContentInv, TypeOK, Header
<1>2. Stored = Held(hdr.num_buckets) /\ Stored \in Nat
  BY <1>1, HeldFacts
<1>3. CASE stack = <<>>
  <2>1. AtRest
    BY <1>3 DEF IndInv, ContentInv
  <2> QED
    BY <1>1, <1>2, <2>1 DEF AtRest, KillSafe
<1>4. ASSUME stack # <<>>, NEW f \in Frame, f = Running PROVE KillSafe
  <2>1. InWrite(f) /\ f.offset \in Nat /\ Len(f.rest) \in Nat /\ f.num_buckets \in Nat
    BY <1>4, OneFrame, FrameFields
  <2>2. /\ hdr.num_buckets \in 0 .. f.num_buckets /\ LaidOut(f.num_buckets)
        /\ Held(f.num_buckets) = Most(Len(before), f.offset)
        /\ Len(want) = Most(Len(before), f.offset + Len(f.rest))
    BY <1>1, <2>1 DEF InWrite
  <2>3. Stored <= Held(f.num_buckets)
    BY <1>1, <1>2, <2>1, <2>2, FewerHeld
  <2>4. Stored <= Most(Len(before), f.offset) /\ Stored <= Len(want)
    BY <1>1, <1>2, <2>1, <2>2, <2>3 DEF Most
  <2>5. ASSUME NEW q \in 1 .. Stored
        PROVE  ByteAt(q) = want[q] \/ (q <= Len(before) /\ ByteAt(q) = before[q])
    <3>1. q \in 1 .. f.offset \/ q \in f.offset + 1 .. Len(before)
      BY <1>1, <1>2, <2>1, <2>4 DEF Most
    <3>2. CASE q \in 1 .. f.offset
      BY <2>1, <3>2 DEF InWrite
    <3>3. CASE q \in f.offset + 1 .. Len(before)
      BY <1>1, <2>1, <3>3 DEF InWrite
    <3> QED
      BY <3>1, <3>2, <3>3
  <2> QED
    BY <1>1, <2>4, <2>5 DEF KillSafe
<1>5. stack # <<>> => Running \in Frame
  BY OneFrame
<1> QED
  BY <1>3, <1>4, <1>5

LEMMA ReadHolds == IndInv => ReadBack
<1> SUFFICES ASSUME IndInv, ~gapped, reading # NoRead, NEW j \in DOMAIN reading.out,
                    reading.from + j <= Len(want)
             PROVE  reading.out[j] = want[reading.from + j]
  BY DEF ReadBack
<1>1. InRead /\ reading \in Reading
  BY DEF IndInv, ContentInv, TypeOK
<1>2. j \in 1 .. Len(reading.out)
  BY <1>1, ReadingFields
<1> QED
  BY <1>1, <1>2 DEF InRead

\* Every step of hello_write, hello_read and a kill leaves the state of its type:
\* the call on top of the stack is one of at most two, and offsets and lengths
\* stay natural numbers.
THEOREM FileTypes == Spec => []TypeOK
<1>1. IndInv => TypeOK
  BY DEF IndInv
<1> QED
  BY Inductive, <1>1, PTL

\* Whatever the sizes, and even when the daemon is killed between two buckets,
\* the buckets the stored header counts are full but for the last, and data_len
\* counts their bytes and one bucket_struct each.
THEOREM LayoutSafe == Spec => []LayoutOK
BY Inductive, LayoutHolds, PTL

\* When hello_write has returned, the buckets hold what was written, byte by
\* byte: a write over several buckets neither skips nor doubles a byte.
THEOREM WritesLand == Spec => []WriteLands
BY Inductive, LandsHolds, PTL

\* Killed between any two buckets, hello_write has left every byte old or new.
THEOREM KillsSafe == Spec => []KillSafe
BY Inductive, KillHolds, PTL

\* hello_read gives back the bytes written, as far as there are any.
THEOREM ReadsBack == Spec => []ReadBack
BY Inductive, ReadHolds, PTL
==============================================================================
