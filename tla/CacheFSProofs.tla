---------------------------- MODULE CacheFSProofs ----------------------------
(****************************************************************************)
(* Proofs about CacheFS, for any names, depth, attributes and block sizes:  *)
(* its types, that the keys describe one tree, and that callers see a plain *)
(* tree: every step of CacheFS is a step of FileTree, or leaves the tree    *)
(* and the last answer alone.  Then, that the data buckets and attributes   *)
(* in the server are those that the headers of files count, and that a      *)
(* file's attributes change only as its callers ask.                        *)
(*                                                                          *)
(* From there on about CacheFSSteps, for any number of workers and calls:   *)
(* the kernel's locks keep the handlers' read-modify-writes of headers      *)
(* apart, all but the one on a removal's tenant.  Last, the invariant       *)
(* StepsInv, and that the steps which start a handler or write a header     *)
(* back keep it; CacheFSStepsProofs goes on with the others.                *)
(****************************************************************************)
EXTENDS CacheFSSteps, SequenceTheorems, FiniteSetTheorems, TLAPS

\* What every handler keeps: types alone are not inductive, for a count of
\* children stays natural only because a removed path is one of them.
IndInv == TypeOK /\ DirectoryIndexOK

------------------------------------------------------------------------------
(* Paths.                                                                   *)

LEMMA SeqOfLength ==
  ASSUME NEW s \in Seq(Names), Len(s) <= MaxDepth
  PROVE  s \in Paths
<1>1. s \in [1 .. Len(s) -> Names] /\ Len(s) \in Nat
  BY LenProperties
<1>2. Len(s) \in 0 .. MaxDepth
  BY <1>1, CacheFSAssumption
<1> QED
  BY <1>1, <1>2 DEF Paths, SeqOf

LEMMA RootIsPath == Root \in Paths
<1>1. Root \in Seq(Names) /\ Len(Root) = 0
  BY EmptySeq DEF Root
<1>2. Len(Root) <= MaxDepth
  BY <1>1, CacheFSAssumption
<1> QED
  BY <1>1, <1>2, SeqOfLength, Zenon

LEMMA ParentIsPath ==
  ASSUME NEW p \in Paths, p # Root
  PROVE  Parent(p) \in Paths /\ Parent(p) # p
<1>1. PICK n \in 0 .. MaxDepth : p \in [1 .. n -> Names]
  BY CacheFSAssumption DEF Paths, SeqOf
<1>2. p \in Seq(Names) /\ Len(p) = n
  BY <1>1
<1>3. n # 0
  BY <1>2, EmptySeq DEF Root
<1>4. \A i \in 1 .. n - 1 : p[i] \in Names
  BY <1>1
<1>5. Parent(p) \in Seq(Names) /\ Len(Parent(p)) = n - 1
  BY <1>2, <1>3, <1>4, SubSeqProperties DEF Parent, Front
<1> QED
  BY <1>2, <1>3, <1>5, SeqOfLength, CacheFSAssumption

------------------------------------------------------------------------------
(* Stores: what CacheSet and CacheDelete leave of a well-typed store.       *)

LEMMA CacheSetStore ==
  ASSUME NEW Key, NEW Val, NEW store, IsStore(store, Key, Val),
         NEW k \in Key, NEW v \in Val
  PROVE  IsStore(CacheSet(store, k, v), Key, Val)
BY DEF IsStore, CacheSet

LEMMA CacheDeleteStore ==
  ASSUME NEW Key, NEW Val, NEW store, IsStore(store, Key, Val), NEW gone
  PROVE  IsStore(CacheDelete(store, gone), Key, Val)
BY DEF IsStore, CacheDelete

LEMMA EmptyStoreIsStore ==
  ASSUME NEW Key, NEW Val
  PROVE  IsStore(EmptyStore, Key, Val) /\ DOMAIN EmptyStore = {}
BY DEF IsStore, EmptyStore

------------------------------------------------------------------------------
(* What the index says, spelled out once.                                   *)

LEMMA HeaderFields ==
  ASSUME TypeOK, NEW p \in DOMAIN hdr
  PROVE  /\ hdr[p].is_dir \in {0, 1} /\ hdr[p].num_buckets \in Nat
         /\ hdr[p].parent_index \in Nat /\ hdr[p].xattr_num \in Int
         /\ p \in Paths /\ hdr[p] \in Header
BY DEF TypeOK, IsStore, Header

LEMMA ChildFields ==
  ASSUME TypeOK, NEW k \in DOMAIN child
  PROVE  /\ k = <<k[1], k[2]>> /\ k[1] \in Paths /\ k[2] \in Nat \ {0}
         /\ child[k] \in Paths
BY DEF TypeOK, IsStore, Keys

------------------------------------------------------------------------------
(* hello_mkdir and hello_create.                                            *)

LEMMA AddKeepsIndex ==
  ASSUME IndInv, NEW p \in Paths, Absent(p), mounted,
         NEW h \in Header, h.num_buckets = 0, h.parent_index = NextIndex(Parent(p)),
         hdr' = HeadersWith(p, h), child' = EntriesWith(p),
         stats' = stats, mounted' = mounted
  PROVE  /\ IsStore(hdr', Paths, Header) /\ IsStore(child', Keys, Paths)
         /\ DirectoryIndexOK'
         /\ DOMAIN hdr' = DOMAIN hdr \cup {p} /\ hdr'[p] = h
         /\ \A q \in DOMAIN hdr : hdr'[q].is_dir = hdr[q].is_dir
<1> DEFINE D == Parent(p)
           n == NextIndex(D)
<1>1. /\ p # Root /\ p \notin DOMAIN hdr /\ D \in DOMAIN hdr /\ hdr[D].is_dir = 1
      /\ D # p /\ D \in Paths
  BY ParentIsPath DEF Absent, Exists, IsDir
<1>2. n \in Nat \ {0} /\ n = hdr[D].num_buckets + 1
  BY <1>1, HeaderFields DEF NextIndex, IndInv
<1>3. [hdr EXCEPT ![D].num_buckets = n][D] \in Header
  BY <1>1, <1>2, HeaderFields DEF IndInv, Header
<1>4. IsStore([hdr EXCEPT ![D].num_buckets = n], Paths, Header)
  BY <1>1, <1>3 DEF IndInv, TypeOK, IsStore
<1>5. IsStore(hdr', Paths, Header)
  BY <1>4, CacheSetStore DEF HeadersWith
<1>6. IsStore(child', Keys, Paths)
  <2>1. <<D, n>> \in Keys
    BY <1>1, <1>2 DEF Keys
  <2> QED
    BY <2>1, CacheSetStore DEF EntriesWith, IndInv, TypeOK
<1>7. /\ DOMAIN hdr' = DOMAIN hdr \cup {p} /\ hdr'[p] = h
      /\ \A q \in DOMAIN hdr :
           /\ hdr'[q].is_dir = hdr[q].is_dir /\ hdr'[q].parent_index = hdr[q].parent_index
           /\ hdr'[q].num_buckets = IF q = D THEN n ELSE hdr[q].num_buckets
  BY <1>1, HeaderFields DEF HeadersWith, CacheSet, IndInv, Header
<1>8. <<D, n>> \notin DOMAIN child
  BY <1>1, <1>2, HeaderFields DEF IndInv, DirectoryIndexOK, SlotsOK
<1>9. /\ DOMAIN child' = DOMAIN child \cup {<<D, n>>} /\ child'[<<D, n>>] = p
      /\ \A k \in DOMAIN child : child'[k] = child[k]
  BY <1>8 DEF EntriesWith, CacheSet
<1> HIDE DEF n
<1>10. RootOK'
  BY <1>1, <1>7 DEF IndInv, DirectoryIndexOK, RootOK, IsDir, Exists, EmptyStore
<1>11. SlotsOK'
  <2>1. ASSUME NEW k \in DOMAIN child'
        PROVE  IsDir(k[1])' /\ k[2] <= hdr'[k[1]].num_buckets
    <3>1. CASE k \in DOMAIN child
      BY <3>1, <1>1, <1>2, <1>7, ChildFields, HeaderFields
         DEF IndInv, DirectoryIndexOK, SlotsOK, IsDir, Exists
    <3>2. CASE k = <<D, n>>
      BY <3>2, <1>1, <1>2, <1>7 DEF IsDir, Exists
    <3> QED
      BY <3>1, <3>2, <1>9
  <2>2. ASSUME NEW d \in DOMAIN hdr', IsDir(d)', NEW i \in 1 .. hdr'[d].num_buckets
        PROVE  <<d, i>> \in DOMAIN child'
    <3>1. CASE d = p
      BY <3>1, <1>7
    <3>2. CASE d \in DOMAIN hdr /\ (d = D => i # n)
      <4>1. IsDir(d) /\ i \in 1 .. hdr[d].num_buckets
        BY <3>2, <2>2, <1>1, <1>2, <1>7, HeaderFields DEF IsDir, Exists, IndInv
      <4> QED
        BY <4>1, <3>2, <1>9 DEF IndInv, DirectoryIndexOK, SlotsOK
    <3>3. CASE d = D /\ i = n
      BY <3>3, <1>9
    <3> QED
      BY <3>1, <3>2, <3>3, <1>7
  <2> QED
    BY <2>1, <2>2 DEF SlotsOK
<1>12. EntriesOK'
  <2> SUFFICES ASSUME NEW k \in DOMAIN child'
               PROVE  /\ Exists(child[k])' /\ child'[k] # Root
                      /\ Parent(child'[k]) = k[1] /\ hdr'[child'[k]].parent_index = k[2]
    BY DEF EntriesOK, SlotOf
  <2>1. CASE k \in DOMAIN child
    BY <2>1, <1>7, <1>9 DEF IndInv, DirectoryIndexOK, EntriesOK, Exists, SlotOf
  <2>2. CASE k = <<D, n>>
    BY <2>2, <1>1, <1>7, <1>9 DEF Exists, n
  <2> QED
    BY <2>1, <2>2, <1>9
<1>13. BackPointersOK'
  <2> SUFFICES ASSUME NEW q \in DOMAIN hdr', q # Root
               PROVE  /\ IsDir(Parent(q))'
                      /\ <<Parent(q), hdr'[q].parent_index>> \in DOMAIN child'
                      /\ child'[<<Parent(q), hdr'[q].parent_index>>] = q
    BY DEF BackPointersOK, SlotOf
  <2>1. CASE q = p
    BY <2>1, <1>1, <1>7, <1>9 DEF IsDir, Exists, n
  <2>2. CASE q \in DOMAIN hdr
    BY <2>2, <1>7, <1>9 DEF IndInv, DirectoryIndexOK, BackPointersOK, IsDir, Exists, SlotOf
  <2> QED
    BY <2>1, <2>2, <1>7
<1> QED
  BY <1>5, <1>6, <1>7, <1>10, <1>11, <1>12, <1>13 DEF DirectoryIndexOK

------------------------------------------------------------------------------
(* hello_rmdir and hello_unlink.                                            *)

LEMMA RemoveKeepsIndex ==
  ASSUME IndInv, NEW p \in DOMAIN hdr, p # Root, IsDir(p) => hdr[p].num_buckets <= 0,
         RemoveEntry(p), stats' = stats, mounted' = mounted
  PROVE  /\ IsStore(hdr', Paths, Header) /\ IsStore(child', Keys, Paths)
         /\ DirectoryIndexOK'
         /\ DOMAIN hdr' = DOMAIN hdr \ {p}
         /\ \A q \in DOMAIN hdr' : hdr'[q].is_dir = hdr[q].is_dir
<1> DEFINE D == Parent(p)
           s == SlotOf(p)
           m == LastSlot(p)
           t == Tenant(p)
<1>1. /\ p \in Paths /\ D \in Paths /\ D # p
      /\ D \in DOMAIN hdr /\ hdr[D].is_dir = 1 /\ s \in Nat /\ m \in Nat
  BY ParentIsPath, HeaderFields
     DEF IndInv, DirectoryIndexOK, BackPointersOK, IsDir, Exists, SlotOf, LastSlot
<1>2. <<D, s>> \in DOMAIN child /\ child[<<D, s>>] = p
  BY DEF IndInv, DirectoryIndexOK, BackPointersOK
<1>3. s \in 1 .. m
  BY <1>1, <1>2, ChildFields DEF IndInv, DirectoryIndexOK, SlotsOK, LastSlot
<1>4. <<D, m>> \in DOMAIN child
  BY <1>1, <1>3 DEF IndInv, DirectoryIndexOK, SlotsOK, LastSlot, IsDir, Exists
<1>5. /\ t = child[<<D, m>>] /\ t \in DOMAIN hdr /\ t \in Paths /\ t # Root
      /\ Parent(t) = D /\ SlotOf(t) = m
  BY <1>4, ChildFields DEF IndInv, DirectoryIndexOK, EntriesOK, Tenant, Exists
<1>6. t # D /\ (t = p <=> s = m)
  BY <1>2, <1>5, ParentIsPath
<1> HIDE DEF D, s, m, t
<1>7. hdr' = CacheDelete([[hdr EXCEPT ![D].num_buckets = m - 1] EXCEPT ![t].parent_index = s], {p})
  BY DEF RemoveEntry, HeadersWithout, D, s, m, t
<1>8. child' = CacheDelete(CacheSet(child, <<D, s>>, t), {<<D, m>>})
  BY DEF RemoveEntry, EntriesWithout, D, s, m, t
<1>9. IsStore(hdr', Paths, Header)
  <2> DEFINE fewer == [hdr EXCEPT ![D].num_buckets = m - 1]
             told == [fewer EXCEPT ![t].parent_index = s]
  <2>1. fewer[D] \in Header
    BY <1>1, <1>3, HeaderFields DEF IndInv, Header
  <2>2. IsStore(fewer, Paths, Header)
    BY <1>1, <2>1 DEF IndInv, TypeOK, IsStore
  <2>3. told[t] \in Header
    BY <1>1, <1>5, <2>2 DEF IsStore, Header
  <2>4. IsStore(told, Paths, Header)
    BY <1>5, <2>2, <2>3 DEF IsStore
  <2> QED
    BY <2>4, <1>7, CacheDeleteStore
<1>10. IsStore(child', Keys, Paths)
  <2>1. <<D, s>> \in Keys
    BY <1>1, <1>3 DEF Keys
  <2> QED
    BY <2>1, <1>5, <1>8, CacheSetStore, CacheDeleteStore DEF IndInv, TypeOK
<1>11. /\ DOMAIN hdr' = DOMAIN hdr \ {p}
       /\ \A q \in DOMAIN hdr' :
            /\ hdr'[q].is_dir = hdr[q].is_dir
            /\ hdr'[q].num_buckets = IF q = D THEN m - 1 ELSE hdr[q].num_buckets
            /\ hdr'[q].parent_index = IF q = t THEN s ELSE hdr[q].parent_index
  BY <1>1, <1>5, <1>6, <1>7, HeaderFields DEF CacheDelete, IndInv, Header
<1>12. /\ DOMAIN child' = DOMAIN child \ {<<D, m>>}
       /\ \A k \in DOMAIN child' : child'[k] = IF k = <<D, s>> THEN t ELSE child[k]
  BY <1>2, <1>8 DEF CacheDelete, CacheSet
<1>13. \A k \in DOMAIN child : k[1] # p
  BY <1>1, ChildFields, HeaderFields DEF IndInv, DirectoryIndexOK, SlotsOK
<1>14. RootOK'
  BY <1>11 DEF IndInv, DirectoryIndexOK, RootOK, IsDir, Exists, EmptyStore
<1>15. SlotsOK'
  <2>1. ASSUME NEW k \in DOMAIN child'
        PROVE  IsDir(k[1])' /\ k[2] <= hdr'[k[1]].num_buckets
    <3>1. k \in DOMAIN child /\ k # <<D, m>> /\ k[1] # p
      BY <1>12, <1>13
    <3>2. k[1] \in DOMAIN hdr' /\ hdr[k[1]].is_dir = 1 /\ k[2] <= hdr[k[1]].num_buckets
      BY <3>1, <1>11 DEF IndInv, DirectoryIndexOK, SlotsOK, IsDir, Exists
    <3>3. CASE k[1] = D
      <4>1. k[2] # m /\ k[2] \in Nat /\ hdr[D].num_buckets = m
        BY <3>1, <3>3, ChildFields DEF IndInv, LastSlot, m, D
      <4> QED
        BY <3>2, <3>3, <4>1, <1>1, <1>11 DEF IsDir, Exists
    <3>4. CASE k[1] # D
      BY <3>2, <3>4, <1>11 DEF IsDir, Exists
    <3> QED
      BY <3>3, <3>4
  <2>2. ASSUME NEW d \in DOMAIN hdr', IsDir(d)', NEW i \in 1 .. hdr'[d].num_buckets
        PROVE  <<d, i>> \in DOMAIN child'
    <3>1. hdr[D].num_buckets = m
      BY DEF LastSlot, m, D
    <3>2. IsDir(d) /\ i \in 1 .. hdr[d].num_buckets /\ (d = D => i # m)
      BY <2>2, <3>1, <1>1, <1>11, HeaderFields DEF IsDir, Exists, IndInv
    <3> QED
      BY <3>2, <1>11, <1>12 DEF IndInv, DirectoryIndexOK, SlotsOK
  <2> QED
    BY <2>1, <2>2 DEF SlotsOK
<1>16. EntriesOK'
  <2> SUFFICES ASSUME NEW k \in DOMAIN child'
               PROVE  /\ Exists(child[k])' /\ child'[k] # Root
                      /\ Parent(child'[k]) = k[1] /\ hdr'[child'[k]].parent_index = k[2]
    BY DEF EntriesOK, SlotOf
  <2>1. CASE k = <<D, s>>
    <3>1. s # m
      BY <2>1, <1>12
    <3> QED
      BY <2>1, <3>1, <1>5, <1>6, <1>11, <1>12 DEF Exists
  <2>2. CASE k # <<D, s>>
    <3>1. /\ k \in DOMAIN child /\ k # <<D, m>> /\ child'[k] = child[k]
          /\ k = <<k[1], k[2]>>
      BY <2>2, <1>12, ChildFields DEF IndInv
    <3>2. /\ child[k] \in DOMAIN hdr /\ child[k] # Root
          /\ Parent(child[k]) = k[1] /\ hdr[child[k]].parent_index = k[2]
      BY <3>1 DEF IndInv, DirectoryIndexOK, EntriesOK, Exists, SlotOf
    <3>3. child[k] # p /\ child[k] # t
      BY <2>2, <3>1, <3>2, <1>5 DEF D, s, SlotOf
    <3> QED
      BY <3>1, <3>2, <3>3, <1>11 DEF Exists
  <2> QED
    BY <2>1, <2>2
<1>17. BackPointersOK'
  <2> SUFFICES ASSUME NEW q \in DOMAIN hdr', q # Root
               PROVE  /\ IsDir(Parent(q))'
                      /\ <<Parent(q), hdr'[q].parent_index>> \in DOMAIN child'
                      /\ child'[<<Parent(q), hdr'[q].parent_index>>] = q
    BY DEF BackPointersOK, SlotOf
  <2>1. /\ q \in DOMAIN hdr /\ q # p /\ IsDir(Parent(q))
        /\ <<Parent(q), hdr[q].parent_index>> \in DOMAIN child
        /\ child[<<Parent(q), hdr[q].parent_index>>] = q
    BY <1>11 DEF IndInv, DirectoryIndexOK, BackPointersOK, SlotOf
  <2>2. IsDir(Parent(q))'
    BY <2>1, <1>11, <1>13 DEF IsDir, Exists
  <2>3. CASE q = t
    BY <2>1, <2>2, <2>3, <1>2, <1>5, <1>6, <1>11, <1>12
  <2>4. CASE q # t
    BY <2>1, <2>2, <2>4, <1>2, <1>5, <1>11, <1>12
  <2> QED
    BY <2>3, <2>4
<1> QED
  BY <1>9, <1>10, <1>11, <1>14, <1>15, <1>16, <1>17 DEF DirectoryIndexOK

------------------------------------------------------------------------------
(* Everything else.                                                         *)

\* A header may change in what the index does not look at: a file's
\* num_buckets, and anyone's xattr_num.
LEMMA TouchKeepsIndex ==
  ASSUME IndInv, NEW p \in DOMAIN hdr, NEW h \in Header,
         h.is_dir = hdr[p].is_dir, h.parent_index = hdr[p].parent_index,
         IsDir(p) => h.num_buckets = hdr[p].num_buckets,
         hdr' = [hdr EXCEPT ![p] = h],
         child' = child, stats' = stats, mounted' = mounted
  PROVE  IsStore(hdr', Paths, Header) /\ DirectoryIndexOK'
<1>1. IsStore(hdr', Paths, Header)
  BY DEF IndInv, TypeOK, IsStore
<1>2. /\ DOMAIN hdr' = DOMAIN hdr
      /\ \A q \in DOMAIN hdr :
           /\ hdr'[q].is_dir = hdr[q].is_dir /\ hdr'[q].parent_index = hdr[q].parent_index
           /\ IsDir(q) => hdr'[q].num_buckets = hdr[q].num_buckets
  OBVIOUS
<1>3. \A q : IsDir(q)' <=> IsDir(q)
  BY <1>2 DEF IsDir, Exists
<1>4. RootOK'
  BY <1>2, <1>3 DEF IndInv, DirectoryIndexOK, RootOK, EmptyStore
<1>5. SlotsOK'
  BY <1>2, <1>3 DEF IndInv, DirectoryIndexOK, SlotsOK, IsDir, Exists
<1>6. EntriesOK'
  BY <1>2 DEF IndInv, DirectoryIndexOK, EntriesOK, Exists, SlotOf
<1>7. BackPointersOK'
  BY <1>2, <1>3 DEF IndInv, DirectoryIndexOK, BackPointersOK, SlotOf
<1> QED
  BY <1>1, <1>4, <1>5, <1>6, <1>7 DEF DirectoryIndexOK

LEMMA LookKeepsIndex ==
  ASSUME IndInv, UNCHANGED stores, mounted' \in BOOLEAN, mounted' => stats # NoStats,
         DOMAIN ret' = {"op", "arg", "val", "names"}
  PROVE  IndInv'
BY DEF IndInv, stores, TypeOK, DirectoryIndexOK, RootOK, SlotsOK, EntriesOK,
       BackPointersOK, IsDir, Exists, SlotOf

LEMMA ReplyShape ==
  ASSUME NEW op, NEW p, NEW val, Reply(op, p, val) \/ ReplyNames(op, p, val)
  PROVE  DOMAIN ret' = {"op", "arg", "val", "names"}
BY DEF Reply, ReplyNames

\* An empty server, or one that holds nothing but a root directory.
Bare ==
  /\ child = EmptyStore
  /\ \/ hdr = EmptyStore /\ stats = NoStats /\ mounted = FALSE
     \/ stats # NoStats /\ \E g \in Uninit : hdr = CacheSet(EmptyStore, Root, NewDirHeader(0, g))

BareIndex ==
  IsStore(hdr, Paths, Header) /\ IsStore(child, Keys, Paths) /\ DirectoryIndexOK

LEMMA BareHasIndex == Bare => BareIndex
<1> SUFFICES ASSUME Bare PROVE BareIndex
  OBVIOUS
<1>1. IsStore(child, Keys, Paths) /\ DOMAIN child = {}
  BY EmptyStoreIsStore DEF Bare
<1>2. CASE hdr = EmptyStore /\ stats = NoStats /\ mounted = FALSE
  <2>1. IsStore(hdr, Paths, Header) /\ DOMAIN hdr = {}
    BY <1>2, EmptyStoreIsStore
  <2> QED
    BY <1>1, <1>2, <2>1
       DEF Bare, BareIndex, DirectoryIndexOK, RootOK, SlotsOK, EntriesOK, BackPointersOK
<1>3. ASSUME stats # NoStats, NEW g \in Uninit, hdr = CacheSet(EmptyStore, Root, NewDirHeader(0, g))
      PROVE  BareIndex
  <2>1. NewDirHeader(0, g) \in Header
    BY CacheFSAssumption DEF NewDirHeader, Header
  <2>2. IsStore(hdr, Paths, Header)
    BY <1>3, <2>1, RootIsPath, EmptyStoreIsStore, CacheSetStore
  <2>3. DOMAIN hdr = {Root} /\ hdr[Root].is_dir = 1 /\ hdr[Root].num_buckets = 0
    BY <1>3 DEF CacheSet, EmptyStore, NewDirHeader
  <2> QED
    BY <1>1, <1>3, <2>2, <2>3
       DEF BareIndex, DirectoryIndexOK, RootOK, SlotsOK, EntriesOK, BackPointersOK, IsDir, Exists
<1> QED
  BY <1>2, <1>3 DEF Bare

\* The same of the state a step leads to.
LEMMA BareAfter == Bare' => BareIndex'
BY BareHasIndex, PTL

LEMMA InitIndInv == Init => IndInv
<1> SUFFICES ASSUME Init PROVE IndInv
  OBVIOUS
<1>1. IsStore(xattr, AttrKeys, Attr)
  BY EmptyStoreIsStore DEF Init
<1>2. IsStore(hdr, Paths, Header) /\ IsStore(child, Keys, Paths) /\ DirectoryIndexOK
  BY BareHasIndex DEF Init, Bare, BareIndex
<1> QED
  BY <1>1, <1>2 DEF Init, IndInv, TypeOK

\* One step for each handler and each event outside them.
LEMMA StepIndInv == IndInv /\ [Next]_vars => IndInv'
<1> SUFFICES ASSUME IndInv, [Next]_vars PROVE IndInv'
  OBVIOUS
<1> USE ReplyShape
<1>0. TypeOK /\ DirectoryIndexOK /\ (mounted => stats # NoStats)
  BY DEF IndInv, DirectoryIndexOK, RootOK
<1>1. ASSUME NEW b \in BlockSizes, Reuse(b) PROVE IndInv'
  BY <1>1, LookKeepsIndex, CacheFSAssumption DEF Reuse
<1>2. ASSUME NEW b \in BlockSizes, Format(b) PROVE IndInv'
  <2>1. IsStore(xattr', AttrKeys, Attr)
    BY <1>2, EmptyStoreIsStore DEF Format
  <2>2. stats' # NoStats
    BY <1>2, CacheFSAssumption DEF Format
  <2>3. IsStore(hdr, Paths, Header)' /\ IsStore(child, Keys, Paths)' /\ DirectoryIndexOK'
    BY <1>2, <2>2, BareAfter DEF Format, Bare, BareIndex
  <2> QED
    BY <1>2, <2>1, <2>3 DEF Format, IndInv, TypeOK
<1>3. CASE Unmount
  BY <1>0, <1>3, LookKeepsIndex DEF Unmount, TypeOK
<1>4. CASE ServerRestart
  <2>1. IsStore(xattr', AttrKeys, Attr)
    BY <1>4, EmptyStoreIsStore DEF ServerRestart
  <2>2. IsStore(hdr, Paths, Header)' /\ IsStore(child, Keys, Paths)' /\ DirectoryIndexOK'
    BY <1>4, <1>0, BareAfter DEF ServerRestart, Bare, BareIndex, TypeOK
  <2> QED
    BY <1>0, <1>4, <2>1, <2>2 DEF ServerRestart, IndInv, TypeOK
<1>5. ASSUME NEW p \in Paths, Mkdir(p) PROVE IndInv'
  <2>1. PICK g \in Uninit : hdr' = HeadersWith(p, NewDirHeader(NextIndex(Parent(p)), g))
    BY <1>5 DEF Mkdir
  <2>2. NextIndex(Parent(p)) \in Nat
    BY <1>0, <1>5, HeaderFields DEF Mkdir, Absent, IsDir, Exists, NextIndex
  <2> DEFINE h == NewDirHeader(NextIndex(Parent(p)), g)
  <2>3. h \in Header /\ h.num_buckets = 0 /\ h.parent_index = NextIndex(Parent(p))
    BY <2>2, CacheFSAssumption DEF NewDirHeader, Header
  <2> HIDE DEF h
  <2>4. IsStore(hdr', Paths, Header) /\ IsStore(child', Keys, Paths) /\ DirectoryIndexOK'
    BY <1>5, <2>1, <2>3, AddKeepsIndex DEF Mkdir, h
  <2> QED
    BY <1>0, <1>5, <2>4 DEF Mkdir, IndInv, TypeOK
<1>6. ASSUME NEW p \in Paths, Create(p) PROVE IndInv'
  <2>1. NextIndex(Parent(p)) \in Nat
    BY <1>0, <1>6, HeaderFields DEF Create, Absent, IsDir, Exists, NextIndex
  <2> DEFINE h == NewFileHeader(NextIndex(Parent(p)))
  <2>2. h \in Header /\ h.num_buckets = 0 /\ h.parent_index = NextIndex(Parent(p))
    BY <2>1 DEF NewFileHeader, Header
  <2> HIDE DEF h
  <2>3. IsStore(hdr', Paths, Header) /\ IsStore(child', Keys, Paths) /\ DirectoryIndexOK'
    BY <1>6, <2>2, AddKeepsIndex DEF Create, h
  <2> QED
    BY <1>0, <1>6, <2>3 DEF Create, IndInv, TypeOK
<1>7. ASSUME NEW p \in Paths, Rmdir(p) PROVE IndInv'
  <2>1. CASE NothingRemoved
    BY <1>0, <1>7, <2>1, LookKeepsIndex DEF Rmdir, NothingRemoved, stores, TypeOK
  <2>2. CASE /\ p # Root /\ Exists(p) /\ hdr[p].num_buckets <= 0
             /\ RemoveEntry(p) /\ Reply("rmdir", p, "ok") /\ UNCHANGED <<data, xattr>>
    <3>1. IsStore(hdr', Paths, Header) /\ IsStore(child', Keys, Paths) /\ DirectoryIndexOK'
      BY <1>7, <2>2, RemoveKeepsIndex DEF Rmdir, Exists
    <3> QED
      BY <1>0, <1>7, <2>2, <3>1 DEF Rmdir, IndInv, TypeOK
  <2> QED
    BY <1>7, <2>1, <2>2 DEF Rmdir
<1>8. ASSUME NEW p \in Paths, Unlink(p) PROVE IndInv'
  <2>1. CASE NothingRemoved
    BY <1>0, <1>8, <2>1, LookKeepsIndex DEF Unlink, NothingRemoved, stores, TypeOK
  <2>2. CASE /\ p # Root /\ Exists(p) /\ RemoveEntry(p) /\ Reply("unlink", p, "ok")
             /\ xattr' = CacheDelete(xattr, AttrKeysOf(p)) /\ data' = data \ DataKeysOf(p)
    <3>1. IsStore(hdr', Paths, Header) /\ IsStore(child', Keys, Paths) /\ DirectoryIndexOK'
      BY <1>8, <2>2, RemoveKeepsIndex DEF Unlink, Exists
    <3>2. IsStore(xattr', AttrKeys, Attr)
      BY <1>0, <2>2, CacheDeleteStore DEF TypeOK
    <3> QED
      BY <1>0, <1>8, <2>2, <3>1, <3>2 DEF Unlink, IndInv, TypeOK
  <2> QED
    BY <1>8, <2>1, <2>2 DEF Unlink
<1>9. ASSUME NEW p \in Paths, NEW n \in 0 .. MaxBuckets, Write(p, n) PROVE IndInv'
  <2> DEFINE h == [hdr[p] EXCEPT !.num_buckets = @ + n]
  <2>1. /\ p \in DOMAIN hdr /\ hdr[p].is_dir = 0 /\ n \in Nat
        /\ hdr' = [hdr EXCEPT ![p] = h]
    BY <1>9, CacheFSAssumption DEF Write, IsFile, Exists
  <2>2. h \in Header /\ h.is_dir = hdr[p].is_dir /\ h.parent_index = hdr[p].parent_index
    BY <1>0, <2>1, HeaderFields DEF Header
  <2>3. ~IsDir(p) /\ child' = child /\ stats' = stats /\ mounted' = mounted
    BY <1>9, <2>1 DEF Write, IsDir
  <2>4. data' \subseteq Keys
    BY <1>0, <1>9, <2>1, HeaderFields DEF Write, TypeOK, Keys
  <2> HIDE DEF h
  <2>5. IsStore(hdr', Paths, Header) /\ DirectoryIndexOK'
    BY <2>1, <2>2, <2>3, TouchKeepsIndex
  <2> QED
    BY <1>0, <1>9, <2>4, <2>5 DEF Write, IndInv, TypeOK
<1>10. ASSUME NEW p \in Paths, NEW n \in AttrNames, NEW v \in AttrVals, Setxattr(p, n, v)
       PROVE  IndInv'
  <2> DEFINE i == hdr[p].xattr_num + 1
             h == [hdr[p] EXCEPT !.xattr_num = i]
             a == [name |-> n, val |-> v, parent_index |-> i]
  <2>1. /\ p \in DOMAIN hdr /\ hdr' = [hdr EXCEPT ![p] = h]
        /\ xattr' = CacheSet(xattr, <<p, i>>, a)
    BY <1>10 DEF Setxattr, Exists
  <2>2. /\ h \in Header /\ h.is_dir = hdr[p].is_dir /\ h.parent_index = hdr[p].parent_index
        /\ h.num_buckets = hdr[p].num_buckets /\ i \in Int
    BY <1>0, <2>1, HeaderFields DEF Header
  <2>3. <<p, i>> \in AttrKeys /\ a \in Attr
    BY <2>2 DEF AttrKeys, Attr
  <2> HIDE DEF h, a, i
  <2>4. IsStore(hdr', Paths, Header) /\ DirectoryIndexOK'
    BY <1>10, <2>1, <2>2, TouchKeepsIndex DEF Setxattr
  <2>5. IsStore(xattr', AttrKeys, Attr)
    BY <1>0, <2>1, <2>3, CacheSetStore DEF TypeOK
  <2> QED
    BY <1>0, <1>10, <2>4, <2>5 DEF Setxattr, IndInv, TypeOK
<1>11. ASSUME NEW p \in Paths, NEW n \in AttrNames, Getxattr(p, n) PROVE IndInv'
  BY <1>0, <1>11, LookKeepsIndex DEF Getxattr, TypeOK
<1>12. ASSUME NEW p \in Paths, Listxattr(p) PROVE IndInv'
  BY <1>0, <1>12, LookKeepsIndex DEF Listxattr, TypeOK
<1>13. ASSUME NEW p \in Paths, NEW n \in AttrNames, Removexattr(p, n) PROVE IndInv'
  <2>1. CASE UNCHANGED <<hdr, xattr>> /\ DOMAIN ret' = {"op", "arg", "val", "names"}
    BY <1>0, <1>13, <2>1, LookKeepsIndex DEF Removexattr, stores, TypeOK
  <2>2. ASSUME NEW i \in Stops(p, n), hdr' = [hdr EXCEPT ![p].xattr_num = @ - 1],
               xattr' = AttrsWithout(p, i), DOMAIN ret' = {"op", "arg", "val", "names"}
        PROVE  IndInv'
    <3> DEFINE h == [hdr[p] EXCEPT !.xattr_num = @ - 1]
               moved == [AttrAt(p, hdr[p].xattr_num) EXCEPT !.parent_index = i]
    <3>1. /\ p \in DOMAIN hdr /\ hdr' = [hdr EXCEPT ![p] = h]
          /\ xattr' = CacheDelete(CacheSet(xattr, <<p, i>>, moved), {<<p, hdr[p].xattr_num>>})
      BY <1>13, <2>2 DEF Removexattr, Exists, AttrsWithout
    <3>2. /\ h \in Header /\ h.is_dir = hdr[p].is_dir /\ h.parent_index = hdr[p].parent_index
          /\ h.num_buckets = hdr[p].num_buckets /\ hdr[p].xattr_num \in Int
      BY <1>0, <3>1, HeaderFields DEF Header
    <3>3. i \in Int
      BY <3>2 DEF Stops
    <3>4. AttrAt(p, hdr[p].xattr_num) \in Attr
      BY <1>0, <3>2 DEF AttrAt, Attr, TypeOK, IsStore
    <3>5. <<p, i>> \in AttrKeys /\ moved \in Attr
      BY <3>3, <3>4 DEF AttrKeys, Attr
    <3> HIDE DEF h, moved
    <3>6. IsStore(hdr', Paths, Header) /\ DirectoryIndexOK'
      BY <1>13, <3>1, <3>2, TouchKeepsIndex DEF Removexattr
    <3>7. IsStore(xattr', AttrKeys, Attr)
      BY <1>0, <3>1, <3>5, CacheSetStore, CacheDeleteStore DEF TypeOK
    <3> QED
      BY <1>0, <1>13, <2>2, <3>6, <3>7 DEF Removexattr, IndInv, TypeOK
  <2> QED
    BY <1>13, <2>1, <2>2 DEF Removexattr
<1>14. ASSUME NEW p \in Paths, Getattr(p) \/ Access(p) \/ Readdir(p) PROVE IndInv'
  BY <1>0, <1>14, LookKeepsIndex DEF Getattr, Access, Readdir, TypeOK
<1>15. CASE UNCHANGED vars
  BY <1>0, <1>15, LookKeepsIndex DEF vars, TypeOK
<1> QED
  BY <1>1, <1>2, <1>3, <1>4, <1>5, <1>6, <1>7, <1>8, <1>9, <1>10, <1>11, <1>12, <1>13,
     <1>14, <1>15 DEF Next

LEMMA IndInvHolds == Spec => []IndInv
BY InitIndInv, StepIndInv, PTL DEF Spec

\* Types: in particular no removal ever drives a directory's num_buckets, or
\* the parent_index of a moved child, below zero.
THEOREM TypeCorrect == Spec => []TypeOK
<1>1. IndInv => TypeOK
  BY DEF IndInv
<1> QED
  BY <1>1, IndInvHolds, PTL

\* However paths are made and removed, whatever xattr_num mkdir leaves and
\* however often the daemon and the server restart, the child keys, the
\* num_buckets and the parent_indexes describe one tree.
THEOREM IndexCorrect == Spec => []DirectoryIndexOK
<1>1. IndInv => DirectoryIndexOK
  BY DEF IndInv
<1> QED
  BY <1>1, IndInvHolds, PTL

------------------------------------------------------------------------------
(* CacheFS implements FileTree.                                             *)

\* The refinement mapping.
Kind == [p \in DOMAIN hdr |-> IF IsDir(p) THEN "dir" ELSE "file"]

\* The paths whose parent is d, in FileTree and by the headers.
ChildPaths(d) == {p \in DOMAIN hdr : p # Root /\ Parent(p) = d}

LEMMA KindFacts ==
  /\ DOMAIN Kind = DOMAIN hdr
  /\ \A p \in DOMAIN hdr : Kind[p] = IF IsDir(p) THEN "dir" ELSE "file"
BY DEF Kind

\* A parent is a path without its last name.
LEMMA ParentFields ==
  ASSUME NEW p \in Seq(Names), Len(p) # 0
  PROVE  /\ Len(Parent(p)) = Len(p) - 1
         /\ \A i \in 1 .. Len(p) - 1 : Parent(p)[i] = p[i]
<1>1. Len(p) \in Nat /\ \A i \in 1 .. Len(p) : p[i] \in Names
  BY LenProperties
<1>2. PICK n \in Nat : n = Len(p) - 1
  BY <1>1
<1>3. Parent(p) = SubSeq(p, 1, n)
  BY <1>2 DEF Parent, Front
<1>4. \A i \in 1 .. n : p[i] \in Names
  BY <1>1, <1>2
<1>5. /\ Len(SubSeq(p, 1, n)) = IF 1 <= n THEN n - 1 + 1 ELSE 0
      /\ \A i \in 1 .. n - 1 + 1 : SubSeq(p, 1, n)[i] = p[1 + i - 1]
  BY <1>4, SubSeqProperties
<1>6. Len(Parent(p)) = n
  BY <1>2, <1>3, <1>5
<1>7. ASSUME NEW i \in 1 .. n PROVE Parent(p)[i] = p[i]
  BY <1>2, <1>3, <1>5
<1> QED
  BY <1>2, <1>6, <1>7

\* A path is its parent and its last name.
LEMMA PathFromParts ==
  ASSUME NEW p \in Paths, NEW q \in Paths, p # Root, q # Root,
         Parent(p) = Parent(q), Last(p) = Last(q)
  PROVE  p = q
<1>1. PICK m \in 0 .. MaxDepth : p \in [1 .. m -> Names]
  BY CacheFSAssumption DEF Paths, SeqOf
<1>2. PICK n \in 0 .. MaxDepth : q \in [1 .. n -> Names]
  BY CacheFSAssumption DEF Paths, SeqOf
<1>3. /\ p \in Seq(Names) /\ Len(p) = m /\ q \in Seq(Names) /\ Len(q) = n
      /\ m # 0 /\ n # 0
  BY <1>1, <1>2, EmptySeq DEF Root
<1>4. /\ Len(Parent(p)) = m - 1 /\ \A i \in 1 .. m - 1 : Parent(p)[i] = p[i]
      /\ Len(Parent(q)) = n - 1 /\ \A i \in 1 .. n - 1 : Parent(q)[i] = q[i]
  <2>1. Len(Parent(p)) = m - 1 /\ \A i \in 1 .. m - 1 : Parent(p)[i] = p[i]
    BY <1>3, ParentFields
  <2>2. Len(Parent(q)) = n - 1 /\ \A i \in 1 .. n - 1 : Parent(q)[i] = q[i]
    BY <1>3, ParentFields
  <2> QED
    BY <2>1, <2>2
<1>5. m = n /\ \A i \in 1 .. m : p[i] = q[i]
  BY <1>3, <1>4 DEF Last
<1> QED
  BY <1>3, <1>5, SeqEqual

\* A directory counts no children exactly when it has none.
LEMMA CountIsZero ==
  ASSUME IndInv, NEW d \in DOMAIN hdr, IsDir(d)
  PROVE  ChildPaths(d) = {} <=> hdr[d].num_buckets <= 0
<1>1. ASSUME NEW c \in ChildPaths(d) PROVE hdr[d].num_buckets > 0
  <2>1. c \in DOMAIN hdr /\ c # Root /\ Parent(c) = d
    BY DEF ChildPaths
  <2>2. <<d, SlotOf(c)>> \in DOMAIN child
    BY <2>1 DEF IndInv, DirectoryIndexOK, BackPointersOK
  <2> QED
    BY <2>2, ChildFields, HeaderFields DEF IndInv, DirectoryIndexOK, SlotsOK
<1>2. ASSUME hdr[d].num_buckets > 0 PROVE ChildPaths(d) # {}
  <2>1. <<d, 1>> \in DOMAIN child
    BY <1>2, HeaderFields DEF IndInv, DirectoryIndexOK, SlotsOK
  <2>2. child[<<d, 1>>] \in ChildPaths(d)
    BY <2>1 DEF IndInv, DirectoryIndexOK, EntriesOK, ChildPaths, Exists
  <2> QED
    BY <2>2
<1> QED
  BY <1>1, <1>2, HeaderFields DEF IndInv

\* What readdir lists names every child once.
LEMMA ListingNamesChildren ==
  ASSUME IndInv, NEW d \in DOMAIN hdr, IsDir(d)
  PROVE  /\ IsInjective(Listing(d))
         /\ Range(Listing(d)) = {Last(c) : c \in ChildPaths(d)}
<1> DEFINE n == hdr[d].num_buckets
<1>1. n \in Nat
  BY HeaderFields DEF IndInv
<1>2. \A i \in 1 .. n :
        /\ <<d, i>> \in DOMAIN child /\ child[<<d, i>>] \in ChildPaths(d)
        /\ child[<<d, i>>] \in Paths /\ SlotOf(child[<<d, i>>]) = i
  BY <1>1, ChildFields
     DEF IndInv, DirectoryIndexOK, SlotsOK, EntriesOK, ChildPaths, Exists
<1>3. DOMAIN Listing(d) = 1 .. n /\ \A i \in 1 .. n : Listing(d)[i] = Last(child[<<d, i>>])
  BY DEF Listing
<1>4. ASSUME NEW c \in ChildPaths(d) PROVE \E i \in 1 .. n : child[<<d, i>>] = c
  <2>1. c \in DOMAIN hdr /\ c # Root /\ Parent(c) = d
    BY DEF ChildPaths
  <2>2. <<d, SlotOf(c)>> \in DOMAIN child /\ child[<<d, SlotOf(c)>>] = c
    BY <2>1 DEF IndInv, DirectoryIndexOK, BackPointersOK
  <2>3. SlotOf(c) \in 1 .. n
    BY <2>2, ChildFields, <1>1 DEF IndInv, DirectoryIndexOK, SlotsOK
  <2> QED
    BY <2>2, <2>3
<1> HIDE DEF n
<1>5. ASSUME NEW i \in 1 .. n, NEW j \in 1 .. n, Listing(d)[i] = Listing(d)[j]
      PROVE  i = j
  <2>1. child[<<d, i>>] = child[<<d, j>>]
    BY <1>2, <1>3, <1>5, PathFromParts DEF ChildPaths
  <2> QED
    BY <1>2, <2>1
<1>6. IsInjective(Listing(d))
  BY <1>3, <1>5 DEF IsInjective
<1>7. Range(Listing(d)) = {Last(child[<<d, i>>]) : i \in 1 .. n}
  BY <1>3 DEF Range
<1>8. {Last(child[<<d, i>>]) : i \in 1 .. n} = {Last(c) : c \in ChildPaths(d)}
  BY <1>2, <1>4
<1> QED
  BY <1>6, <1>7, <1>8

------------------------------------------------------------------------------
(* Initial states and steps of CacheFS seen as FileTree's.                  *)

LEMMA TreeInitMaps == Init => Tree!TreeInit
BY DEF Init, Tree!TreeInit, EmptyStore

LEMMA SameKinds ==
  ASSUME DOMAIN hdr' = DOMAIN hdr,
         \A q \in DOMAIN hdr : hdr'[q].is_dir = hdr[q].is_dir
  PROVE  Kind' = Kind
BY DEF Kind, IsDir, Exists

\* FileTree takes the operators on sequences from the same library.
LEMMA SameLibrary ==
  /\ \A s : Tree!Front(s) = Front(s) /\ Tree!Last(s) = Last(s) /\ Tree!Range(s) = Range(s)
  /\ \A s : Tree!IsInjective(s) <=> IsInjective(s)
BY DEF Tree!Front, Front, Tree!Last, Last, Tree!Range, Range, Tree!IsInjective, IsInjective

LEMMA SameChildren == \A d : Tree!Children(d) = ChildPaths(d)
BY SameLibrary DEF Tree!Children, ChildPaths, Tree!Root, Root, Parent

LEMMA SamePaths == Tree!Paths = Paths
BY DEF Tree!Paths, Paths, Tree!SeqOf, SeqOf

\* A handler for data or attributes.
LEMMA ElsewhereMaps ==
  ASSUME NEW op, NEW p, NEW val,
         Reply(op, p, val) \/ ReplyNames(op, p, val), Kind' = Kind,
         op \in {"write", "setxattr", "getxattr", "listxattr", "removexattr"}
  PROVE  Tree!TreeNext
<1>1. ret'.op = op
  BY DEF Reply, ReplyNames
<1>2. ret'.op \notin Tree!TreeOps
  BY <1>1 DEF Tree!TreeOps
<1> QED
  BY <1>2 DEF Tree!TreeNext, Tree!Elsewhere, Kind

\* hello_mkdir and hello_create.
LEMMA MakeMaps ==
  ASSUME NEW p \in Paths, Absent(p), NEW k \in {"dir", "file"},
         DOMAIN hdr' = DOMAIN hdr \cup {p},
         hdr'[p].is_dir = IF k = "dir" THEN 1 ELSE 0,
         \A q \in DOMAIN hdr : hdr'[q].is_dir = hdr[q].is_dir,
         NEW op, Reply(op, p, "ok")
  PROVE  Tree!Make(op, p, k)
<1>1. /\ p # Root /\ p \notin DOMAIN hdr /\ Front(p) \in DOMAIN hdr /\ IsDir(Front(p))
  BY DEF Absent, Exists, IsDir, Parent
<1>2. Kind' = [q \in DOMAIN Kind \cup {p} |-> IF q = p THEN k ELSE Kind[q]]
  BY <1>1 DEF Kind, IsDir, Exists
<1>3. Kind[Front(p)] = "dir"
  BY <1>1 DEF Kind
<1> QED
  BY <1>1, <1>2, <1>3, SameLibrary DEF Tree!Make, Tree!Answer, Tree!Root, Root, Reply, Kind

\* hello_rmdir and hello_unlink, when they succeed.
LEMMA DropMaps ==
  ASSUME NEW p \in DOMAIN hdr, DOMAIN hdr' = DOMAIN hdr \ {p},
         \A q \in DOMAIN hdr' : hdr'[q].is_dir = hdr[q].is_dir
  PROVE  Tree!Drop(p)
BY DEF Tree!Drop, IsDir, Exists

\* Every step of CacheFS is one of FileTree, or changes neither tree nor answer.
LEMMA StepMaps == IndInv /\ [Next]_vars => [Tree!TreeNext]_(Tree!treeVars)
<1> SUFFICES ASSUME IndInv, [Next]_vars PROVE [Tree!TreeNext]_(Tree!treeVars)
  OBVIOUS
<1>0. UNCHANGED stores => Kind' = Kind
  BY SameKinds DEF stores
<1>1. ASSUME NEW b \in BlockSizes, Reuse(b) PROVE Tree!TreeNext
  BY <1>0, <1>1 DEF Reuse, Reply, Tree!TreeNext, Tree!Reuse, Kind
<1>2. ASSUME NEW b \in BlockSizes, Format(b) PROVE Tree!TreeNext
  <2>1. PICK g \in Uninit : hdr' = CacheSet(EmptyStore, Root, NewDirHeader(0, g))
    BY <1>2 DEF Format
  <2>2. DOMAIN hdr' = {Root} /\ hdr'[Root].is_dir = 1
    BY <2>1 DEF CacheSet, EmptyStore, NewDirHeader
  <2>3. ret'.op = "init"
    BY <1>2 DEF Format, Reply
  <2> QED
    BY <2>2, <2>3 DEF Tree!TreeNext, Tree!Format, Tree!Root, Root, IsDir, Exists
<1>3. CASE Unmount
  BY <1>0, <1>3 DEF Unmount, Tree!treeVars, Kind
<1>4. CASE ServerRestart
  BY <1>4 DEF ServerRestart, EmptyStore, Tree!TreeNext, Tree!Lose
<1>5. ASSUME NEW p \in Paths, Mkdir(p) PROVE Tree!TreeNext
  <2>1. PICK g \in Uninit : hdr' = HeadersWith(p, NewDirHeader(NextIndex(Parent(p)), g))
    BY <1>5 DEF Mkdir
  <2>2. NextIndex(Parent(p)) \in Nat
    BY <1>5, HeaderFields DEF IndInv, Mkdir, Absent, IsDir, Exists, NextIndex
  <2> DEFINE h == NewDirHeader(NextIndex(Parent(p)), g)
  <2>3. /\ h \in Header /\ h.num_buckets = 0 /\ h.parent_index = NextIndex(Parent(p))
        /\ h.is_dir = 1
    BY <2>2, CacheFSAssumption DEF NewDirHeader, Header
  <2> HIDE DEF h
  <2>4. /\ DOMAIN hdr' = DOMAIN hdr \cup {p} /\ hdr'[p] = h
        /\ \A q \in DOMAIN hdr : hdr'[q].is_dir = hdr[q].is_dir
    BY <1>5, <2>1, <2>3, AddKeepsIndex DEF Mkdir, h
  <2>5. Tree!Make("mkdir", p, "dir")
    BY <1>5, <2>3, <2>4, MakeMaps DEF Mkdir
  <2> QED
    BY <2>5, SamePaths DEF Tree!TreeNext
<1>6. ASSUME NEW p \in Paths, Create(p) PROVE Tree!TreeNext
  <2>1. NextIndex(Parent(p)) \in Nat
    BY <1>6, HeaderFields DEF IndInv, Create, Absent, IsDir, Exists, NextIndex
  <2> DEFINE h == NewFileHeader(NextIndex(Parent(p)))
  <2>2. /\ h \in Header /\ h.num_buckets = 0 /\ h.parent_index = NextIndex(Parent(p))
        /\ h.is_dir = 0
    BY <2>1 DEF NewFileHeader, Header
  <2> HIDE DEF h
  <2>3. /\ DOMAIN hdr' = DOMAIN hdr \cup {p} /\ hdr'[p] = h
        /\ \A q \in DOMAIN hdr : hdr'[q].is_dir = hdr[q].is_dir
    BY <1>6, <2>2, AddKeepsIndex DEF Create, h
  <2>4. Tree!Make("create", p, "file")
    BY <1>6, <2>2, <2>3, MakeMaps DEF Create
  <2> QED
    BY <2>4, SamePaths DEF Tree!TreeNext
<1>7. ASSUME NEW p \in Paths, Rmdir(p) PROVE Tree!TreeNext
  <2>1. CASE p = Root /\ Reply("rmdir", p, "EPERM") /\ NothingRemoved
    <3>1. Tree!Rmdir(p)
      BY <2>1 DEF NothingRemoved, Reply, Tree!Rmdir, Tree!Answer, Tree!Root, Root, IsDir, Exists
    <3> QED
      BY <3>1, SamePaths DEF Tree!TreeNext
  <2>2. CASE p # Root /\ ~Exists(p) /\ Reply("rmdir", p, "ENOTDIR") /\ NothingRemoved
    <3>1. Tree!Rmdir(p)
      BY <2>2 DEF NothingRemoved, Reply, Tree!Rmdir, Tree!Answer, Tree!Root, Root, IsDir, Exists
    <3> QED
      BY <3>1, SamePaths DEF Tree!TreeNext
  <2>3. CASE /\ p # Root /\ Exists(p) /\ hdr[p].num_buckets > 0
             /\ Reply("rmdir", p, "ENOTEMPTY") /\ NothingRemoved
    <3>1. p \in DOMAIN hdr /\ IsDir(p)
      BY <1>7, <2>3 DEF Rmdir, Exists
    <3>2. Tree!Children(p) # {}
      BY <2>3, <3>1, CountIsZero, SameChildren, HeaderFields DEF IndInv
    <3>3. Kind' = Kind
      BY <2>3, SameKinds DEF NothingRemoved
    <3>4. Tree!Rmdir(p)
      BY <2>3, <3>1, <3>2, <3>3 DEF Reply, Tree!Rmdir, Tree!Answer, Tree!Root, Root, Kind
    <3> QED
      BY <3>4, SamePaths DEF Tree!TreeNext
  <2>4. CASE /\ p # Root /\ Exists(p) /\ hdr[p].num_buckets <= 0
             /\ RemoveEntry(p) /\ Reply("rmdir", p, "ok")
    <3>1. p \in DOMAIN hdr /\ IsDir(p)
      BY <1>7, <2>4 DEF Rmdir, Exists
    <3>2. Tree!Children(p) = {}
      BY <2>4, <3>1, CountIsZero, SameChildren
    <3>3. Tree!Drop(p)
      BY <1>7, <2>4, <3>1, RemoveKeepsIndex, DropMaps DEF Rmdir
    <3>4. Tree!Rmdir(p)
      BY <2>4, <3>1, <3>2, <3>3 DEF Reply, Tree!Rmdir, Tree!Answer, Tree!Root, Root
    <3> QED
      BY <3>4, SamePaths DEF Tree!TreeNext
  <2> QED
    BY <1>7, <2>1, <2>2, <2>3, <2>4 DEF Rmdir
<1>8. ASSUME NEW p \in Paths, Unlink(p) PROVE Tree!TreeNext
  <2>1. CASE p = Root /\ Reply("unlink", p, "EPERM") /\ NothingRemoved
    <3>1. Tree!Unlink(p)
      BY <2>1 DEF NothingRemoved, Reply, Tree!Unlink, Tree!Answer, Tree!Root, Root, IsDir, Exists
    <3> QED
      BY <3>1, SamePaths DEF Tree!TreeNext
  <2>2. CASE p # Root /\ ~Exists(p) /\ Reply("unlink", p, "ENOENT") /\ NothingRemoved
    <3>1. Tree!Unlink(p)
      BY <2>2 DEF NothingRemoved, Reply, Tree!Unlink, Tree!Answer, Tree!Root, Root, IsDir, Exists
    <3> QED
      BY <3>1, SamePaths DEF Tree!TreeNext
  <2>3. CASE p # Root /\ Exists(p) /\ RemoveEntry(p) /\ Reply("unlink", p, "ok")
    <3>1. p \in DOMAIN hdr /\ ~IsDir(p)
      BY <1>8, <2>3 DEF Unlink, Exists
    <3>2. Tree!Drop(p)
      BY <1>8, <2>3, <3>1, RemoveKeepsIndex, DropMaps DEF Unlink
    <3>3. Tree!Unlink(p)
      BY <2>3, <3>1, <3>2 DEF Reply, Tree!Unlink, Tree!Answer
    <3> QED
      BY <3>3, SamePaths DEF Tree!TreeNext
  <2> QED
    BY <1>8, <2>1, <2>2, <2>3 DEF Unlink
<1>9. ASSUME NEW p \in Paths, NEW n \in 0 .. MaxBuckets, Write(p, n) PROVE Tree!TreeNext
  <2>1. hdr' = [hdr EXCEPT ![p].num_buckets = @ + n] /\ p \in DOMAIN hdr
    BY <1>9 DEF Write, IsFile, Exists
  <2>2. Kind' = Kind
    BY <2>1, HeaderFields, SameKinds DEF IndInv, Header
  <2> QED
    BY <1>9, <2>2, ElsewhereMaps DEF Write
<1>10. ASSUME NEW p \in Paths, NEW n \in AttrNames, NEW v \in AttrVals, Setxattr(p, n, v)
       PROVE  Tree!TreeNext
  <2>1. hdr' = [hdr EXCEPT ![p].xattr_num = hdr[p].xattr_num + 1] /\ p \in DOMAIN hdr
    BY <1>10 DEF Setxattr, Exists
  <2>2. Kind' = Kind
    BY <2>1, HeaderFields, SameKinds DEF IndInv, Header
  <2> QED
    BY <1>10, <2>2, ElsewhereMaps DEF Setxattr
<1>11. ASSUME NEW p \in Paths, NEW n \in AttrNames, Getxattr(p, n) PROVE Tree!TreeNext
  BY <1>0, <1>11, ElsewhereMaps DEF Getxattr
<1>12. ASSUME NEW p \in Paths, Listxattr(p) PROVE Tree!TreeNext
  BY <1>0, <1>12, ElsewhereMaps DEF Listxattr
<1>13. ASSUME NEW p \in Paths, NEW n \in AttrNames, Removexattr(p, n) PROVE Tree!TreeNext
  <2>1. p \in DOMAIN hdr
    BY <1>13 DEF Removexattr, Exists
  <2>2. hdr' = [hdr EXCEPT ![p].xattr_num = @ - 1] \/ UNCHANGED hdr
    BY <1>13 DEF Removexattr
  <2>3. Kind' = Kind
    BY <2>1, <2>2, HeaderFields, SameKinds DEF IndInv, Header
  <2> QED
    BY <1>13, <2>3, ElsewhereMaps DEF Removexattr
<1>14. ASSUME NEW p \in Paths, Getattr(p) PROVE Tree!TreeNext
  <2>1. Tree!Getattr(p)
    BY <1>0, <1>14 DEF Getattr, Reply, Exists, Tree!Getattr, Tree!Answer, Kind
  <2> QED
    BY <2>1, SamePaths DEF Tree!TreeNext
<1>15. ASSUME NEW p \in Paths, Access(p) PROVE Tree!TreeNext
  <2>1. Tree!Access(p)
    BY <1>0, <1>15 DEF Access, Reply, Exists, Tree!Access, Tree!Answer, Kind
  <2> QED
    BY <2>1, SamePaths DEF Tree!TreeNext
<1>16. ASSUME NEW p \in Paths, Readdir(p) PROVE Tree!TreeNext
  <2>1. Kind' = Kind
    BY <1>0, <1>16 DEF Readdir
  <2>2. CASE Exists(p)
    <3>1. p \in DOMAIN hdr /\ IsDir(p)
      BY <1>16, <2>2, HeaderFields DEF Readdir, Exists, IsFile, IsDir, IndInv
    <3>2. /\ ret'.op = "readdir" /\ ret'.arg = p /\ ret'.val = "ok"
          /\ ret'.names = Listing(p)
      BY <1>16, <2>2 DEF Readdir, ReplyNames
    <3>3. /\ IsInjective(Listing(p))
          /\ Range(Listing(p)) = {Last(c) : c \in Tree!Children(p)}
      BY <3>1, ListingNamesChildren, SameChildren
    <3>4. /\ Tree!IsInjective(Listing(p))
          /\ Tree!Range(Listing(p)) = {Tree!Last(c) : c \in Tree!Children(p)}
      BY <3>3, SameLibrary
    <3>5. Tree!Readdir(p)
      BY <2>1, <3>1, <3>2, <3>4 DEF Tree!Readdir, Tree!Answer, Kind
    <3> QED
      BY <3>5, SamePaths DEF Tree!TreeNext
  <2>3. CASE ~Exists(p)
    <3>1. Tree!Readdir(p)
      BY <1>16, <2>1, <2>3 DEF Readdir, Reply, Exists, Tree!Readdir, Tree!Answer, Kind
    <3> QED
      BY <3>1, SamePaths DEF Tree!TreeNext
  <2> QED
    BY <2>2, <2>3
<1>17. CASE UNCHANGED vars
  BY <1>0, <1>17 DEF vars, Tree!treeVars, Kind
<1> QED
  BY <1>1, <1>2, <1>3, <1>4, <1>5, <1>6, <1>7, <1>8, <1>9, <1>10, <1>11, <1>12, <1>13,
     <1>14, <1>15, <1>16, <1>17 DEF Next

\* A caller of the namespace handlers sees a plain tree of files and
\* directories, whatever the slots, the swaps, the restarts and the unset
\* xattr_num do underneath.
THEOREM TreeImplemented == Spec => TreeRefined
BY TreeInitMaps, StepMaps, IndInvHolds, PTL DEF Spec, TreeRefined, Tree!TreeSpec

------------------------------------------------------------------------------
(* Buckets and attributes: the keys beside the headers in the server are    *)
(* those that the headers of files count.                                   *)

KeysInv == DataBucketsOK /\ FileXattrsOK

\* What a handler that makes or removes some other path leaves of a file.
SameFile(q) ==
  /\ hdr'[q].is_dir = hdr[q].is_dir
  /\ IsFile(q) => /\ hdr'[q].num_buckets = hdr[q].num_buckets
                  /\ hdr'[q].xattr_num = hdr[q].xattr_num

------------------------------------------------------------------------------
(* What adding and removing a path do to the headers of files.              *)

LEMMA AddSameFiles ==
  ASSUME IndInv, NEW p \in Paths, Absent(p), NEW h, hdr' = HeadersWith(p, h)
  PROVE  /\ DOMAIN hdr' = DOMAIN hdr \cup {p} /\ hdr'[p] = h /\ p \notin DOMAIN hdr
         /\ \A q \in DOMAIN hdr : SameFile(q)
<1>1. /\ p \notin DOMAIN hdr /\ Parent(p) \in DOMAIN hdr /\ hdr[Parent(p)].is_dir = 1
      /\ Parent(p) # p
  BY DEF Absent, Exists, IsDir
<1>2. \A q \in DOMAIN hdr : hdr'[q] = IF q = Parent(p)
                                      THEN [hdr[q] EXCEPT !.num_buckets = NextIndex(Parent(p))]
                                      ELSE hdr[q]
  BY <1>1 DEF HeadersWith, CacheSet
<1>3. \A q \in DOMAIN hdr : hdr'[q].is_dir = hdr[q].is_dir
  BY <1>2, HeaderFields DEF IndInv, Header
<1> QED
  BY <1>1, <1>2, <1>3 DEF HeadersWith, CacheSet, SameFile, IsFile

LEMMA RemoveSameFiles ==
  ASSUME IndInv, NEW p \in DOMAIN hdr, p # Root, hdr' = HeadersWithout(p)
  PROVE  DOMAIN hdr' = DOMAIN hdr \ {p} /\ \A q \in DOMAIN hdr' : SameFile(q)
<1> DEFINE D == Parent(p)
           fewer == [hdr EXCEPT ![D].num_buckets = LastSlot(p) - 1]
           told == [fewer EXCEPT ![Tenant(p)].parent_index = SlotOf(p)]
<1>1. D \in DOMAIN hdr /\ hdr[D].is_dir = 1
  BY DEF IndInv, DirectoryIndexOK, BackPointersOK, IsDir, Exists
<1>2. /\ DOMAIN fewer = DOMAIN hdr
      /\ \A q \in DOMAIN hdr :
           /\ fewer[q].is_dir = hdr[q].is_dir /\ fewer[q].xattr_num = hdr[q].xattr_num
           /\ q # D => fewer[q].num_buckets = hdr[q].num_buckets
           /\ DOMAIN fewer[q] = {"is_dir", "num_buckets", "parent_index", "xattr_num"}
  BY <1>1, HeaderFields DEF IndInv, Header
<1> HIDE DEF fewer
<1>3. /\ DOMAIN told = DOMAIN hdr
      /\ \A q \in DOMAIN hdr :
           /\ told[q].is_dir = hdr[q].is_dir /\ told[q].xattr_num = hdr[q].xattr_num
           /\ q # D => told[q].num_buckets = hdr[q].num_buckets
  BY <1>2
<1>4. hdr' = CacheDelete(told, {p})
  BY DEF HeadersWithout, told, fewer
<1> HIDE DEF told
<1> QED
  BY <1>1, <1>3, <1>4 DEF CacheDelete, SameFile, IsFile

------------------------------------------------------------------------------
(* The handlers that make and remove paths.                                 *)

LEMMA SameKeys ==
  ASSUME KeysInv, UNCHANGED <<hdr, data, xattr>>
  PROVE  KeysInv'
BY DEF KeysInv, DataBucketsOK, FileXattrsOK, DataKeysOf, IsFile, Exists

LEMMA AddKeepsKeys ==
  ASSUME IndInv, KeysInv, NEW p \in Paths, Absent(p), NEW h,
         h.is_dir = 1 \/ (h.is_dir = 0 /\ h.num_buckets = 0 /\ h.xattr_num = 0),
         hdr' = HeadersWith(p, h), UNCHANGED <<data, xattr>>
  PROVE  KeysInv'
<1>1. /\ DOMAIN hdr' = DOMAIN hdr \cup {p} /\ hdr'[p] = h /\ p \notin DOMAIN hdr
      /\ \A q \in DOMAIN hdr : SameFile(q)
  BY AddSameFiles
<1>2. DataBucketsOK'
  <2>1. ASSUME NEW k \in data' PROVE IsFile(k[1])' /\ k[2] <= hdr'[k[1]].num_buckets
    BY <1>1 DEF KeysInv, DataBucketsOK, SameFile, IsFile, Exists
  <2>2. ASSUME NEW q \in DOMAIN hdr', IsFile(q)' PROVE DataKeysOf(q)' \subseteq data'
    <3>1. CASE q = p
      BY <2>2, <3>1, <1>1 DEF DataKeysOf, IsFile
    <3>2. CASE q \in DOMAIN hdr
      BY <2>2, <3>2, <1>1 DEF KeysInv, DataBucketsOK, SameFile, DataKeysOf, IsFile, Exists
    <3> QED
      BY <3>1, <3>2, <1>1
  <2> QED
    BY <2>1, <2>2 DEF DataBucketsOK
<1>3. FileXattrsOK'
  BY <1>1 DEF KeysInv, FileXattrsOK, SameFile, IsFile, Exists
<1> QED
  BY <1>2, <1>3 DEF KeysInv

\* The header of p goes, and with it all the keys it counts if p is a file.
LEMMA RemoveKeepsKeys ==
  ASSUME IndInv, KeysInv, NEW p \in DOMAIN hdr, p # Root, hdr' = HeadersWithout(p),
         \/ IsDir(p) /\ UNCHANGED <<data, xattr>>
         \/ data' = data \ DataKeysOf(p) /\ xattr' = CacheDelete(xattr, AttrKeysOf(p))
  PROVE  KeysInv'
<1>1. DOMAIN hdr' = DOMAIN hdr \ {p} /\ \A q \in DOMAIN hdr' : SameFile(q)
  BY RemoveSameFiles
<1>2. data' \subseteq data /\ \A k \in data : k[1] # p => k \in data'
  BY DEF DataKeysOf
<1>3. \A k \in data' : k[1] # p
  <2> SUFFICES ASSUME NEW k \in data', k[1] = p PROVE FALSE
    OBVIOUS
  <2>1. k \in data /\ hdr[p].is_dir = 0 /\ k[2] <= hdr[p].num_buckets
    BY <1>2 DEF KeysInv, DataBucketsOK, IsFile
  <2>2. k = <<p, k[2]>> /\ k[2] \in Nat \ {0}
    BY <2>1 DEF IndInv, TypeOK, Keys
  <2>3. k \in DataKeysOf(p)
    BY <2>1, <2>2, HeaderFields DEF DataKeysOf, IndInv
  <2> QED
    BY <2>1, <2>3 DEF IsDir
<1>4. DataBucketsOK'
  <2>1. ASSUME NEW k \in data' PROVE IsFile(k[1])' /\ k[2] <= hdr'[k[1]].num_buckets
    BY <1>1, <1>2, <1>3 DEF KeysInv, DataBucketsOK, SameFile, IsFile, Exists
  <2>2. ASSUME NEW q \in DOMAIN hdr', IsFile(q)' PROVE DataKeysOf(q)' \subseteq data'
    <3>1. q # p /\ DataKeysOf(q)' = DataKeysOf(q) /\ DataKeysOf(q) \subseteq data
      BY <2>2, <1>1 DEF KeysInv, DataBucketsOK, SameFile, DataKeysOf, IsFile, Exists
    <3> QED
      BY <3>1, <1>2 DEF DataKeysOf
  <2> QED
    BY <2>1, <2>2 DEF DataBucketsOK
<1>5. \A q, i : q # p /\ <<q, i>> \in DOMAIN xattr =>
         <<q, i>> \in DOMAIN xattr' /\ xattr'[<<q, i>>] = xattr[<<q, i>>]
  BY DEF CacheDelete, AttrKeysOf
<1>6. FileXattrsOK'
  BY <1>1, <1>5 DEF KeysInv, FileXattrsOK, SameFile, IsFile, Exists
<1> QED
  BY <1>4, <1>6 DEF KeysInv

------------------------------------------------------------------------------
(* hello_write, hello_setxattr, hello_removexattr.                          *)

LEMMA WriteKeepsKeys ==
  ASSUME IndInv, KeysInv, NEW p \in Paths, NEW n \in Nat, Write(p, n)
  PROVE  KeysInv'
<1> DEFINE old == hdr[p].num_buckets
<1>1. /\ p \in DOMAIN hdr /\ hdr[p].is_dir = 0 /\ old \in Nat /\ xattr' = xattr
      /\ data' = data \cup {<<p, old + i>> : i \in 1 .. n}
  BY HeaderFields DEF Write, IsFile, Exists, IndInv
<1>2. /\ DOMAIN hdr' = DOMAIN hdr
      /\ \A q \in DOMAIN hdr :
           /\ hdr'[q].is_dir = hdr[q].is_dir /\ hdr'[q].xattr_num = hdr[q].xattr_num
           /\ hdr'[q].num_buckets = IF q = p THEN old + n ELSE hdr[q].num_buckets
  BY <1>1, HeaderFields DEF Write, IndInv, Header
<1> HIDE DEF old
<1>3. DataBucketsOK'
  <2>1. ASSUME NEW k \in data' PROVE IsFile(k[1])' /\ k[2] <= hdr'[k[1]].num_buckets
    <3>1. CASE k \in data
      <4>1. IsFile(k[1]) /\ k[2] <= hdr[k[1]].num_buckets /\ k[2] \in Nat
        BY <3>1 DEF KeysInv, DataBucketsOK, IndInv, TypeOK, Keys
      <4> QED
        BY <4>1, <1>1, <1>2 DEF IsFile, Exists, old
    <3>2. CASE \E i \in 1 .. n : k = <<p, old + i>>
      BY <3>2, <1>1, <1>2 DEF IsFile, Exists
    <3> QED
      BY <3>1, <3>2, <1>1
  <2>2. ASSUME NEW q \in DOMAIN hdr', IsFile(q)' PROVE DataKeysOf(q)' \subseteq data'
    <3>1. CASE q # p
      BY <2>2, <3>1, <1>1, <1>2 DEF KeysInv, DataBucketsOK, DataKeysOf, IsFile, Exists
    <3>2. CASE q = p
      <4>1. DataKeysOf(p) \subseteq data
        BY <1>1 DEF KeysInv, DataBucketsOK, IsFile, Exists
      <4>2. ASSUME NEW i \in 1 .. old + n PROVE <<p, i>> \in data'
        <5>1. CASE i <= old
          BY <5>1, <4>1, <1>1 DEF DataKeysOf, old
        <5>2. CASE i > old
          <6>1. i - old \in 1 .. n /\ i = old + (i - old)
            BY <5>2, <1>1
          <6> QED
            BY <6>1, <1>1
        <5> QED
          BY <5>1, <5>2, <1>1
      <4> QED
        BY <3>2, <4>2, <1>1, <1>2 DEF DataKeysOf
    <3> QED
      BY <3>1, <3>2
  <2> QED
    BY <2>1, <2>2 DEF DataBucketsOK
<1>4. FileXattrsOK'
  BY <1>1, <1>2 DEF KeysInv, FileXattrsOK, IsFile, Exists
<1> QED
  BY <1>3, <1>4 DEF KeysInv

\* A change of one path's xattr_num is nothing to the buckets.
LEMMA CountKeepsBuckets ==
  ASSUME IndInv, KeysInv, NEW p \in DOMAIN hdr, NEW i \in Int,
         hdr' = [hdr EXCEPT ![p].xattr_num = i], data' = data
  PROVE  /\ DataBucketsOK' /\ DOMAIN hdr' = DOMAIN hdr
         /\ \A q \in DOMAIN hdr : /\ hdr'[q].is_dir = hdr[q].is_dir
                                  /\ hdr'[q].xattr_num = IF q = p THEN i ELSE hdr[q].xattr_num
<1>1. /\ DOMAIN hdr' = DOMAIN hdr
      /\ \A q \in DOMAIN hdr :
           /\ hdr'[q].is_dir = hdr[q].is_dir /\ hdr'[q].num_buckets = hdr[q].num_buckets
           /\ hdr'[q].xattr_num = IF q = p THEN i ELSE hdr[q].xattr_num
  BY HeaderFields DEF IndInv, Header
<1>2. DataBucketsOK'
  BY <1>1 DEF KeysInv, DataBucketsOK, DataKeysOf, IsFile, Exists
<1> QED
  BY <1>1, <1>2

LEMMA SetxattrKeepsKeys ==
  ASSUME IndInv, KeysInv, NEW p \in Paths, NEW n \in AttrNames, NEW v, Setxattr(p, n, v)
  PROVE  KeysInv'
<1> DEFINE i == hdr[p].xattr_num + 1
<1>1. /\ p \in DOMAIN hdr /\ i \in Int /\ data' = data
      /\ hdr' = [hdr EXCEPT ![p].xattr_num = i]
      /\ xattr' = CacheSet(xattr, <<p, i>>, [name |-> n, val |-> v, parent_index |-> i])
  BY HeaderFields DEF Setxattr, Exists, IndInv
<1>2. /\ DataBucketsOK' /\ DOMAIN hdr' = DOMAIN hdr
      /\ \A q \in DOMAIN hdr : /\ hdr'[q].is_dir = hdr[q].is_dir
                               /\ hdr'[q].xattr_num = IF q = p THEN i ELSE hdr[q].xattr_num
  BY <1>1, CountKeepsBuckets
<1>3. n # Junk
  BY CacheFSAssumption
<1>4. /\ <<p, i>> \in DOMAIN xattr' /\ xattr'[<<p, i>>].name = n
      /\ xattr'[<<p, i>>].parent_index = i
      /\ \A k \in DOMAIN xattr : k # <<p, i>> => k \in DOMAIN xattr' /\ xattr'[k] = xattr[k]
  BY <1>1 DEF CacheSet
<1>5. FileXattrsOK'
  <2> SUFFICES ASSUME NEW q \in DOMAIN hdr, hdr[q].is_dir = 0
               PROVE  /\ hdr'[q].xattr_num >= 0
                      /\ \A j \in 1 .. hdr'[q].xattr_num :
                           /\ <<q, j>> \in DOMAIN xattr'
                           /\ xattr'[<<q, j>>].name # Junk /\ xattr'[<<q, j>>].parent_index = j
    BY <1>2 DEF FileXattrsOK, IsFile, Exists
  <2>1. /\ hdr[q].xattr_num \in Int /\ hdr[q].xattr_num >= 0
        /\ \A j \in 1 .. hdr[q].xattr_num :
             /\ <<q, j>> \in DOMAIN xattr
             /\ xattr[<<q, j>>].name # Junk /\ xattr[<<q, j>>].parent_index = j
    BY HeaderFields DEF KeysInv, FileXattrsOK, IsFile, Exists, IndInv
  <2>2. ASSUME NEW j \in 1 .. hdr'[q].xattr_num, ~(q = p /\ j = i)
        PROVE  j \in 1 .. hdr[q].xattr_num
    BY <2>1, <2>2, <1>2
  <2>3. hdr'[q].xattr_num >= 0
    BY <2>1, <1>1, <1>2
  <2> HIDE DEF i
  <2>4. ASSUME NEW j \in 1 .. hdr'[q].xattr_num
        PROVE  /\ <<q, j>> \in DOMAIN xattr'
               /\ xattr'[<<q, j>>].name # Junk /\ xattr'[<<q, j>>].parent_index = j
    <3>1. CASE q = p /\ j = i
      BY <3>1, <1>3, <1>4
    <3>2. CASE ~(q = p /\ j = i)
      <4>1. <<q, j>> # <<p, i>>
        BY <3>2
      <4> QED
        BY <3>2, <4>1, <2>1, <2>2, <1>4
    <3> QED
      BY <3>1, <3>2
  <2> QED
    BY <2>3, <2>4
<1> QED
  BY <1>2, <1>5 DEF KeysInv

\* The attribute that moves down is one a file counts: it has a name.
LEMMA RemovexattrKeepsKeys ==
  ASSUME IndInv, KeysInv, NEW p \in DOMAIN hdr, NEW i \in 1 .. hdr[p].xattr_num,
         hdr' = [hdr EXCEPT ![p].xattr_num = @ - 1], xattr' = AttrsWithout(p, i), data' = data
  PROVE  KeysInv'
<1> DEFINE last == hdr[p].xattr_num
           moved == [AttrAt(p, last) EXCEPT !.parent_index = i]
<1>1. last \in Int /\ i \in 1 .. last /\ hdr' = [hdr EXCEPT ![p].xattr_num = last - 1]
  BY HeaderFields DEF IndInv
<1>2. /\ DataBucketsOK' /\ DOMAIN hdr' = DOMAIN hdr
      /\ \A q \in DOMAIN hdr :
           /\ hdr'[q].is_dir = hdr[q].is_dir
           /\ hdr'[q].xattr_num = IF q = p THEN last - 1 ELSE hdr[q].xattr_num
  <2>1. last - 1 \in Int
    BY <1>1
  <2> HIDE DEF last
  <2> QED
    BY <2>1, <1>1, CountKeepsBuckets
<1>3. xattr' = CacheDelete(CacheSet(xattr, <<p, i>>, moved), {<<p, last>>})
  BY DEF AttrsWithout
<1>4. \A k : k # <<p, last>> /\ (k = <<p, i>> \/ k \in DOMAIN xattr) =>
         k \in DOMAIN xattr' /\ xattr'[k] = IF k = <<p, i>> THEN moved ELSE xattr[k]
  <2> HIDE DEF moved, last
  <2> QED
    BY <1>3 DEF CacheSet, CacheDelete
<1>5. ASSUME hdr[p].is_dir = 0 PROVE moved.name # Junk /\ moved.parent_index = i
  <2>1. <<p, last>> \in DOMAIN xattr /\ xattr[<<p, last>>].name # Junk
    BY <1>1, <1>5 DEF KeysInv, FileXattrsOK, IsFile, Exists
  <2>2. xattr[<<p, last>>] \in Attr
    BY <2>1 DEF IndInv, TypeOK, IsStore
  <2> QED
    BY <2>1, <2>2 DEF AttrAt, Attr
<1>6. FileXattrsOK'
  <2> SUFFICES ASSUME NEW q \in DOMAIN hdr, hdr[q].is_dir = 0
               PROVE  /\ hdr'[q].xattr_num >= 0
                      /\ \A j \in 1 .. hdr'[q].xattr_num :
                           /\ <<q, j>> \in DOMAIN xattr'
                           /\ xattr'[<<q, j>>].name # Junk /\ xattr'[<<q, j>>].parent_index = j
    BY <1>2 DEF FileXattrsOK, IsFile, Exists
  <2>1. /\ hdr[q].xattr_num \in Int /\ hdr[q].xattr_num >= 0
        /\ \A j \in 1 .. hdr[q].xattr_num :
             /\ <<q, j>> \in DOMAIN xattr
             /\ xattr[<<q, j>>].name # Junk /\ xattr[<<q, j>>].parent_index = j
    BY HeaderFields DEF KeysInv, FileXattrsOK, IsFile, Exists, IndInv
  <2>2. /\ hdr'[q].xattr_num >= 0
        /\ \A j \in 1 .. hdr'[q].xattr_num :
             j \in 1 .. hdr[q].xattr_num /\ <<q, j>> # <<p, last>>
    BY <2>1, <1>1, <1>2
  <2> HIDE DEF moved, last
  <2> QED
    BY <2>1, <2>2, <1>4, <1>5
<1> QED
  BY <1>2, <1>6 DEF KeysInv

------------------------------------------------------------------------------
(* All steps.                                                               *)

\* A server with nothing in it but, perhaps, a root directory.
LEMMA BareKeys ==
  ASSUME data = {},
         \/ hdr = EmptyStore
         \/ \E g \in Uninit : hdr = CacheSet(EmptyStore, Root, NewDirHeader(0, g))
  PROVE  KeysInv
<1>1. \A q \in DOMAIN hdr : hdr[q].is_dir = 1
  BY DEF EmptyStore, CacheSet, NewDirHeader
<1> QED
  BY <1>1 DEF KeysInv, DataBucketsOK, FileXattrsOK, IsFile

\* The same of the state a step leads to.
BareServer ==
  /\ data = {}
  /\ \/ hdr = EmptyStore
     \/ \E g \in Uninit : hdr = CacheSet(EmptyStore, Root, NewDirHeader(0, g))

LEMMA BareNow == BareServer => KeysInv
BY BareKeys DEF BareServer

LEMMA BareNext == BareServer' => KeysInv'
BY BareNow, PTL

LEMMA InitKeys == Init => KeysInv
BY BareNow DEF Init, BareServer

LEMMA StepKeys == IndInv /\ KeysInv /\ [Next]_vars => KeysInv'
<1> SUFFICES ASSUME IndInv, KeysInv, [Next]_vars PROVE KeysInv'
  OBVIOUS
<1>1. ASSUME NEW b \in BlockSizes, Reuse(b) \/ Format(b) PROVE KeysInv'
  BY <1>1, SameKeys, BareNext DEF Reuse, Format, stores, BareServer
<1>2. CASE Unmount \/ ServerRestart
  BY <1>2, SameKeys, BareNext DEF Unmount, ServerRestart, stores, BareServer
<1>3. ASSUME NEW p \in Paths, Mkdir(p) PROVE KeysInv'
  <2>1. PICK g \in Uninit : hdr' = HeadersWith(p, NewDirHeader(NextIndex(Parent(p)), g))
    BY <1>3 DEF Mkdir
  <2>2. NewDirHeader(NextIndex(Parent(p)), g).is_dir = 1
    BY DEF NewDirHeader
  <2> QED
    BY <1>3, <2>1, <2>2, AddKeepsKeys DEF Mkdir
<1>4. ASSUME NEW p \in Paths, Create(p) PROVE KeysInv'
  <2> DEFINE h == NewFileHeader(NextIndex(Parent(p)))
  <2>1. h.is_dir = 0 /\ h.num_buckets = 0 /\ h.xattr_num = 0
    BY DEF NewFileHeader
  <2> HIDE DEF h
  <2> QED
    BY <1>4, <2>1, AddKeepsKeys DEF Create, h
<1>5. ASSUME NEW p \in Paths, Rmdir(p) PROVE KeysInv'
  <2>1. CASE NothingRemoved
    BY <2>1, SameKeys DEF NothingRemoved
  <2>2. CASE p # Root /\ Exists(p) /\ RemoveEntry(p) /\ UNCHANGED <<data, xattr>>
    BY <1>5, <2>2, RemoveKeepsKeys DEF Rmdir, Exists, RemoveEntry
  <2> QED
    BY <1>5, <2>1, <2>2 DEF Rmdir
<1>6. ASSUME NEW p \in Paths, Unlink(p) PROVE KeysInv'
  <2>1. CASE NothingRemoved
    BY <2>1, SameKeys DEF NothingRemoved
  <2>2. CASE /\ p # Root /\ Exists(p) /\ RemoveEntry(p)
             /\ xattr' = CacheDelete(xattr, AttrKeysOf(p)) /\ data' = data \ DataKeysOf(p)
    BY <2>2, RemoveKeepsKeys DEF Exists, RemoveEntry
  <2> QED
    BY <1>6, <2>1, <2>2 DEF Unlink
<1>7. ASSUME NEW p \in Paths, NEW n \in 0 .. MaxBuckets, Write(p, n) PROVE KeysInv'
  BY <1>7, WriteKeepsKeys
<1>8. ASSUME NEW p \in Paths, NEW n \in AttrNames, NEW v \in AttrVals, Setxattr(p, n, v)
      PROVE  KeysInv'
  BY <1>8, SetxattrKeepsKeys
<1>9. ASSUME NEW p \in Paths, NEW n \in AttrNames, Removexattr(p, n) PROVE KeysInv'
  <2>1. CASE UNCHANGED <<hdr, xattr>>
    BY <1>9, <2>1, SameKeys DEF Removexattr
  <2>2. ASSUME NEW i \in Stops(p, n), hdr' = [hdr EXCEPT ![p].xattr_num = @ - 1],
               xattr' = AttrsWithout(p, i)
        PROVE  KeysInv'
    BY <1>9, <2>2, RemovexattrKeepsKeys DEF Removexattr, Exists, Stops
  <2> QED
    BY <1>9, <2>1, <2>2 DEF Removexattr
<1>10. ASSUME NEW p \in Paths, Getattr(p) \/ Access(p) \/ Readdir(p) \/ Listxattr(p)
       PROVE  KeysInv'
  BY <1>10, SameKeys DEF Getattr, Access, Readdir, Listxattr, stores
<1>11. ASSUME NEW p \in Paths, NEW n \in AttrNames, Getxattr(p, n) PROVE KeysInv'
  BY <1>11, SameKeys DEF Getxattr, stores
<1>12. CASE UNCHANGED vars
  BY <1>12, SameKeys DEF vars, stores
<1> QED
  BY <1>1, <1>2, <1>3, <1>4, <1>5, <1>6, <1>7, <1>8, <1>9, <1>10, <1>11, <1>12 DEF Next

LEMMA KeysInvHolds == Spec => [](IndInv /\ KeysInv)
BY InitIndInv, StepIndInv, InitKeys, StepKeys, PTL DEF Spec

\* The data buckets in the server are those the files count, whatever order
\* paths are made, written and removed in: unlink leaves none behind.
THEOREM BucketsCounted == Spec => []DataBucketsOK
<1>1. KeysInv => DataBucketsOK
  BY DEF KeysInv
<1> QED
  BY <1>1, KeysInvHolds, PTL

\* A file's attributes are there, named and know their index, through every
\* swap of removexattr and over whatever keys a directory has left.
THEOREM AttributesThere == Spec => []FileXattrsOK
<1>1. KeysInv => FileXattrsOK
  BY DEF KeysInv
<1> QED
  BY <1>1, KeysInvHolds, PTL

------------------------------------------------------------------------------
(* The attributes of a file, as the pairs of name and value a caller sees.  *)

\* Where the attributes with this name and this value are.
AttrsLike(p, n, v) ==
  {i \in 1 .. hdr[p].xattr_num : AttrAt(p, i).name = n /\ AttrAt(p, i).val = v}

\* What AttrsKept says of one file.
KeptOf(p) ==
  LET changed == {nv \in AttrNames \X AttrVals :
                    AttrCount(p, nv[1], nv[2])' # AttrCount(p, nv[1], nv[2])}
  IN  \/ changed = {}
      \/ \E n \in AttrNames, v \in AttrVals :
           /\ changed = {<<n, v>>} /\ ret'.arg = <<p, n>>
           /\ AttrCount(p, n, v)' - AttrCount(p, n, v) =
                CASE ret'.op = "setxattr" -> 1 [] ret'.op = "removexattr" -> -1

LEMMA LikeFinite ==
  ASSUME NEW p, hdr[p].xattr_num \in Int, NEW n, NEW v
  PROVE  /\ IsFiniteSet(AttrsLike(p, n, v)) /\ Cardinality(AttrsLike(p, n, v)) \in Nat
         /\ AttrCount(p, n, v) = Cardinality(AttrsLike(p, n, v))
<1>1. IsFiniteSet(1 .. hdr[p].xattr_num)
  BY FS_Interval
<1>2. AttrsLike(p, n, v) \in SUBSET (1 .. hdr[p].xattr_num)
  BY DEF AttrsLike
<1>3. IsFiniteSet(AttrsLike(p, n, v))
  BY <1>1, <1>2, FS_Subset
<1> QED
  BY <1>3, FS_CardinalityType DEF AttrCount, AttrsLike

\* A step that leaves the attributes a file counts alone.
LEMMA UntouchedKept ==
  ASSUME NEW p, hdr'[p].xattr_num = hdr[p].xattr_num,
         \A i \in 1 .. hdr[p].xattr_num :
            /\ <<p, i>> \in DOMAIN xattr /\ <<p, i>> \in DOMAIN xattr'
            /\ xattr'[<<p, i>>] = xattr[<<p, i>>]
  PROVE  KeptOf(p)
<1>1. \A i \in 1 .. hdr[p].xattr_num : AttrAt(p, i)' = AttrAt(p, i)
  BY DEF AttrAt
<1>2. \A n, v : AttrCount(p, n, v)' = AttrCount(p, n, v)
  <2> SUFFICES ASSUME NEW n, NEW v PROVE AttrCount(p, n, v)' = AttrCount(p, n, v)
    OBVIOUS
  <2>1. AttrsLike(p, n, v)' = AttrsLike(p, n, v)
    BY <1>1 DEF AttrsLike
  <2> QED
    BY <2>1 DEF AttrCount, AttrsLike
<1> QED
  BY <1>2 DEF KeptOf

\* A step that changes how often one pair is there, by one.
LEMMA OneChanges ==
  ASSUME NEW p, NEW n \in AttrNames, NEW v \in AttrVals, ret'.arg = <<p, n>>,
         NEW d \in {1, -1},
         (d = 1 /\ ret'.op = "setxattr") \/ (d = -1 /\ ret'.op = "removexattr"),
         AttrCount(p, n, v) \in Nat, AttrCount(p, n, v)' = AttrCount(p, n, v) + d,
         \A a, b : <<a, b>> # <<n, v>> => AttrCount(p, a, b)' = AttrCount(p, a, b)
  PROVE  KeptOf(p)
<1> DEFINE changed == {nv \in AttrNames \X AttrVals :
                         AttrCount(p, nv[1], nv[2])' # AttrCount(p, nv[1], nv[2])}
<1>1. ASSUME NEW nv \in AttrNames \X AttrVals, nv # <<n, v>>
      PROVE  AttrCount(p, nv[1], nv[2])' = AttrCount(p, nv[1], nv[2])
  <2>1. nv = <<nv[1], nv[2]>>
    OBVIOUS
  <2> QED
    BY <1>1, <2>1
<1>2. AttrCount(p, n, v)' # AttrCount(p, n, v)
  OBVIOUS
<1>3. changed = {<<n, v>>}
  BY <1>1, <1>2
<1>4. AttrCount(p, n, v)' - AttrCount(p, n, v) =
        CASE ret'.op = "setxattr" -> 1 [] ret'.op = "removexattr" -> -1
  <2>1. AttrCount(p, n, v)' - AttrCount(p, n, v) = d
    OBVIOUS
  <2>2. "setxattr" # "removexattr"
    OBVIOUS
  <2> QED
    BY <2>1, <2>2
<1> QED
  BY <1>3, <1>4 DEF KeptOf

\* setxattr appends: the new attribute is one more of its kind.
LEMMA SetxattrKept ==
  ASSUME IndInv, KeysInv, NEW p \in Paths, IsFile(p),
         NEW n \in AttrNames, NEW v \in AttrVals, Setxattr(p, n, v)
  PROVE  KeptOf(p)
<1> PICK last : last = hdr[p].xattr_num
  OBVIOUS
<1> PICK i : i = last + 1
  OBVIOUS
<1>1. /\ p \in DOMAIN hdr /\ last \in Nat
      /\ xattr' = CacheSet(xattr, <<p, i>>, [name |-> n, val |-> v, parent_index |-> i])
      /\ ret'.op = "setxattr" /\ ret'.arg = <<p, n>>
  BY HeaderFields DEF Setxattr, Exists, IndInv, KeysInv, FileXattrsOK, IsFile, Reply
<1>2. hdr'[p].xattr_num = i
  BY <1>1, HeaderFields DEF Setxattr, IndInv, Header
<1>3. \A j \in 1 .. last : AttrAt(p, j)' = AttrAt(p, j)
  <2> SUFFICES ASSUME NEW j \in 1 .. last PROVE AttrAt(p, j)' = AttrAt(p, j)
    OBVIOUS
  <2>1. <<p, j>> \in DOMAIN xattr /\ <<p, j>> # <<p, i>>
    BY <1>1 DEF KeysInv, FileXattrsOK, IsFile
  <2> QED
    BY <1>1, <2>1 DEF AttrAt, CacheSet
<1>4. AttrAt(p, i)'.name = n /\ AttrAt(p, i)'.val = v
  BY <1>1 DEF AttrAt, CacheSet
<1>5. \A a, b : AttrsLike(p, a, b)' =
                  IF <<a, b>> = <<n, v>> THEN AttrsLike(p, a, b) \cup {i} ELSE AttrsLike(p, a, b)
  <2> SUFFICES ASSUME NEW a, NEW b
               PROVE  AttrsLike(p, a, b)' =
                        IF <<a, b>> = <<n, v>> THEN AttrsLike(p, a, b) \cup {i} ELSE AttrsLike(p, a, b)
    OBVIOUS
  <2>1. \A j : j \in 1 .. i <=> (j \in 1 .. last \/ j = i)
    BY <1>1
  <2>2. i \notin 1 .. last
    BY <1>1
  <2>3. \A j : j \in AttrsLike(p, a, b)' <=>
            (j \in AttrsLike(p, a, b) \/ (<<a, b>> = <<n, v>> /\ j = i))
    BY <1>2, <1>3, <1>4, <2>1, <2>2 DEF AttrsLike
  <2>4. CASE <<a, b>> = <<n, v>>
    <3>1. \A j : j \in AttrsLike(p, a, b)' <=> j \in AttrsLike(p, a, b) \cup {i}
      BY <2>3, <2>4
    <3> QED
      BY <2>4, <3>1
  <2>5. CASE <<a, b>> # <<n, v>>
    <3>1. \A j : j \in AttrsLike(p, a, b)' <=> j \in AttrsLike(p, a, b)
      BY <2>3, <2>5
    <3> QED
      BY <2>5, <3>1
  <2> QED
    BY <2>4, <2>5
<1>6. i \notin AttrsLike(p, n, v)
  BY <1>1 DEF AttrsLike
<1>7. hdr[p].xattr_num \in Int /\ hdr'[p].xattr_num \in Int
  BY <1>1, <1>2
<1>8. \A a, b : /\ AttrCount(p, a, b) = Cardinality(AttrsLike(p, a, b))
                /\ AttrCount(p, a, b)' = Cardinality(AttrsLike(p, a, b)')
  BY <1>7, LikeFinite DEF AttrCount, AttrsLike
<1>9. AttrCount(p, n, v) \in Nat /\ AttrCount(p, n, v)' = AttrCount(p, n, v) + 1
  <2>1. IsFiniteSet(AttrsLike(p, n, v)) /\ Cardinality(AttrsLike(p, n, v)) \in Nat
    BY <1>7, LikeFinite
  <2>2. Cardinality(AttrsLike(p, n, v) \cup {i}) = Cardinality(AttrsLike(p, n, v)) + 1
    BY <1>6, <2>1, FS_AddElement
  <2> QED
    BY <1>5, <1>8, <2>1, <2>2, SMTT(60)
<1>10. \A a, b : <<a, b>> # <<n, v>> => AttrCount(p, a, b)' = AttrCount(p, a, b)
  BY <1>5, <1>8
<1>11. 1 \in {1, -1} /\ ret'.op = "setxattr" /\ ret'.arg = <<p, n>>
  BY <1>1
<1> QED
  BY <1>9, <1>10, <1>11, OneChanges

\* removexattr moves the last attribute into the hole: of the pair that went
\* there is one less, and of every other as many as before.
LEMMA RemovexattrKept ==
  ASSUME IndInv, KeysInv, NEW p \in Paths, IsFile(p), NEW n \in AttrNames,
         NEW i \in Stops(p, n),
         hdr' = [hdr EXCEPT ![p].xattr_num = @ - 1], xattr' = AttrsWithout(p, i),
         ret'.op = "removexattr", ret'.arg = <<p, n>>
  PROVE  KeptOf(p)
<1> PICK last : last = hdr[p].xattr_num
  OBVIOUS
<1> PICK moved : moved = [AttrAt(p, last) EXCEPT !.parent_index = i]
  OBVIOUS
<1> PICK v : v = AttrAt(p, i).val
  OBVIOUS
<1>1. p \in DOMAIN hdr /\ last \in Nat /\ i \in 1 .. last
  BY HeaderFields DEF Stops, Exists, IndInv, KeysInv, FileXattrsOK, IsFile
<1>2. hdr'[p].xattr_num = last - 1
  BY <1>1, HeaderFields DEF IndInv, Header
<1>3. \A j \in 1 .. last : /\ <<p, j>> \in DOMAIN xattr /\ AttrAt(p, j) = xattr[<<p, j>>]
                           /\ AttrAt(p, j).name # Junk /\ AttrAt(p, j) \in Attr
  BY <1>1 DEF KeysInv, FileXattrsOK, AttrAt, IsFile, IndInv, TypeOK, IsStore
<1>4. AttrAt(p, i).name = n
  BY <1>1, <1>3 DEF Stops, MayMatch
<1>5. moved.name = AttrAt(p, last).name /\ moved.val = AttrAt(p, last).val
  BY <1>1, <1>3 DEF Attr
<1>6. \A j \in 1 .. last - 1 : /\ AttrAt(p, j)'.name = AttrAt(p, IF j = i THEN last ELSE j).name
                               /\ AttrAt(p, j)'.val = AttrAt(p, IF j = i THEN last ELSE j).val
  <2> SUFFICES ASSUME NEW j \in 1 .. last - 1
               PROVE  /\ AttrAt(p, j)'.name = AttrAt(p, IF j = i THEN last ELSE j).name
                      /\ AttrAt(p, j)'.val = AttrAt(p, IF j = i THEN last ELSE j).val
    OBVIOUS
  <2>1. <<p, j>> \in DOMAIN xattr /\ <<p, j>> # <<p, last>> /\ (<<p, j>> = <<p, i>> <=> j = i)
    BY <1>1, <1>3
  <2>2. xattr' = CacheDelete(CacheSet(xattr, <<p, i>>, moved), {<<p, last>>})
    BY DEF AttrsWithout
  <2>3. <<p, j>> \in DOMAIN xattr' /\ xattr'[<<p, j>>] = IF j = i THEN moved ELSE xattr[<<p, j>>]
    BY <2>1, <2>2 DEF CacheDelete, CacheSet
  <2> QED
    BY <1>5, <2>1, <2>3 DEF AttrAt
<1>7. hdr[p].xattr_num \in Int /\ hdr'[p].xattr_num \in Int
  BY <1>1, <1>2
<1>8. \A a, b : /\ AttrCount(p, a, b) = Cardinality(AttrsLike(p, a, b))
                /\ AttrCount(p, a, b)' = Cardinality(AttrsLike(p, a, b)')
                /\ IsFiniteSet(AttrsLike(p, a, b)) /\ Cardinality(AttrsLike(p, a, b)) \in Nat
  <2> SUFFICES ASSUME NEW a, NEW b
               PROVE  /\ AttrCount(p, a, b) = Cardinality(AttrsLike(p, a, b))
                      /\ AttrCount(p, a, b)' = Cardinality(AttrsLike(p, a, b)')
                      /\ IsFiniteSet(AttrsLike(p, a, b)) /\ Cardinality(AttrsLike(p, a, b)) \in Nat
    OBVIOUS
  <2>1. AttrCount(p, a, b)' = Cardinality(AttrsLike(p, a, b)')
    BY DEF AttrCount, AttrsLike
  <2> QED
    BY <1>7, <2>1, LikeFinite
<1>9. ASSUME NEW a, NEW b
      PROVE  /\ \A j : j \in AttrsLike(p, a, b)' <=>
                  \/ j \in AttrsLike(p, a, b) /\ j # i /\ j # last
                  \/ j = i /\ i # last /\ last \in AttrsLike(p, a, b)
             /\ i \in AttrsLike(p, a, b) <=> <<a, b>> = <<n, v>>
  <2>1. \A j : j \in 1 .. last - 1 <=> (j \in 1 .. last /\ j # last)
    BY <1>1
  <2>2. last \in 1 .. last
    BY <1>1
  <2>3. \A j : j \in AttrsLike(p, a, b)' <=>
            j \in 1 .. last - 1 /\ AttrAt(p, j)'.name = a /\ AttrAt(p, j)'.val = b
    BY <1>2 DEF AttrsLike
  <2>4. \A j : j \in AttrsLike(p, a, b) <=>
            j \in 1 .. last /\ AttrAt(p, j).name = a /\ AttrAt(p, j).val = b
    BY DEF AttrsLike
  <2> QED
    BY <1>1, <1>4, <1>6, <2>1, <2>2, <2>3, <2>4
<1>10. AttrCount(p, n, v)' = AttrCount(p, n, v) - 1
  <2> DEFINE L == AttrsLike(p, n, v)
  <2>1. i \in L
    BY <1>9
  <2>2. CASE last \in L
    <3>1. L' = L \ {last}
      BY <1>9, <2>1, <2>2
    <3>2. Cardinality(L \ {last}) = Cardinality(L) - 1
      BY <1>8, <2>2, FS_RemoveElement
    <3> QED
      BY <1>8, <3>1, <3>2
  <2>3. CASE last \notin L
    <3>1. L' = L \ {i}
      BY <1>9, <2>1, <2>3
    <3>2. Cardinality(L \ {i}) = Cardinality(L) - 1
      BY <1>8, <2>1, FS_RemoveElement
    <3> QED
      BY <1>8, <3>1, <3>2
  <2> QED
    BY <2>2, <2>3
<1>11. ASSUME NEW a, NEW b, <<a, b>> # <<n, v>>
       PROVE  AttrCount(p, a, b)' = AttrCount(p, a, b)
  <2> DEFINE L == AttrsLike(p, a, b)
  <2>1. i \notin L
    BY <1>9, <1>11
  <2>2. CASE last \in L
    <3>1. L' = (L \ {last}) \cup {i}
      BY <1>9, <2>1, <2>2
    <3>2. /\ IsFiniteSet(L \ {last}) /\ Cardinality(L \ {last}) = Cardinality(L) - 1
          /\ Cardinality(L) \in Nat
      BY <1>8, <2>2, FS_RemoveElement
    <3>3. Cardinality((L \ {last}) \cup {i}) = Cardinality(L \ {last}) + 1
      BY <2>1, <3>2, FS_AddElement
    <3>4. Cardinality((L \ {last}) \cup {i}) = Cardinality(L)
      BY <3>2, <3>3
    <3> QED
      BY <1>8, <3>1, <3>4
  <2>3. CASE last \notin L
    <3>1. \A j : j \in L' <=> j \in L
      BY <1>9, <2>1, <2>3
    <3>2. L' = L
      BY <3>1
    <3> QED
      BY <1>8, <3>2
  <2> QED
    BY <2>2, <2>3
<1>12. CASE v \in AttrVals
  <2>1. AttrCount(p, n, v) \in Nat
    BY <1>8
  <2>2. -1 \in {1, -1} /\ AttrCount(p, n, v)' = AttrCount(p, n, v) + (-1)
    BY <1>10, <2>1
  <2> QED
    BY <1>11, <1>12, <2>1, <2>2, OneChanges
<1>13. CASE v \notin AttrVals
  <2>1. ASSUME NEW nv \in AttrNames \X AttrVals
        PROVE  AttrCount(p, nv[1], nv[2])' = AttrCount(p, nv[1], nv[2])
    <3>1. <<nv[1], nv[2]>> # <<n, v>>
      BY <1>13
    <3> QED
      BY <3>1, <1>11
  <2> QED
    BY <2>1 DEF KeptOf
<1> QED
  BY <1>12, <1>13

\* A file's attributes are still those it counts, whatever handler ran.
LEMMA StepAttrs ==
  IndInv /\ KeysInv /\ [Next]_vars =>
    [\A p \in DOMAIN hdr : IsFile(p) /\ IsFile(p)' => KeptOf(p)]_vars
<1> SUFFICES ASSUME IndInv, KeysInv, [Next]_vars, NEW q \in DOMAIN hdr, IsFile(q), IsFile(q)'
             PROVE  KeptOf(q)
  OBVIOUS
<1>1. /\ q \in Paths /\ hdr[q].is_dir = 0
      /\ \A i \in 1 .. hdr[q].xattr_num : <<q, i>> \in DOMAIN xattr
  BY HeaderFields DEF IndInv, KeysInv, FileXattrsOK, IsFile
<1>2. ASSUME UNCHANGED <<hdr, xattr>> PROVE KeptOf(q)
  BY <1>1, <1>2, UntouchedKept
<1>3. ASSUME SameFile(q), xattr' = xattr PROVE KeptOf(q)
  BY <1>1, <1>3, UntouchedKept DEF SameFile
<1>4. ASSUME \A x \in DOMAIN hdr' : hdr'[x].is_dir = 1 PROVE KeptOf(q)
  BY <1>4 DEF IsFile, Exists
<1>5. ASSUME NEW b \in BlockSizes, Reuse(b) \/ Format(b) PROVE KeptOf(q)
  <2>1. CASE Reuse(b)
    BY <2>1, <1>2 DEF Reuse, stores
  <2>2. CASE Format(b)
    BY <2>2, <1>4 DEF Format, EmptyStore, CacheSet, NewDirHeader
  <2> QED
    BY <1>5, <2>1, <2>2
<1>6. CASE Unmount \/ ServerRestart
  <2>1. CASE Unmount
    BY <2>1, <1>2 DEF Unmount, stores
  <2>2. CASE ServerRestart
    BY <2>2, <1>4 DEF ServerRestart, EmptyStore
  <2> QED
    BY <1>6, <2>1, <2>2
<1>7. ASSUME NEW p \in Paths, Mkdir(p) \/ Create(p) PROVE KeptOf(q)
  <2>1. Absent(p) /\ xattr' = xattr /\ \E h : hdr' = HeadersWith(p, h)
    BY <1>7 DEF Mkdir, Create
  <2> QED
    BY <2>1, <1>3, AddSameFiles
<1>8. ASSUME NEW p \in Paths, Rmdir(p) PROVE KeptOf(q)
  <2>1. CASE NothingRemoved
    BY <2>1, <1>2 DEF NothingRemoved
  <2>2. CASE p # Root /\ Exists(p) /\ RemoveEntry(p) /\ UNCHANGED <<data, xattr>>
    BY <2>2, <1>3, RemoveSameFiles DEF RemoveEntry, Exists, IsFile
  <2> QED
    BY <1>8, <2>1, <2>2 DEF Rmdir
<1>9. ASSUME NEW p \in Paths, Unlink(p) PROVE KeptOf(q)
  <2>1. CASE NothingRemoved
    BY <2>1, <1>2 DEF NothingRemoved
  <2>2. CASE /\ p # Root /\ Exists(p) /\ RemoveEntry(p)
             /\ xattr' = CacheDelete(xattr, AttrKeysOf(p))
    <3>1. SameFile(q) /\ q # p
      BY <2>2, RemoveSameFiles DEF RemoveEntry, Exists, IsFile
    <3>2. \A i \in 1 .. hdr[q].xattr_num :
             <<q, i>> \in DOMAIN xattr' /\ xattr'[<<q, i>>] = xattr[<<q, i>>]
      BY <2>2, <3>1, <1>1 DEF CacheDelete, AttrKeysOf
    <3> QED
      BY <3>1, <3>2, <1>1, UntouchedKept DEF SameFile
  <2> QED
    BY <1>9, <2>1, <2>2 DEF Unlink
<1>10. ASSUME NEW p \in Paths, NEW n \in 0 .. MaxBuckets, Write(p, n) PROVE KeptOf(q)
  <2>1. hdr'[q].xattr_num = hdr[q].xattr_num /\ xattr' = xattr
    BY <1>10, HeaderFields DEF Write, IndInv, Header
  <2> QED
    BY <2>1, <1>1, UntouchedKept
<1>11. ASSUME NEW p \in Paths, NEW n \in AttrNames, NEW v \in AttrVals, Setxattr(p, n, v)
       PROVE  KeptOf(q)
  <2>1. CASE p = q
    BY <1>11, <2>1, SetxattrKept
  <2>2. CASE p # q
    <3>1. hdr'[q] = hdr[q]
      BY <1>11, <2>2 DEF Setxattr
    <3>2. \A i \in 1 .. hdr[q].xattr_num :
             <<q, i>> \in DOMAIN xattr' /\ xattr'[<<q, i>>] = xattr[<<q, i>>]
      BY <1>11, <2>2, <1>1 DEF Setxattr, CacheSet
    <3> QED
      BY <3>1, <3>2, <1>1, UntouchedKept
  <2> QED
    BY <2>1, <2>2
<1>12. ASSUME NEW p \in Paths, NEW n \in AttrNames, Removexattr(p, n) PROVE KeptOf(q)
  <2>1. CASE UNCHANGED <<hdr, xattr>>
    BY <2>1, <1>2
  <2>2. ASSUME NEW i \in Stops(p, n), hdr' = [hdr EXCEPT ![p].xattr_num = @ - 1],
               xattr' = AttrsWithout(p, i), Reply("removexattr", <<p, n>>, "ok")
        PROVE  KeptOf(q)
    <3>1. CASE p = q
      BY <2>2, <3>1, RemovexattrKept DEF Reply
    <3>2. CASE p # q
      <4>1. hdr'[q] = hdr[q]
        BY <2>2, <3>2
      <4>2. \A j \in 1 .. hdr[q].xattr_num :
               <<q, j>> \in DOMAIN xattr' /\ xattr'[<<q, j>>] = xattr[<<q, j>>]
        BY <2>2, <3>2, <1>1 DEF AttrsWithout, CacheSet, CacheDelete
      <4> QED
        BY <4>1, <4>2, <1>1, UntouchedKept
    <3> QED
      BY <3>1, <3>2
  <2> QED
    BY <1>12, <2>1, <2>2 DEF Removexattr
<1>13. ASSUME NEW p \in Paths, Getattr(p) \/ Access(p) \/ Readdir(p) \/ Listxattr(p)
       PROVE  KeptOf(q)
  BY <1>13, <1>2 DEF Getattr, Access, Readdir, Listxattr, stores
<1>14. ASSUME NEW p \in Paths, NEW n \in AttrNames, Getxattr(p, n) PROVE KeptOf(q)
  BY <1>14, <1>2 DEF Getxattr, stores
<1>15. CASE UNCHANGED vars
  BY <1>15, <1>2 DEF vars, stores
<1> QED
  BY <1>5, <1>6, <1>7, <1>8, <1>9, <1>10, <1>11, <1>12, <1>13, <1>14, <1>15 DEF Next

\* Attributes of a file come by setxattr and go by removexattr, one at a time
\* and by name, for any number of them: the swap loses and doubles none.
THEOREM AttributesKept == Spec => AttrsKept
<1>1. IndInv /\ KeysInv /\ [Next]_vars =>
        [\A p \in DOMAIN hdr : IsFile(p) /\ IsFile(p)' =>
           LET changed == {nv \in AttrNames \X AttrVals :
                             AttrCount(p, nv[1], nv[2])' # AttrCount(p, nv[1], nv[2])}
           IN  \/ changed = {}
               \/ \E n \in AttrNames, v \in AttrVals :
                    /\ changed = {<<n, v>>} /\ ret'.arg = <<p, n>>
                    /\ AttrCount(p, n, v)' - AttrCount(p, n, v) =
                         CASE ret'.op = "setxattr" -> 1 [] ret'.op = "removexattr" -> -1]_vars
  BY StepAttrs DEF KeptOf
<1> QED
  BY <1>1, KeysInvHolds, PTL DEF Spec, AttrsKept

------------------------------------------------------------------------------
(* The locks that handlers hold.                                            *)

\* at and job are functions on the workers.
Shape ==
  /\ at = [w \in Workers |-> at[w]]
  /\ job = [w \in Workers |-> job[w]]

\* No two handlers in progress have the same inode locked.
HoldersApart == \A v, w \in Workers : v # w => Holds(v) \cap Holds(w) = {}

\* Which handlers get to the requests that write back a header.
StageOK ==
  \A w \in Workers :
     /\ at[w] = "SetCount" => job[w].op \in {"mkdir", "create"}
     /\ at[w] \in {"GetCount", "SetLess"} => job[w].op \in {"rmdir", "unlink"}
     /\ at[w] \in {"SetBucket", "SetNum"} =>
          job[w].op \in {"write", "setxattr", "removexattr"}

LockInv == Shape /\ HoldersApart /\ StageOK

\* What a worker has read to write back, it has locked, or it is a tenant.
LEMMA PendingHeld ==
  ASSUME StageOK, NEW w \in Workers, at[w] # "SetTenant"
  PROVE  Pending(w) \subseteq Holds(w)
<1>1. CASE at[w] \in {"SetCount", "SetLess"}
  BY <1>1 DEF StageOK, Pending, Holds, Locks, Busy
<1>2. CASE at[w] \in {"SetBucket", "SetNum"}
  BY <1>2 DEF StageOK, Pending, Holds, Locks, Busy
<1>3. CASE at[w] \notin {"SetCount", "SetLess", "SetBucket", "SetNum"}
  BY <1>3 DEF Pending
<1> QED
  BY <1>1, <1>2, <1>3

LEMMA InvImplies == LockInv => OnlyTenantsClash
<1> SUFFICES ASSUME LockInv, NEW v \in Workers, NEW w \in Workers, v # w,
                    at[v] # "SetTenant", at[w] # "SetTenant"
             PROVE  Pending(v) \cap Pending(w) = {}
  BY DEF OnlyTenantsClash
<1>1. Pending(v) \subseteq Holds(v) /\ Pending(w) \subseteq Holds(w)
  BY PendingHeld DEF LockInv
<1> QED
  BY <1>1 DEF LockInv, HoldersApart

LEMMA InitLocks == StepsInit => LockInv
BY ZenonT(60) DEF StepsInit, LockInv, Shape, HoldersApart, StageOK, Holds, Busy

\* A handler starts when nobody holds what it locks.
LEMMA StartKeeps ==
  ASSUME LockInv, NEW w \in Workers, NEW op, NEW p, NEW arg, NEW next,
         Start(w, op, p, arg, next),
         \/ op \in {"mkdir", "create"} /\ next = "SetCount"
         \/ op \in {"rmdir", "unlink"} /\ next = "GetCount"
         \/ op \in {"write", "setxattr", "removexattr"} /\ next \in {"SetBucket", "SetNum"}
  PROVE  LockInv'
<1>1. Shape'
  BY DEF LockInv, Shape, Start
<1>2. at'[w] = next /\ job'[w] = [op |-> op, p |-> p, arg |-> arg]
  BY DEF LockInv, Shape, Start
<1>3. \A v \in Workers : v # w => at'[v] = at[v] /\ job'[v] = job[v]
  BY DEF LockInv, Shape, Start
<1>4. Holds(w)' = Locks(op, p)
  BY <1>2 DEF Holds, Busy, Locks
<1>5. \A v \in Workers : v # w => Holds(v)' = Holds(v)
  BY <1>3 DEF Holds, Busy, Locks
<1>6. HoldersApart'
  BY <1>4, <1>5 DEF LockInv, HoldersApart, Start
<1>7. StageOK'
  BY <1>2, <1>3 DEF LockInv, StageOK
<1> QED
  BY <1>1, <1>6, <1>7 DEF LockInv

\* A handler that goes on keeps its locks; one that ends gives them back.
LEMMA GoKeeps ==
  ASSUME LockInv, NEW w \in Workers, Busy(w), NEW next, Goes(w, next),
         \/ next \notin {"idle", "SetCount", "GetCount", "SetLess", "SetBucket", "SetNum"}
         \/ next = "SetLess" /\ at[w] = "GetCount"
         \/ next = "SetBucket" /\ at[w] = "SetBucket"
  PROVE  LockInv'
<1>1. Shape'
  BY DEF LockInv, Shape, Goes
<1>2. at'[w] = next /\ next # "idle" /\ job' = job
  BY DEF LockInv, Shape, Goes
<1>3. \A v \in Workers : v # w => at'[v] = at[v]
  BY DEF LockInv, Shape, Goes
<1>4. \A v \in Workers : Holds(v)' = Holds(v)
  BY <1>2, <1>3 DEF Holds, Busy, Locks
<1>5. HoldersApart'
  BY <1>4 DEF LockInv, HoldersApart
<1>6. StageOK'
  BY <1>2, <1>3 DEF LockInv, StageOK
<1> QED
  BY <1>1, <1>5, <1>6 DEF LockInv

LEMMA EndKeeps ==
  ASSUME LockInv, NEW w \in Workers, NEW val, Ends(w, val)
  PROVE  LockInv'
<1>1. Shape'
  BY DEF LockInv, Shape, Ends
<1>2. at'[w] = "idle"
  BY DEF LockInv, Shape, Ends
<1>3. \A v \in Workers : v # w => at'[v] = at[v] /\ job'[v] = job[v]
  BY DEF LockInv, Shape, Ends
<1>4. Holds(w)' = {}
  BY <1>2 DEF Holds, Busy
<1>5. \A v \in Workers : v # w => Holds(v)' = Holds(v)
  BY <1>3 DEF Holds, Busy, Locks
<1>6. HoldersApart'
  BY <1>4, <1>5 DEF LockInv, HoldersApart
<1>7. StageOK'
  BY <1>2, <1>3 DEF LockInv, StageOK
<1> QED
  BY <1>1, <1>6, <1>7 DEF LockInv

LEMMA HandlerKeeps ==
  ASSUME LockInv, NEW w \in Workers, Handler(w)
  PROVE  LockInv'
<1>1. ASSUME NEW p \in Paths, NEW op \in {"mkdir", "create"}, MakeStart(w, op, p)
      PROVE  LockInv'
  BY <1>1, StartKeeps DEF MakeStart
<1>2. ASSUME NEW p \in Paths, NEW op \in {"rmdir", "unlink"}, RemoveStart(w, op, p)
      PROVE  LockInv'
  BY <1>2, StartKeeps DEF RemoveStart
<1>3. ASSUME NEW p \in Paths, NEW n \in 0 .. MaxBuckets, WriteStart(w, p, n)
      PROVE  LockInv'
  BY <1>3, StartKeeps DEF WriteStart
<1>4. ASSUME NEW p \in Paths, NEW n \in AttrNames, RemovexattrStart(w, p, n)
      PROVE  LockInv'
  BY <1>4, StartKeeps DEF RemovexattrStart
<1>5. ASSUME NEW p \in Paths, NEW n \in AttrNames, NEW v \in AttrVals, SetxattrStart(w, p, n, v)
      PROVE  LockInv'
  BY <1>5, StartKeeps DEF SetxattrStart
<1>6. CASE SetCount(w)
  BY <1>6, GoKeeps DEF SetCount, Busy
<1>7. CASE SetEntry(w)
  BY <1>7, GoKeeps DEF SetEntry, Busy
<1>8. CASE SetHeader(w)
  BY <1>8, EndKeeps DEF SetHeader
<1>9. CASE GetCount(w)
  BY <1>9, GoKeeps DEF GetCount, Busy
<1>10. CASE SetLess(w)
  BY <1>10, GoKeeps DEF SetLess, Busy
<1>11. CASE SetSlot(w)
  BY <1>11, GoKeeps DEF SetSlot, Busy
<1>12. CASE GetTenant(w)
  BY <1>12, GoKeeps DEF GetTenant, Busy
<1>13. CASE SetTenant(w)
  BY <1>13, GoKeeps DEF SetTenant, Busy
<1>14. CASE DelLast(w)
  BY <1>14, GoKeeps DEF DelLast, Busy
<1>15. CASE DelHeader(w)
  BY <1>15, GoKeeps, EndKeeps DEF DelHeader, Busy
<1>16. CASE DelKeys(w)
  BY <1>16, GoKeeps DEF DelKeys, Busy
<1>17. CASE UnlinkEnds(w)
  BY <1>17, EndKeeps DEF UnlinkEnds
<1>18. CASE SetBucket(w)
  BY <1>18, GoKeeps DEF SetBucket, Busy
<1>19. CASE WriteEnds(w)
  BY <1>19, EndKeeps DEF WriteEnds
<1>20. CASE SetNum(w)
  <2> DEFINE next == IF job[w].op = "setxattr" THEN "SetAttr" ELSE "MoveAttr"
  <2>1. Goes(w, next) /\ Busy(w)
    BY <1>20 DEF SetNum, Busy
  <2>2. next \notin {"idle", "SetCount", "GetCount", "SetLess", "SetBucket", "SetNum"}
    OBVIOUS
  <2> HIDE DEF next
  <2> QED
    BY <2>1, <2>2, GoKeeps
<1>21. CASE SetAttr(w)
  BY <1>21, EndKeeps DEF SetAttr
<1>22. CASE MoveAttr(w)
  BY <1>22, GoKeeps DEF MoveAttr, Busy
<1>23. CASE DelAttr(w)
  BY <1>23, EndKeeps DEF DelAttr
<1> QED
  BY <1>1, <1>2, <1>3, <1>4, <1>5, <1>6, <1>7, <1>8, <1>9, <1>10, <1>11, <1>12, <1>13,
     <1>14, <1>15, <1>16, <1>17, <1>18, <1>19, <1>20, <1>21, <1>22, <1>23 DEF Handler

LEMMA StutterKeeps == LockInv /\ UNCHANGED stepVars => LockInv'
BY DEF LockInv, Shape, HoldersApart, StageOK, Holds, Busy, Locks, stepVars, locals

\* Two workers hold copies of the same header only while a removal re-indexes
\* its tenant: everything else the kernel's locks serialise.
THEOREM LocksSerialise == StepsSpec => []OnlyTenantsClash
<1>1. LockInv /\ [StepsNext]_stepVars => LockInv'
  BY HandlerKeeps, StutterKeeps DEF StepsNext, Rest
<1> QED
  BY InitLocks, <1>1, InvImplies, PTL DEF StepsSpec
------------------------------------------------------------------------------
(* What every handler in progress has done so far, and left to be done.     *)

Dir(w) == Parent(job[w].p)
Slot(w) == <<Dir(w), mem[w].i>>          \* the slot a handler adds or empties
Hole(w) == <<Dir(w), mem[w].own.parent_index>>   \* the slot of the path it removes

\* w has the slot k no longer counted, but still there; counted it, but not
\* filled it; filled it for a path that is not there yet; filled it with a path
\* whose header names another slot.
Uncounts(w, k) == at[w] \in {"SetSlot", "GetTenant", "SetTenant", "DelLast"} /\ k = Slot(w)
Counts(w, k) == at[w] = "SetEntry" /\ k = Slot(w)
Bears(w, k) == at[w] = "SetHeader" /\ k = Slot(w)
Moves(w, k) == \/ at[w] \in {"GetTenant", "SetTenant"} /\ k = Hole(w)
               \/ at[w] = "DelLast" /\ k = Slot(w)

\* w may have taken p out of its slot.
Drops(w, p) == at[w] \in {"GetTenant", "SetTenant", "DelLast", "DelHeader"} /\ p = job[w].p

\* The bucket k is one that w has stored and not counted, or has not deleted.
Spares(w, k) ==
  /\ k[1] = job[w].p
  /\ \/ at[w] = "SetBucket" /\ k[2] <= copy[w].num_buckets
     \/ at[w] = "DelKeys" /\ k[2] <= mem[w].own.num_buckets
                          /\ k[2] + mem[w].own.xattr_num >= mem[w].i

\* w has counted the attribute i of p, but not stored it.
Adds(w, p, i) == at[w] = "SetAttr" /\ job[w].p = p /\ copy[w].xattr_num = i

StoresOK ==
  /\ IsStore(hdr, Paths, Header) /\ IsStore(child, Keys, Paths)
  /\ data \subseteq Keys /\ IsStore(xattr, AttrKeys, Attr)
  /\ mounted /\ stats # NoStats /\ IsDir(Root)

CountsOK ==
  /\ \A k \in DOMAIN child :
       IsDir(k[1]) /\ (k[2] <= hdr[k[1]].num_buckets \/ \E w \in Workers : Uncounts(w, k))
  /\ \A d \in DOMAIN hdr : IsDir(d) =>
       \A i \in 1 .. hdr[d].num_buckets :
          <<d, i>> \in DOMAIN child \/ \E w \in Workers : Counts(w, <<d, i>>)

ChildrenOK ==
  \A k \in DOMAIN child :
    /\ child[k] # Root /\ Parent(child[k]) = k[1]
    /\ \/ Exists(child[k]) /\ (SlotOf(child[k]) = k[2] \/ \E w \in Workers : Moves(w, k))
       \/ \E w \in Workers : Bears(w, k)

PathsOK ==
  \A p \in DOMAIN hdr \ {Root} :
    /\ IsDir(Parent(p))
    /\ \/ <<Parent(p), SlotOf(p)>> \in DOMAIN child /\ child[<<Parent(p), SlotOf(p)>>] = p
       \/ \E w \in Workers : Drops(w, p)

BucketsOK ==
  /\ \A k \in data : \/ IsFile(k[1]) /\ k[2] <= hdr[k[1]].num_buckets
                     \/ \E w \in Workers : Spares(w, k)
  /\ \A p \in DOMAIN hdr : IsFile(p) => DataKeysOf(p) \subseteq data

AttrThere(p, i) ==
  <<p, i>> \in DOMAIN xattr /\ xattr[<<p, i>>].name # Junk /\ xattr[<<p, i>>].parent_index = i

AttrsOK ==
  \A p \in DOMAIN hdr : IsFile(p) =>
    /\ hdr[p].xattr_num >= 0
    /\ \A i \in 1 .. hdr[p].xattr_num : AttrThere(p, i) \/ \E w \in Workers : Adds(w, p, i)

\* What a worker has in hand.
LocalsOK ==
  /\ copy = [w \in Workers |-> copy[w]]
  /\ mem = [w \in Workers |-> [own |-> mem[w].own, i |-> mem[w].i, who |-> mem[w].who]]
  /\ \A w \in Workers : copy[w] \in Header /\ mem[w].own \in Header /\ mem[w].i \in Int

MakerOK(w) ==
  LET p == job[w].p
      d == Dir(w)
  IN  /\ job[w].op \in {"mkdir", "create"} /\ p \in Paths /\ p # Root /\ ~Exists(p) /\ IsDir(d)
      /\ at[w] = "SetCount" => copy[w] = hdr[d]
      /\ at[w] \in {"SetEntry", "SetHeader"} => mem[w].i = hdr[d].num_buckets /\ mem[w].i >= 1
      /\ at[w] = "SetEntry" => Slot(w) \notin DOMAIN child
      /\ at[w] = "SetHeader" => Slot(w) \in DOMAIN child /\ child[Slot(w)] = p

RemoverOK(w) ==
  LET p == job[w].p
      d == Dir(w)
      own == mem[w].own
      t == mem[w].who
  IN  /\ job[w].op \in {"rmdir", "unlink"} /\ p # Root /\ Exists(p) /\ IsDir(d)
      /\ own = hdr[p] /\ own.is_dir = (IF job[w].op = "rmdir" THEN 1 ELSE 0)
      /\ own.is_dir = 1 => own.num_buckets <= 0
      /\ at[w] = "SetLess" => copy[w] = hdr[d]
      /\ at[w] \in {"SetSlot", "GetTenant", "SetTenant", "DelLast"} =>
           mem[w].i = hdr[d].num_buckets + 1 /\ Slot(w) \in DOMAIN child
      /\ at[w] \in {"GetTenant", "SetTenant", "DelLast"} =>
           /\ Hole(w) \in DOMAIN child /\ child[Slot(w)] = t /\ child[Hole(w)] = t /\ Exists(t)
           /\ own.parent_index <= mem[w].i /\ (own.parent_index = mem[w].i <=> t = p)
           /\ SlotOf(t) = IF at[w] = "DelLast" THEN own.parent_index ELSE mem[w].i
      /\ at[w] = "SetTenant" => copy[w] = hdr[t]
      /\ at[w] = "DelHeader" => \A k \in DOMAIN child : k[1] = d => child[k] # p

DeleterOK(w) ==
  /\ job[w].op = "unlink" /\ job[w].p # Root /\ ~Exists(job[w].p)
  /\ mem[w].i \in Nat /\ mem[w].own.xattr_num >= 0

WriterOK(w) ==
  LET p == job[w].p
      n == copy[w].num_buckets
  IN  /\ job[w].op = "write" /\ IsFile(p) /\ mem[w].i \in Nat
      /\ n >= hdr[p].num_buckets
      /\ copy[w] = [hdr[p] EXCEPT !.num_buckets = n]
      /\ \A i \in hdr[p].num_buckets + 1 .. n : <<p, i>> \in data

AttrWriterOK(w) ==
  LET p == job[w].p
      n == copy[w].xattr_num
      old == IF job[w].op = "setxattr" THEN n - 1 ELSE n + 1
  IN  /\ job[w].op \in {"setxattr", "removexattr"} /\ Exists(p)
      /\ job[w].op = "setxattr" =>
           /\ at[w] \in {"SetNum", "SetAttr"}
           /\ mem[w].who[1] \in AttrNames /\ mem[w].who[2] \in AttrVals
      /\ job[w].op = "removexattr" =>
           at[w] \in {"SetNum", "MoveAttr", "DelAttr"} /\ mem[w].i \in 1 .. old
      /\ at[w] = "SetNum" => copy[w] = [hdr[p] EXCEPT !.xattr_num = n] /\ hdr[p].xattr_num = old
      /\ at[w] # "SetNum" => hdr[p].xattr_num = n
      /\ at[w] = "MoveAttr" /\ IsFile(p) => AttrThere(p, old)

WorkerOK(w) ==
  /\ at[w] \in {"idle", "SetCount", "SetEntry", "SetHeader", "GetCount", "SetLess", "SetSlot",
                "GetTenant", "SetTenant", "DelLast", "DelHeader", "DelKeys", "SetBucket",
                "SetNum", "SetAttr", "MoveAttr", "DelAttr"}
  /\ at[w] \in {"SetCount", "SetEntry", "SetHeader"} => MakerOK(w)
  /\ at[w] \in {"GetCount", "SetLess", "SetSlot", "GetTenant", "SetTenant", "DelLast",
                "DelHeader"} => RemoverOK(w)
  /\ at[w] = "DelKeys" => DeleterOK(w)
  /\ at[w] = "SetBucket" => WriterOK(w)
  /\ at[w] \in {"SetNum", "SetAttr", "MoveAttr", "DelAttr"} => AttrWriterOK(w)

TreeOK == StoresOK /\ CountsOK /\ ChildrenOK /\ PathsOK /\ BucketsOK /\ AttrsOK

WorkersOK == LocalsOK /\ \A w \in Workers : WorkerOK(w)

\* Until headers have clashed, everything is as it should be, but for what
\* each handler in progress has yet to do.
StepsInv == LockInv /\ (~clashed => TreeOK /\ WorkersOK)

------------------------------------------------------------------------------
(* What a handler holds, and what others leave alone of it.                 *)

SameLocals(v) ==
  at'[v] = at[v] /\ job'[v] = job[v] /\ copy'[v] = copy[v] /\ mem'[v] = mem[v]

LEMMA SameNotes ==
  ASSUME NEW v \in Workers, SameLocals(v)
  PROVE  /\ Holds(v)' = Holds(v) /\ Pending(v)' = Pending(v)
         /\ \A k : /\ Uncounts(v, k)' <=> Uncounts(v, k)
                   /\ Counts(v, k)' <=> Counts(v, k)
                   /\ Bears(v, k)' <=> Bears(v, k)
                   /\ Moves(v, k)' <=> Moves(v, k)
                   /\ Drops(v, k)' <=> Drops(v, k)
                   /\ Spares(v, k)' <=> Spares(v, k)
         /\ \A p, i : Adds(v, p, i)' <=> Adds(v, p, i)
BY DEF SameLocals, Holds, Busy, Locks, Pending, Uncounts, Counts, Bears, Moves, Drops,
       Spares, Adds, Slot, Hole, Dir

\* What a handler works on, the kernel has locked for it.
LEMMA InHand ==
  ASSUME NEW v \in Workers, WorkerOK(v)
  PROVE  /\ at[v] \in {"SetCount", "SetEntry", "SetHeader", "GetCount", "SetLess", "SetSlot",
                       "GetTenant", "SetTenant", "DelLast", "DelHeader", "DelKeys"}
              => Dir(v) \in Holds(v)
         /\ at[v] \in {"GetCount", "SetLess", "SetSlot", "GetTenant", "SetTenant", "DelLast",
                       "DelHeader", "DelKeys", "SetBucket", "SetNum", "SetAttr", "MoveAttr",
                       "DelAttr"}
              => job[v].p \in Holds(v)
<1>1. CASE at[v] \in {"SetCount", "SetEntry", "SetHeader"}
  BY <1>1 DEF WorkerOK, MakerOK, Holds, Busy, Locks, Dir
<1>2. CASE at[v] \in {"GetCount", "SetLess", "SetSlot", "GetTenant", "SetTenant", "DelLast",
                      "DelHeader"}
  BY <1>2 DEF WorkerOK, RemoverOK, Holds, Busy, Locks, Dir
<1>3. CASE at[v] = "DelKeys"
  BY <1>3 DEF WorkerOK, DeleterOK, Holds, Busy, Locks, Dir
<1>4. CASE at[v] = "SetBucket"
  BY <1>4 DEF WorkerOK, WriterOK, Holds, Busy, Locks, Dir
<1>5. CASE at[v] \in {"SetNum", "SetAttr", "MoveAttr", "DelAttr"}
  BY <1>5 DEF WorkerOK, AttrWriterOK, Holds, Busy, Locks, Dir
<1> QED
  BY <1>1, <1>2, <1>3, <1>4, <1>5

\* Of what w holds, no other handler has left anything to be done.
LEMMA MineAlone ==
  ASSUME HoldersApart, WorkersOK, NEW w \in Workers, NEW v \in Workers, v # w
  PROVE  /\ \A k : k[1] \in Holds(w) =>
              ~Uncounts(v, k) /\ ~Counts(v, k) /\ ~Bears(v, k) /\ ~Moves(v, k) /\ ~Spares(v, k)
         /\ \A p \in Holds(w) : ~Drops(v, p) /\ \A i : ~Adds(v, p, i)
         /\ \A p : Parent(p) \in Holds(w) => ~Drops(v, p)
<1>1. Holds(v) \cap Holds(w) = {} /\ WorkerOK(v)
  BY DEF HoldersApart, WorkersOK
<1>2. Slot(v)[1] = Dir(v) /\ Hole(v)[1] = Dir(v)
  BY DEF Slot, Hole
<1>3. \A p : Drops(v, p) => p \in Holds(v) /\ Parent(p) \in Holds(v)
  BY <1>1, InHand DEF Drops, Dir
<1>4. \A p, i : Adds(v, p, i) => p \in Holds(v)
  BY <1>1, InHand DEF Adds
<1>5. \A k : Uncounts(v, k) \/ Counts(v, k) \/ Bears(v, k) \/ Moves(v, k) => k[1] \in Holds(v)
  BY <1>1, <1>2, InHand DEF Uncounts, Counts, Bears, Moves
<1>6. \A k : Spares(v, k) => k[1] \in Holds(v)
  BY <1>1, InHand DEF Spares
<1> QED
  BY <1>1, <1>3, <1>4, <1>5, <1>6

\* What a step of w may change: headers and keys of what it holds, and of the
\* children of what it holds their existence and their place.
Footprint(w) ==
  /\ \A x \in DOMAIN hdr : x \notin DOMAIN hdr' => x # Root /\ x \in Holds(w) /\ Parent(x) \in Holds(w)
  /\ \A x \in DOMAIN hdr' : x \notin DOMAIN hdr => x # Root /\ Parent(x) \in Holds(w)
  /\ \A x \in DOMAIN hdr : x \in DOMAIN hdr' =>
       /\ hdr'[x].is_dir = hdr[x].is_dir
       /\ x \notin Holds(w) => /\ hdr'[x].num_buckets = hdr[x].num_buckets
                               /\ hdr'[x].xattr_num = hdr[x].xattr_num
       /\ x = Root \/ Parent(x) \notin Holds(w) => hdr'[x].parent_index = hdr[x].parent_index
       /\ \A v \in Workers : v # w /\ x \in Pending(v) => hdr'[x] = hdr[x]
  /\ \A k : k[1] \notin Holds(w) =>
       /\ k \in DOMAIN child' <=> k \in DOMAIN child
       /\ k \in DOMAIN child => child'[k] = child[k]
       /\ k \in data' <=> k \in data
       /\ k \in DOMAIN xattr' <=> k \in DOMAIN xattr
       /\ k \in DOMAIN xattr => xattr'[k] = xattr[k]

LEMMA SameHeader ==
  ASSUME NEW g \in Header, NEW h \in Header,
         g.is_dir = h.is_dir, g.num_buckets = h.num_buckets,
         g.parent_index = h.parent_index, g.xattr_num = h.xattr_num
  PROVE  g = h
BY DEF Header

\* A step that keeps to its footprint disturbs no other handler.
LEMMA OthersKeep ==
  ASSUME HoldersApart, TreeOK, WorkersOK, NEW w \in Workers, NEW v \in Workers, v # w,
         Footprint(w), SameLocals(v), IsStore(hdr', Paths, Header)
  PROVE  WorkerOK(v)'
<1>0. PICK p, d, t : p = job[v].p /\ d = Dir(v) /\ t = mem[v].who
  OBVIOUS
<1>1. /\ WorkerOK(v) /\ Holds(v) \cap Holds(w) = {}
      /\ at'[v] = at[v] /\ job'[v] = job[v] /\ copy'[v] = copy[v] /\ mem'[v] = mem[v]
      /\ Dir(v)' = Dir(v) /\ Slot(v)' = Slot(v) /\ Hole(v)' = Hole(v)
  BY DEF HoldersApart, WorkersOK, SameLocals, Dir, Slot, Hole
<1>2. \A x \in DOMAIN hdr : hdr[x] \in Header
  BY DEF TreeOK, StoresOK, IsStore
<1>3. \A x \in DOMAIN hdr' : hdr'[x] \in Header
  BY DEF IsStore
\* A header the handler holds.
<1>4. ASSUME NEW x \in Holds(v), Exists(x)
      PROVE  /\ Exists(x)' /\ hdr'[x].is_dir = hdr[x].is_dir
             /\ hdr'[x].num_buckets = hdr[x].num_buckets
             /\ hdr'[x].xattr_num = hdr[x].xattr_num
             /\ x \in Pending(v) => hdr'[x] = hdr[x]
  BY <1>1, <1>4 DEF Footprint, Exists
\* A child of a directory it holds.
<1>5. ASSUME NEW x, x # Root, Exists(x), Parent(x) \in Holds(v)
      PROVE  Exists(x)' /\ SlotOf(x)' = SlotOf(x) /\ (x \in Pending(v) => hdr'[x] = hdr[x])
  BY <1>1, <1>5 DEF Footprint, Exists, SlotOf
<1>6. ASSUME NEW x, ~Exists(x), Parent(x) \in Holds(v)
      PROVE  ~Exists(x)'
  BY <1>1, <1>6 DEF Footprint, Exists
<1>7. \A k : k[1] \in Holds(v) =>
        /\ k \in DOMAIN child' <=> k \in DOMAIN child
        /\ k \in DOMAIN child => child'[k] = child[k]
        /\ k \in data' <=> k \in data
        /\ k \in DOMAIN xattr' <=> k \in DOMAIN xattr
        /\ k \in DOMAIN xattr => xattr'[k] = xattr[k]
  BY <1>1 DEF Footprint
<1>8. Slot(v)[1] = d /\ Hole(v)[1] = d
  BY <1>0 DEF Slot, Hole
<1>9. CASE at[v] \in {"SetCount", "SetEntry", "SetHeader"}
  <2>1. MakerOK(v) /\ d \in Holds(v)
    BY <1>0, <1>1, <1>9, InHand DEF WorkerOK
  <2>2. ~Exists(p)' /\ IsDir(d)' /\ hdr'[d].num_buckets = hdr[d].num_buckets
    BY <1>0, <1>4, <1>6, <2>1 DEF MakerOK, IsDir, Dir
  <2>3. at[v] = "SetCount" => copy[v] = hdr'[d]
    BY <1>0, <1>4, <2>1 DEF MakerOK, IsDir, Pending, Dir
  <2>4. MakerOK(v)'
    BY <1>0, <1>1, <1>7, <1>8, <2>1, <2>2, <2>3 DEF MakerOK
  <2> QED
    BY <1>0, <1>1, <1>9, <2>4 DEF WorkerOK
<1>10. CASE at[v] \in {"GetCount", "SetLess", "SetSlot", "GetTenant", "SetTenant", "DelLast",
                       "DelHeader"}
  <2>1. RemoverOK(v) /\ d \in Holds(v) /\ p \in Holds(v) /\ Parent(p) = d
    BY <1>0, <1>1, <1>10, InHand DEF WorkerOK, Dir
  <2>2. Exists(p)' /\ IsDir(d)' /\ hdr'[d].num_buckets = hdr[d].num_buckets /\ hdr'[p] = hdr[p]
    <3>1. Exists(p)' /\ SlotOf(p)' = SlotOf(p)
      BY <1>0, <1>5, <2>1 DEF RemoverOK
    <3>2. IsDir(d)' /\ hdr'[d].num_buckets = hdr[d].num_buckets
      BY <1>0, <1>4, <2>1 DEF RemoverOK, IsDir
    <3>3. hdr'[p] = hdr[p]
      BY <1>0, <1>2, <1>3, <1>4, <2>1, <3>1, SameHeader DEF RemoverOK, SlotOf, Exists
    <3> QED
      BY <3>1, <3>2, <3>3
  <2>3. at[v] = "SetLess" => copy[v] = hdr'[d]
    BY <1>0, <1>4, <2>1 DEF RemoverOK, IsDir, Pending, Dir
  <2>4. ASSUME at[v] \in {"GetTenant", "SetTenant", "DelLast"}
        PROVE  t # Root /\ Exists(t) /\ Parent(t) = d
    BY <1>0, <2>1, <2>4, <1>8 DEF RemoverOK, TreeOK, ChildrenOK
  <2>5. ASSUME at[v] \in {"GetTenant", "SetTenant", "DelLast"}
        PROVE  Exists(t)' /\ SlotOf(t)' = SlotOf(t)
    BY <1>0, <1>5, <2>1, <2>4, <2>5
  <2>6. at[v] = "SetTenant" => copy[v] = hdr'[t]
    BY <1>0, <1>5, <2>1, <2>4 DEF RemoverOK, Pending
  <2>7. ASSUME at[v] = "DelHeader", NEW k \in DOMAIN child', k[1] = d
        PROVE  child'[k] # p
    BY <1>0, <1>7, <2>1, <2>7 DEF RemoverOK
  <2>8. at[v] \in {"SetSlot", "GetTenant", "SetTenant", "DelLast"} => Slot(v) \in DOMAIN child'
    BY <1>0, <1>7, <1>8, <2>1 DEF RemoverOK
  <2>9. at[v] \in {"GetTenant", "SetTenant", "DelLast"} =>
          Hole(v) \in DOMAIN child' /\ child'[Slot(v)] = t /\ child'[Hole(v)] = t
    BY <1>0, <1>7, <1>8, <2>1 DEF RemoverOK
  <2>10. RemoverOK(v)'
    BY <1>0, <1>1, <2>1, <2>2, <2>3, <2>5, <2>6, <2>7, <2>8, <2>9 DEF RemoverOK
  <2> QED
    BY <1>0, <1>1, <1>10, <2>10 DEF WorkerOK
<1>11. CASE at[v] = "DelKeys"
  <2>1. DeleterOK(v) /\ Parent(p) \in Holds(v)
    BY <1>0, <1>1, <1>11, InHand DEF WorkerOK, Dir
  <2>2. DeleterOK(v)'
    BY <1>0, <1>1, <1>6, <2>1 DEF DeleterOK
  <2> QED
    BY <1>0, <1>1, <1>11, <2>2 DEF WorkerOK
<1>12. CASE at[v] = "SetBucket"
  <2>1. WriterOK(v) /\ p \in Holds(v) /\ p \in Pending(v)
    BY <1>0, <1>1, <1>12, InHand DEF WorkerOK, Pending
  <2>2. IsFile(p)' /\ hdr'[p] = hdr[p]
    BY <1>0, <1>4, <2>1 DEF WriterOK, IsFile
  <2>3. \A i : <<p, i>> \in data' <=> <<p, i>> \in data
    BY <1>0, <1>7, <2>1
  <2>4. WriterOK(v)'
    BY <1>0, <1>1, <2>1, <2>2, <2>3 DEF WriterOK
  <2> QED
    BY <1>0, <1>1, <1>12, <2>4 DEF WorkerOK
<1>13. CASE at[v] \in {"SetNum", "SetAttr", "MoveAttr", "DelAttr"}
  <2>1. AttrWriterOK(v) /\ p \in Holds(v)
    BY <1>0, <1>1, <1>13, InHand DEF WorkerOK
  <2>2. /\ Exists(p)' /\ hdr'[p].xattr_num = hdr[p].xattr_num
        /\ hdr'[p].is_dir = hdr[p].is_dir /\ (at[v] = "SetNum" => hdr'[p] = hdr[p])
    BY <1>0, <1>4, <2>1 DEF AttrWriterOK, Pending
  <2>3. \A i : AttrThere(p, i) => AttrThere(p, i)'
    <3> SUFFICES ASSUME NEW i, AttrThere(p, i) PROVE AttrThere(p, i)'
      OBVIOUS
    <3>1. <<p, i>>[1] \in Holds(v)
      BY <2>1
    <3> QED
      BY <1>0, <1>1, <1>7, <3>1 DEF AttrThere
  <2>4. IsFile(p)' => IsFile(p)
    BY <1>0, <2>1, <2>2 DEF IsFile, AttrWriterOK
  <2>5. AttrWriterOK(v)'
    BY <1>0, <1>1, <2>1, <2>2, <2>3, <2>4 DEF AttrWriterOK
  <2> QED
    BY <1>0, <1>1, <1>13, <2>5 DEF WorkerOK
<1>14. CASE at[v] = "idle"
  BY <1>0, <1>1, <1>14 DEF WorkerOK
<1> QED
  BY <1>0, <1>1, <1>9, <1>10, <1>11, <1>12, <1>13, <1>14 DEF WorkerOK

------------------------------------------------------------------------------
(* The parts of the invariant that a step of w has nothing to do with.      *)

Others(w) == \A v \in Workers : v # w => SameLocals(v)

SameTree ==
  DOMAIN hdr' = DOMAIN hdr /\ \A x \in DOMAIN hdr : hdr'[x].is_dir = hdr[x].is_dir

LEMMA CountsKept ==
  ASSUME CountsOK, NEW w \in Workers, Others(w), SameTree, DOMAIN child' = DOMAIN child,
         \A x \in DOMAIN hdr : hdr[x].is_dir = 1 => hdr'[x].num_buckets = hdr[x].num_buckets,
         \A k : (Uncounts(w, k) => Uncounts(w, k)') /\ (Counts(w, k) => Counts(w, k)')
  PROVE  CountsOK'
<1>1. \A v \in Workers : \A k : (Uncounts(v, k) => Uncounts(v, k)') /\ (Counts(v, k) => Counts(v, k)')
  BY SameNotes DEF Others
<1>2. \A x : IsDir(x)' <=> IsDir(x)
  BY DEF SameTree, IsDir, Exists
<1>3. ASSUME NEW k \in DOMAIN child'
      PROVE  IsDir(k[1])' /\ (k[2] <= hdr'[k[1]].num_buckets \/ \E v \in Workers : Uncounts(v, k)')
  BY <1>1, <1>2 DEF CountsOK, IsDir, Exists
<1>4. ASSUME NEW d \in DOMAIN hdr', IsDir(d)', NEW i \in 1 .. hdr'[d].num_buckets
      PROVE  <<d, i>> \in DOMAIN child' \/ \E v \in Workers : Counts(v, <<d, i>>)'
  BY <1>1, <1>2, <1>4 DEF CountsOK, IsDir, Exists
<1> QED
  BY <1>3, <1>4 DEF CountsOK

LEMMA ChildrenKept ==
  ASSUME ChildrenOK, NEW w \in Workers, Others(w), SameTree, child' = child,
         \A x \in DOMAIN hdr : hdr'[x].parent_index = hdr[x].parent_index,
         \A k : (Moves(w, k) => Moves(w, k)') /\ (Bears(w, k) => Bears(w, k)')
  PROVE  ChildrenOK'
<1>1. \A v \in Workers : \A k : (Moves(v, k) => Moves(v, k)') /\ (Bears(v, k) => Bears(v, k)')
  BY SameNotes DEF Others
<1> QED
  BY <1>1 DEF ChildrenOK, SameTree, Exists, SlotOf

LEMMA PathsKept ==
  ASSUME PathsOK, NEW w \in Workers, Others(w), SameTree, child' = child,
         \A x \in DOMAIN hdr : hdr'[x].parent_index = hdr[x].parent_index,
         \A p : Drops(w, p) => Drops(w, p)'
  PROVE  PathsOK'
<1>1. \A v \in Workers : \A p : Drops(v, p) => Drops(v, p)'
  BY SameNotes DEF Others
<1> QED
  BY <1>1 DEF PathsOK, SameTree, IsDir, Exists, SlotOf

LEMMA BucketsKept ==
  ASSUME BucketsOK, NEW w \in Workers, Others(w), SameTree, data' = data,
         \A x \in DOMAIN hdr : hdr[x].is_dir = 0 => hdr'[x].num_buckets = hdr[x].num_buckets,
         \A k \in data : Spares(w, k) => Spares(w, k)'
  PROVE  BucketsOK'
<1>1. \A v \in Workers, k \in data : Spares(v, k) => Spares(v, k)'
  BY SameNotes DEF Others
<1>2. \A x : IsFile(x)' <=> IsFile(x)
  BY DEF SameTree, IsFile, Exists
<1>3. \A x : IsFile(x) => hdr'[x].num_buckets = hdr[x].num_buckets
  BY DEF IsFile, Exists
<1> QED
  BY <1>1, <1>2, <1>3 DEF BucketsOK, DataKeysOf, SameTree

LEMMA AttrsSame ==
  ASSUME AttrsOK, NEW w \in Workers, Others(w), SameTree, xattr' = xattr,
         \A x \in DOMAIN hdr : hdr[x].is_dir = 0 => hdr'[x].xattr_num = hdr[x].xattr_num,
         \A p, i : Adds(w, p, i) => Adds(w, p, i)'
  PROVE  AttrsOK'
<1>1. \A v \in Workers : \A p, i : Adds(v, p, i) => Adds(v, p, i)'
  BY SameNotes DEF Others
<1>2. \A x : IsFile(x)' => IsFile(x) /\ hdr'[x].xattr_num = hdr[x].xattr_num
  BY DEF SameTree, IsFile, Exists
<1>3. \A p, i : AttrThere(p, i)' <=> AttrThere(p, i)
  BY DEF AttrThere
<1> QED
  BY <1>1, <1>2, <1>3 DEF AttrsOK, SameTree

\* What is to be shown of a step of w.
LEMMA StepKeeps ==
  ASSUME HoldersApart, TreeOK, WorkersOK, NEW w \in Workers, Others(w),
         TreeOK', LocalsOK', WorkerOK(w)', Footprint(w)
  PROVE  TreeOK' /\ WorkersOK'
<1>1. IsStore(hdr', Paths, Header)
  BY DEF TreeOK, StoresOK
<1>2. \A v \in Workers : v # w => WorkerOK(v)'
  BY <1>1, OthersKeep DEF Others
<1> QED
  BY <1>2 DEF WorkersOK

\* A handler changes none but its own locals.
LEMMA LocalsKept ==
  ASSUME LocalsOK, NEW w \in Workers, copy'[w] \in Header, mem'[w].own \in Header,
         mem'[w].i \in Int,
         mem'[w] = [own |-> mem'[w].own, i |-> mem'[w].i, who |-> mem'[w].who],
         copy' = [v \in Workers |-> copy'[v]], mem' = [v \in Workers |-> mem'[v]],
         \A v \in Workers : v # w => copy'[v] = copy[v] /\ mem'[v] = mem[v]
  PROVE  LocalsOK'
<1>1. \A v \in Workers :
        /\ copy'[v] \in Header /\ mem'[v].own \in Header /\ mem'[v].i \in Int
        /\ mem'[v] = [own |-> mem'[v].own, i |-> mem'[v].i, who |-> mem'[v].who]
  BY DEF LocalsOK
<1> QED
  BY <1>1 DEF LocalsOK

LEMMA MemForm ==
  ASSUME LocalsOK, NEW w \in Workers
  PROVE  \E a, b, c : a \in Header /\ b \in Int /\ mem[w] = [own |-> a, i |-> b, who |-> c]
BY DEF LocalsOK

LEMMA PutCopy ==
  ASSUME LocalsOK, NEW w \in Workers, NEW c \in Header, copy' = [copy EXCEPT ![w] = c], mem' = mem
  PROVE  /\ LocalsOK' /\ copy'[w] = c /\ mem'[w] = mem[w]
         /\ \A v \in Workers : v # w => copy'[v] = copy[v] /\ mem'[v] = mem[v]
<1>1. /\ copy'[w] = c /\ copy' = [v \in Workers |-> copy'[v]] /\ mem' = [v \in Workers |-> mem'[v]]
      /\ \A v \in Workers : v # w => copy'[v] = copy[v]
  BY DEF LocalsOK
<1>2. /\ mem'[w] = [own |-> mem'[w].own, i |-> mem'[w].i, who |-> mem'[w].who]
      /\ mem'[w].own \in Header /\ mem'[w].i \in Int
  BY DEF LocalsOK
<1> QED
  BY <1>1, <1>2, LocalsKept

LEMMA PutOwn ==
  ASSUME LocalsOK, NEW w \in Workers, NEW h \in Header, copy' = copy,
         mem' = [mem EXCEPT ![w].own = h]
  PROVE  /\ LocalsOK' /\ copy'[w] = copy[w]
         /\ mem'[w].own = h /\ mem'[w].i = mem[w].i /\ mem'[w].who = mem[w].who
         /\ \A v \in Workers : v # w => copy'[v] = copy[v] /\ mem'[v] = mem[v]
<1>1. /\ mem'[w] = [mem[w] EXCEPT !.own = h] /\ mem' = [v \in Workers |-> mem'[v]]
      /\ copy' = [v \in Workers |-> copy'[v]] /\ copy'[w] \in Header
      /\ \A v \in Workers : v # w => copy'[v] = copy[v] /\ mem'[v] = mem[v]
  BY DEF LocalsOK
<1>2. PICK a, b, c : a \in Header /\ b \in Int /\ mem[w] = [own |-> a, i |-> b, who |-> c]
  BY MemForm
<1>3. mem'[w] = [own |-> h, i |-> b, who |-> c]
  BY <1>1, <1>2
<1> QED
  BY <1>1, <1>2, <1>3, LocalsKept

LEMMA PutI ==
  ASSUME LocalsOK, NEW w \in Workers, NEW c \in Header, NEW i \in Int,
         copy' = [copy EXCEPT ![w] = c], mem' = [mem EXCEPT ![w].i = i]
  PROVE  /\ LocalsOK' /\ copy'[w] = c
         /\ mem'[w].own = mem[w].own /\ mem'[w].i = i /\ mem'[w].who = mem[w].who
         /\ \A v \in Workers : v # w => copy'[v] = copy[v] /\ mem'[v] = mem[v]
<1>1. /\ mem'[w] = [mem[w] EXCEPT !.i = i] /\ mem' = [v \in Workers |-> mem'[v]]
      /\ copy' = [v \in Workers |-> copy'[v]] /\ copy'[w] = c
      /\ \A v \in Workers : v # w => copy'[v] = copy[v] /\ mem'[v] = mem[v]
  BY DEF LocalsOK
<1>2. PICK a, b, x : a \in Header /\ b \in Int /\ mem[w] = [own |-> a, i |-> b, who |-> x]
  BY MemForm
<1>3. mem'[w] = [own |-> a, i |-> i, who |-> x]
  BY <1>1, <1>2
<1> QED
  BY <1>1, <1>2, <1>3, LocalsKept, ZenonT(60)

LEMMA PutWho ==
  ASSUME LocalsOK, NEW w \in Workers, NEW c \in Header, NEW x,
         copy' = [copy EXCEPT ![w] = c], mem' = [mem EXCEPT ![w].who = x]
  PROVE  /\ LocalsOK' /\ copy'[w] = c
         /\ mem'[w].own = mem[w].own /\ mem'[w].i = mem[w].i /\ mem'[w].who = x
         /\ \A v \in Workers : v # w => copy'[v] = copy[v] /\ mem'[v] = mem[v]
<1>1. /\ mem'[w] = [mem[w] EXCEPT !.who = x] /\ mem' = [v \in Workers |-> mem'[v]]
      /\ copy' = [v \in Workers |-> copy'[v]] /\ copy'[w] = c
      /\ \A v \in Workers : v # w => copy'[v] = copy[v] /\ mem'[v] = mem[v]
  BY DEF LocalsOK
<1>2. PICK a, b, y : a \in Header /\ b \in Int /\ mem[w] = [own |-> a, i |-> b, who |-> y]
  BY MemForm
<1>3. mem'[w] = [own |-> a, i |-> b, who |-> x]
  BY <1>1, <1>2
<1> QED
  BY <1>1, <1>2, <1>3, LocalsKept, ZenonT(60)

LEMMA OnlyI ==
  ASSUME LocalsOK, NEW w \in Workers, NEW i \in Int, copy' = copy, mem' = [mem EXCEPT ![w].i = i]
  PROVE  /\ LocalsOK' /\ copy'[w] = copy[w]
         /\ mem'[w].own = mem[w].own /\ mem'[w].i = i /\ mem'[w].who = mem[w].who
         /\ \A v \in Workers : v # w => copy'[v] = copy[v] /\ mem'[v] = mem[v]
<1>1. PICK c \in Header : c = copy[w]
  BY DEF LocalsOK
<1>2. copy' = [copy EXCEPT ![w] = c]
  BY <1>1 DEF LocalsOK
<1> QED
  BY <1>1, <1>2, PutI

LEMMA OnlyWho ==
  ASSUME LocalsOK, NEW w \in Workers, NEW x, copy' = copy, mem' = [mem EXCEPT ![w].who = x]
  PROVE  /\ LocalsOK' /\ copy'[w] = copy[w]
         /\ mem'[w].own = mem[w].own /\ mem'[w].i = mem[w].i /\ mem'[w].who = x
         /\ \A v \in Workers : v # w => copy'[v] = copy[v] /\ mem'[v] = mem[v]
<1>1. PICK c \in Header : c = copy[w]
  BY DEF LocalsOK
<1>2. copy' = [copy EXCEPT ![w] = c]
  BY <1>1 DEF LocalsOK
<1> QED
  BY <1>1, <1>2, PutWho

LEMMA NoLocals ==
  ASSUME LocalsOK, copy' = copy, mem' = mem
  PROVE  LocalsOK'
BY DEF LocalsOK

\* A handler that ends leaves its locals empty.
LEMMA LocalsLeft ==
  ASSUME LocalsOK, NEW w \in Workers, copy' = [copy EXCEPT ![w] = NoHeader],
         mem' = [mem EXCEPT ![w] = NoMem]
  PROVE  /\ LocalsOK'
         /\ \A v \in Workers : v # w => copy'[v] = copy[v] /\ mem'[v] = mem[v]
<1>1. /\ copy'[w] = NoHeader /\ mem'[w] = NoMem
      /\ copy' = [v \in Workers |-> copy'[v]] /\ mem' = [v \in Workers |-> mem'[v]]
      /\ \A v \in Workers : v # w => copy'[v] = copy[v] /\ mem'[v] = mem[v]
  BY DEF LocalsOK
<1>2. NoHeader \in Header
  BY DEF NoHeader, NewFileHeader, Header
<1>3. mem'[w].own = NoHeader /\ mem'[w].i = 0 /\ mem'[w].who = Root
  BY <1>1 DEF NoMem
<1>4. mem'[w] = [own |-> mem'[w].own, i |-> mem'[w].i, who |-> mem'[w].who]
  BY <1>1 DEF NoMem
<1>5. copy'[w] \in Header /\ mem'[w].own \in Header /\ mem'[w].i \in Int
  BY <1>1, <1>2, <1>3
<1> QED
  BY <1>1, <1>4, <1>5, LocalsKept

\* A step that only looks and may promise more.
LEMMA LookKeeps ==
  ASSUME TreeOK, NEW w \in Workers, Others(w), stores' = stores, mounted' = mounted,
         \A k : /\ Uncounts(w, k) => Uncounts(w, k)'
                /\ Counts(w, k) => Counts(w, k)'
                /\ Bears(w, k) => Bears(w, k)'
                /\ Moves(w, k) => Moves(w, k)'
                /\ Drops(w, k) => Drops(w, k)',
         \A k \in data : Spares(w, k) => Spares(w, k)',
         \A p, i : Adds(w, p, i) => Adds(w, p, i)'
  PROVE  TreeOK' /\ Footprint(w)
<1>1. stats' = stats /\ hdr' = hdr /\ child' = child /\ data' = data /\ xattr' = xattr
  BY DEF stores
<1>2. SameTree
  BY <1>1 DEF SameTree
<1>3. StoresOK'
  BY <1>1 DEF TreeOK, StoresOK, IsStore, IsDir, Exists
<1>4. CountsOK'
  BY <1>1, <1>2, CountsKept DEF TreeOK
<1>5. ChildrenOK'
  BY <1>1, <1>2, ChildrenKept DEF TreeOK
<1>6. PathsOK'
  BY <1>1, <1>2, PathsKept DEF TreeOK
<1>7. BucketsOK'
  BY <1>1, <1>2, BucketsKept DEF TreeOK
<1>8. AttrsOK'
  BY <1>1, <1>2, AttrsSame DEF TreeOK
<1>9. Footprint(w)
  BY <1>1 DEF Footprint
<1> QED
  BY <1>3, <1>4, <1>5, <1>6, <1>7, <1>8, <1>9 DEF TreeOK

------------------------------------------------------------------------------
(* Handlers start.                                                          *)

\* Where a handler that starts, goes on or ends gets.
LEMMA StartShape ==
  ASSUME Shape, NEW w \in Workers, NEW op, NEW p, NEW arg, NEW next, Start(w, op, p, arg, next)
  PROVE  /\ at[w] = "idle" /\ at'[w] = next /\ stores' = stores /\ mounted' = mounted
         /\ job'[w].op = op /\ job'[w].p = p
         /\ \A v \in Workers : v # w => at'[v] = at[v] /\ job'[v] = job[v]
BY DEF Shape, Start, Busy

LEMMA StartLooks ==
  ASSUME LockInv, TreeOK, WorkersOK, NEW w \in Workers, NEW op, NEW p, NEW arg, NEW next,
         Start(w, op, p, arg, next), LocalsOK', WorkerOK(w)',
         \A v \in Workers : v # w => copy'[v] = copy[v] /\ mem'[v] = mem[v]
  PROVE  TreeOK' /\ WorkersOK'
<1>1. at[w] = "idle" /\ stores' = stores /\ mounted' = mounted /\ Others(w)
  BY StartShape DEF LockInv, Others, SameLocals
<1>2. TreeOK' /\ Footprint(w)
  BY <1>1, LookKeeps DEF Uncounts, Counts, Bears, Moves, Drops, Spares, Adds
<1> QED
  BY <1>1, <1>2, StepKeeps DEF LockInv

LEMMA HeaderIs ==
  ASSUME TreeOK, NEW p, Exists(p)
  PROVE  /\ hdr[p] \in Header /\ p \in Paths
         /\ hdr[p].is_dir \in {0, 1} /\ hdr[p].num_buckets \in Nat
         /\ hdr[p].parent_index \in Nat /\ hdr[p].xattr_num \in Int
BY DEF TreeOK, StoresOK, IsStore, Exists, Header

LEMMA MakeStartKeeps ==
  ASSUME LockInv, TreeOK, WorkersOK, NEW w \in Workers, NEW p \in Paths,
         NEW op \in {"mkdir", "create"}, MakeStart(w, op, p)
  PROVE  TreeOK' /\ WorkersOK'
<1>0. Start(w, op, p, p, "SetCount")
  BY DEF MakeStart
<1>1. /\ Absent(p)
      /\ copy' = [copy EXCEPT ![w] = hdr[Parent(p)]] /\ mem' = mem
  BY DEF MakeStart
<1>2. at'[w] = "SetCount" /\ job'[w].op = op /\ job'[w].p = p /\ stores' = stores
  BY <1>0, StartShape DEF LockInv
<1>3. /\ LocalsOK' /\ copy'[w] = hdr[Parent(p)]
      /\ \A v \in Workers : v # w => copy'[v] = copy[v] /\ mem'[v] = mem[v]
  BY <1>1, PutCopy, HeaderIs DEF WorkersOK, Absent, IsDir
<1>4. MakerOK(w)'
  BY <1>1, <1>2, <1>3 DEF MakerOK, Absent, IsDir, Exists, Dir, stores
<1>5. WorkerOK(w)'
  BY <1>2, <1>4 DEF WorkerOK
<1> QED
  BY <1>0, <1>3, <1>5, StartLooks

LEMMA RemoveStartKeeps ==
  ASSUME LockInv, TreeOK, WorkersOK, NEW w \in Workers, NEW p \in Paths,
         NEW op \in {"rmdir", "unlink"}, RemoveStart(w, op, p)
  PROVE  TreeOK' /\ WorkersOK'
<1>1. /\ p # Root /\ Start(w, op, p, p, "GetCount") /\ Exists(p)
      /\ op = "rmdir" => hdr[p].is_dir = 1 /\ hdr[p].num_buckets <= 0
      /\ op = "unlink" => hdr[p].is_dir = 0
      /\ copy' = copy /\ mem' = [mem EXCEPT ![w].own = hdr[p]]
  BY DEF RemoveStart, IsDir, IsFile
<1>2. /\ at'[w] = "GetCount" /\ job'[w].op = op /\ job'[w].p = p /\ hdr' = hdr
  BY <1>1, StartShape DEF LockInv, stores
<1>3. /\ LocalsOK' /\ mem'[w].own = hdr[p]
      /\ \A v \in Workers : v # w => copy'[v] = copy[v] /\ mem'[v] = mem[v]
  BY <1>1, PutOwn, HeaderIs DEF WorkersOK
<1>4. IsDir(Parent(p))
  BY <1>1 DEF TreeOK, PathsOK, Exists
<1>5. RemoverOK(w)'
  BY <1>1, <1>2, <1>3, <1>4 DEF RemoverOK, IsDir, Exists, Dir
<1>6. WorkerOK(w)'
  BY <1>2, <1>5 DEF WorkerOK
<1> QED
  BY <1>1, <1>3, <1>6, StartLooks

LEMMA WriteStartKeeps ==
  ASSUME LockInv, TreeOK, WorkersOK, NEW w \in Workers, NEW p \in Paths,
         NEW n \in 0 .. MaxBuckets, WriteStart(w, p, n)
  PROVE  TreeOK' /\ WorkersOK'
<1>1. /\ IsFile(p) /\ Start(w, "write", p, p, "SetBucket")
      /\ copy' = [copy EXCEPT ![w] = hdr[p]] /\ mem' = [mem EXCEPT ![w].i = n]
  BY DEF WriteStart
<1>2. /\ at'[w] = "SetBucket" /\ job'[w].op = "write" /\ job'[w].p = p
      /\ hdr' = hdr /\ data' = data
  BY <1>1, StartShape DEF LockInv, stores
<1>3. n \in Nat /\ n \in Int
  BY CacheFSAssumption
<1>4. /\ hdr[p] = [hdr[p] EXCEPT !.num_buckets = hdr[p].num_buckets] /\ hdr[p].num_buckets \in Nat
      /\ hdr[p] \in Header
  BY <1>1, HeaderIs DEF IsFile, Header
<1>5. /\ LocalsOK' /\ copy'[w] = hdr[p] /\ mem'[w].i = n
      /\ \A v \in Workers : v # w => copy'[v] = copy[v] /\ mem'[v] = mem[v]
  <2> DEFINE h == hdr[p]
  <2>1. /\ LocalsOK /\ h \in Header
        /\ copy' = [copy EXCEPT ![w] = h] /\ mem' = [mem EXCEPT ![w].i = n]
    BY <1>1, <1>4 DEF WorkersOK
  <2> HIDE DEF h
  <2>2. /\ LocalsOK' /\ copy'[w] = h /\ mem'[w].i = n
        /\ \A v \in Workers : v # w => copy'[v] = copy[v] /\ mem'[v] = mem[v]
    BY <1>3, <2>1, PutI, ZenonT(60)
  <2> QED
    BY <2>2 DEF h
<1>6. WriterOK(w)'
  BY <1>1, <1>2, <1>3, <1>4, <1>5 DEF WriterOK, IsFile, Exists
<1>7. WorkerOK(w)'
  BY <1>2, <1>6 DEF WorkerOK
<1> QED
  BY <1>1, <1>5, <1>7, StartLooks

LEMMA SetxattrStartKeeps ==
  ASSUME LockInv, TreeOK, WorkersOK, NEW w \in Workers, NEW p \in Paths,
         NEW n \in AttrNames, NEW v \in AttrVals, SetxattrStart(w, p, n, v)
  PROVE  TreeOK' /\ WorkersOK'
<1> DEFINE h == [hdr[p] EXCEPT !.xattr_num = hdr[p].xattr_num + 1]
<1>1. /\ Exists(p) /\ Start(w, "setxattr", p, <<p, n>>, "SetNum")
      /\ copy' = [copy EXCEPT ![w] = h] /\ mem' = [mem EXCEPT ![w].who = <<n, v>>]
  BY DEF SetxattrStart
<1>2. /\ at'[w] = "SetNum" /\ job'[w].op = "setxattr" /\ job'[w].p = p /\ hdr' = hdr
  BY <1>1, StartShape DEF LockInv, stores
<1>3. h \in Header /\ h.xattr_num = hdr[p].xattr_num + 1 /\ hdr[p].xattr_num \in Int
  BY <1>1, HeaderIs DEF Header
<1>4. h = [hdr[p] EXCEPT !.xattr_num = h.xattr_num]
  BY <1>3
<1> HIDE DEF h
<1>5. /\ LocalsOK' /\ copy'[w] = h /\ mem'[w].who = <<n, v>>
      /\ \A u \in Workers : u # w => copy'[u] = copy[u] /\ mem'[u] = mem[u]
  BY <1>1, <1>3, PutWho, ZenonT(60) DEF WorkersOK
<1>6. /\ copy'[w].xattr_num = hdr[p].xattr_num + 1
      /\ copy'[w] = [hdr[p] EXCEPT !.xattr_num = copy'[w].xattr_num]
  BY <1>3, <1>4, <1>5
<1>7. AttrWriterOK(w)'
  BY <1>1, <1>2, <1>3, <1>5, <1>6 DEF AttrWriterOK, Exists
<1>8. WorkerOK(w)'
  BY <1>2, <1>7 DEF WorkerOK
<1> QED
  BY <1>1, <1>5, <1>8, StartLooks

LEMMA RemovexattrStartKeeps ==
  ASSUME LockInv, TreeOK, WorkersOK, NEW w \in Workers, NEW p \in Paths,
         NEW n \in AttrNames, RemovexattrStart(w, p, n)
  PROVE  TreeOK' /\ WorkersOK'
<1> DEFINE h == [hdr[p] EXCEPT !.xattr_num = hdr[p].xattr_num - 1]
<1>1. PICK i \in 1 .. hdr[p].xattr_num :
        /\ Exists(p) /\ Start(w, "removexattr", p, <<p, n>>, "SetNum")
        /\ copy' = [copy EXCEPT ![w] = h] /\ mem' = [mem EXCEPT ![w].i = i]
  BY DEF RemovexattrStart, Stops
<1>2. /\ at'[w] = "SetNum" /\ job'[w].op = "removexattr" /\ job'[w].p = p /\ hdr' = hdr
  BY <1>1, StartShape DEF LockInv, stores
<1>3. /\ h \in Header /\ h.xattr_num = hdr[p].xattr_num - 1 /\ hdr[p].xattr_num \in Int
      /\ i \in Int
  BY <1>1, HeaderIs DEF Header
<1>4. h = [hdr[p] EXCEPT !.xattr_num = h.xattr_num]
  BY <1>3
<1> HIDE DEF h
<1>5. /\ LocalsOK' /\ copy'[w] = h /\ mem'[w].i = i
      /\ \A u \in Workers : u # w => copy'[u] = copy[u] /\ mem'[u] = mem[u]
  BY <1>1, <1>3, PutI, ZenonT(60) DEF WorkersOK
<1>6. /\ copy'[w].xattr_num + 1 = hdr[p].xattr_num
      /\ copy'[w] = [hdr[p] EXCEPT !.xattr_num = copy'[w].xattr_num]
  BY <1>3, <1>4, <1>5
<1>7. AttrWriterOK(w)'
  BY <1>1, <1>2, <1>3, <1>5, <1>6 DEF AttrWriterOK, Exists
<1>8. WorkerOK(w)'
  BY <1>2, <1>7 DEF WorkerOK
<1> QED
  BY <1>1, <1>5, <1>8, StartLooks

------------------------------------------------------------------------------
(* Headers written back.                                                    *)

LEMMA GoesShape ==
  ASSUME Shape, NEW w \in Workers, NEW next, Goes(w, next)
  PROVE  /\ at'[w] = next /\ job' = job /\ mounted' = mounted
         /\ \A v \in Workers : v # w => at'[v] = at[v]
BY DEF Shape, Goes

LEMMA PutShape ==
  ASSUME TreeOK, NEW w \in Workers, NEW x, Exists(x), NEW h \in Header,
         h.is_dir = hdr[x].is_dir, PutHeader(w, x, h), mounted' = mounted
  PROVE  /\ SameTree /\ StoresOK' /\ hdr'[x] = h
         /\ \A y \in DOMAIN hdr : y # x => hdr'[y] = hdr[y]
         /\ child' = child /\ data' = data /\ xattr' = xattr
         /\ ~clashed' => \A v \in Workers : v # w => x \notin Pending(v)
<1>1. /\ hdr' = CacheSet(hdr, x, h) /\ stats' = stats
      /\ child' = child /\ data' = data /\ xattr' = xattr
      /\ ~clashed' => \A v \in Workers : v # w => x \notin Pending(v)
  BY DEF PutHeader
<1>2. x \in Paths /\ x \in DOMAIN hdr /\ IsStore(hdr, Paths, Header)
  BY DEF TreeOK, StoresOK, IsStore, Exists
<1>3. IsStore(hdr', Paths, Header)
  BY <1>1, <1>2, CacheSetStore
<1>4. /\ DOMAIN hdr' = DOMAIN hdr /\ hdr'[x] = h
      /\ \A y \in DOMAIN hdr : y # x => hdr'[y] = hdr[y]
  BY <1>1, <1>2 DEF CacheSet
<1>5. SameTree
  BY <1>4 DEF SameTree
<1>6. StoresOK'
  BY <1>1, <1>3, <1>5 DEF TreeOK, StoresOK, SameTree, IsDir, Exists, IsStore
<1> QED
  BY <1>1, <1>4, <1>5, <1>6

LEMMA PutFootprint ==
  ASSUME SameTree, NEW w \in Workers, NEW x \in DOMAIN hdr,
         \A y \in DOMAIN hdr : y # x => hdr'[y] = hdr[y],
         child' = child, data' = data, xattr' = xattr,
         \A v \in Workers : v # w => x \notin Pending(v),
         \/ x \in Holds(w)
         \/ hdr'[x].num_buckets = hdr[x].num_buckets /\ hdr'[x].xattr_num = hdr[x].xattr_num,
         \/ x # Root /\ Parent(x) \in Holds(w)
         \/ hdr'[x].parent_index = hdr[x].parent_index
  PROVE  Footprint(w)
BY DEF SameTree, Footprint

LEMMA SetCountKeeps ==
  ASSUME LockInv, TreeOK, WorkersOK, NEW w \in Workers, SetCount(w), ~clashed'
  PROVE  TreeOK' /\ WorkersOK'
<1>0. PICK p, d, n, h : /\ p = job[w].p /\ d = Dir(w) /\ n = copy[w].num_buckets + 1
                        /\ h = [copy[w] EXCEPT !.num_buckets = n]
  OBVIOUS
<1>1. /\ at[w] = "SetCount" /\ PutHeader(w, d, h) /\ Goes(w, "SetEntry")
      /\ copy' = copy /\ mem' = [mem EXCEPT ![w].i = n]
  BY <1>0 DEF SetCount, Dir
<1>2. WorkerOK(w) /\ MakerOK(w) /\ d \in Holds(w)
  BY <1>0, <1>1, InHand DEF WorkersOK, WorkerOK
<1>3. Exists(d) /\ hdr[d].is_dir = 1 /\ copy[w] = hdr[d]
  BY <1>0, <1>1, <1>2 DEF MakerOK, IsDir
<1>4. /\ h \in Header /\ h.is_dir = 1 /\ h.num_buckets = n /\ n \in Nat /\ n >= 1
      /\ n = hdr[d].num_buckets + 1 /\ hdr[d].num_buckets \in Nat
      /\ h.parent_index = hdr[d].parent_index
  BY <1>0, <1>3, HeaderIs DEF Header
<1>5. /\ at'[w] = "SetEntry" /\ job' = job /\ mounted' = mounted
      /\ \A v \in Workers : v # w => at'[v] = at[v]
  BY <1>1, GoesShape DEF LockInv
<1>6. /\ SameTree /\ StoresOK' /\ hdr'[d] = h
      /\ \A y \in DOMAIN hdr : y # d => hdr'[y] = hdr[y]
      /\ child' = child /\ data' = data /\ xattr' = xattr
      /\ \A v \in Workers : v # w => d \notin Pending(v)
  BY <1>1, <1>3, <1>4, <1>5, PutShape
<1>7. /\ LocalsOK' /\ copy'[w] = copy[w] /\ mem'[w].i = n
      /\ \A v \in Workers : v # w => copy'[v] = copy[v] /\ mem'[v] = mem[v]
  <2>1. LocalsOK /\ n \in Int /\ copy' = copy /\ mem' = [mem EXCEPT ![w].i = n]
    BY <1>1, <1>4 DEF WorkersOK
  <2> QED
    BY <2>1, OnlyI
<1>8. Others(w) /\ Dir(w)' = d /\ Slot(w)' = <<d, n>> /\ job'[w].p = p
  BY <1>0, <1>5, <1>7 DEF Others, SameLocals, Dir, Slot
<1>9. Footprint(w)
  BY <1>2, <1>3, <1>4, <1>6, PutFootprint DEF Exists
<1>10. /\ \A v \in Workers : \A k : /\ Uncounts(v, k) => Uncounts(v, k)'
                                    /\ Counts(v, k) => Counts(v, k)'
                                    /\ Bears(v, k) => Bears(v, k)'
                                    /\ Moves(v, k) => Moves(v, k)'
                                    /\ Drops(v, k) => Drops(v, k)'
                                    /\ Spares(v, k) => Spares(v, k)'
       /\ \A v \in Workers : \A q, i : Adds(v, q, i) => Adds(v, q, i)'
  <2>1. /\ \A k : ~Uncounts(w, k) /\ ~Counts(w, k) /\ ~Bears(w, k) /\ ~Moves(w, k) /\ ~Drops(w, k)
                  /\ ~Spares(w, k)
        /\ \A q, i : ~Adds(w, q, i)
    BY <1>1 DEF Uncounts, Counts, Bears, Moves, Drops, Spares, Adds
  <2> QED
    BY <1>8, <2>1, SameNotes DEF Others
<1>11. Counts(w, <<d, n>>)'
  BY <1>5, <1>8 DEF Counts
<1>12. CountsOK'
  <2>1. \A x : IsDir(x)' <=> IsDir(x)
    BY <1>6 DEF SameTree, IsDir, Exists
  <2>2. ASSUME NEW k \in DOMAIN child'
        PROVE  IsDir(k[1])' /\ (k[2] <= hdr'[k[1]].num_buckets \/ \E v \in Workers : Uncounts(v, k)')
    <3>1. k \in DOMAIN child /\ IsDir(k[1]) /\ k[2] \in Nat
      BY <1>6 DEF TreeOK, CountsOK, StoresOK, IsStore, Keys
    <3>2. CASE k[2] <= hdr[k[1]].num_buckets
      BY <1>4, <1>6, <2>1, <3>1, <3>2 DEF IsDir, Exists
    <3>3. CASE \E v \in Workers : Uncounts(v, k)
      BY <1>10, <2>1, <3>1, <3>3
    <3> QED
      BY <3>1, <3>2, <3>3 DEF TreeOK, CountsOK
  <2>3. ASSUME NEW x \in DOMAIN hdr', IsDir(x)', NEW i \in 1 .. hdr'[x].num_buckets
        PROVE  <<x, i>> \in DOMAIN child' \/ \E v \in Workers : Counts(v, <<x, i>>)'
    <3>1. x \in DOMAIN hdr /\ IsDir(x)
      BY <1>6, <2>1, <2>3 DEF SameTree
    <3>2. CASE x = d /\ i = n
      BY <1>11, <3>2
    <3>3. CASE ~(x = d /\ i = n)
      <4>1. i \in 1 .. hdr[x].num_buckets
        BY <1>4, <1>6, <3>1, <3>3
      <4> QED
        BY <1>6, <1>10, <3>1, <4>1 DEF TreeOK, CountsOK
    <3> QED
      BY <3>2, <3>3
  <2> QED
    BY <2>2, <2>3 DEF CountsOK
<1>13. ChildrenOK' /\ PathsOK'
  BY <1>4, <1>6, <1>8, <1>10, ChildrenKept, PathsKept DEF TreeOK
<1>14. BucketsOK' /\ AttrsOK'
  <2>1. \A x \in DOMAIN hdr : hdr[x].is_dir = 0 => hdr'[x] = hdr[x]
    BY <1>3, <1>6
  <2> QED
    BY <1>6, <1>8, <1>10, <2>1, BucketsKept, AttrsSame DEF TreeOK
<1>15. WorkerOK(w)'
  <2>1. <<d, n>> \notin DOMAIN child
    <3>1. <<d, n>>[1] = d /\ <<d, n>>[2] = n
      OBVIOUS
    <3>2. \A v \in Workers : ~Uncounts(v, <<d, n>>)
      BY <1>1, <1>2, <3>1, MineAlone DEF LockInv, Uncounts
    <3> QED
      BY <1>4, <3>1, <3>2 DEF TreeOK, CountsOK
  <2>2. p \notin DOMAIN hdr' /\ IsDir(d)'
    BY <1>0, <1>2, <1>3, <1>6 DEF MakerOK, SameTree, IsDir, Exists
  <2>3. MakerOK(w)'
    BY <1>0, <1>2, <1>4, <1>5, <1>6, <1>7, <1>8, <2>1, <2>2, ZenonT(60) DEF MakerOK, Exists
  <2> QED
    BY <1>5, <2>3 DEF WorkerOK
<1> QED
  BY <1>6, <1>7, <1>8, <1>9, <1>12, <1>13, <1>14, <1>15, StepKeeps DEF LockInv, TreeOK

LEMMA KeyIs ==
  ASSUME TreeOK, NEW k \in DOMAIN child
  PROVE  /\ k = <<k[1], k[2]>> /\ k[1] \in Paths /\ k[2] \in Nat /\ k[2] >= 1
         /\ child[k] \in Paths
BY DEF TreeOK, StoresOK, IsStore, Keys

\* Until it fills the hole, a removed path is in its slot.
LEMMA InItsSlot ==
  ASSUME HoldersApart, TreeOK, WorkersOK, NEW w \in Workers,
         at[w] \in {"GetCount", "SetLess", "SetSlot"},
         NEW p, NEW d, p = job[w].p, d = Dir(w)
  PROVE  /\ <<d, SlotOf(p)>> \in DOMAIN child /\ child[<<d, SlotOf(p)>>] = p
         /\ SlotOf(p) \in Nat /\ SlotOf(p) >= 1
         /\ \/ SlotOf(p) <= hdr[d].num_buckets
            \/ at[w] = "SetSlot" /\ SlotOf(p) = mem[w].i
<1>1. /\ p # Root /\ Exists(p) /\ IsDir(d) /\ Parent(p) = d /\ p \in Holds(w) /\ d \in Holds(w)
  BY InHand DEF WorkersOK, WorkerOK, RemoverOK, Dir
<1>2. \A v \in Workers : ~Drops(v, p)
  BY <1>1, MineAlone DEF Drops
<1>3. <<d, SlotOf(p)>> \in DOMAIN child /\ child[<<d, SlotOf(p)>>] = p
  BY <1>1, <1>2 DEF TreeOK, PathsOK, Exists
<1>4. PICK i : i = SlotOf(p)
  OBVIOUS
<1>5. <<d, i>>[1] = d /\ <<d, i>>[2] = i
  OBVIOUS
<1>6. i \in Nat /\ i >= 1
  BY <1>3, <1>4, <1>5, KeyIs
<1>7. \A v \in Workers : v # w => ~Uncounts(v, <<d, i>>)
  BY <1>1, <1>5, MineAlone
<1>8. Uncounts(w, <<d, i>>) => at[w] = "SetSlot" /\ i = mem[w].i
  BY DEF Uncounts, Slot
<1>9. i <= hdr[d].num_buckets \/ Uncounts(w, <<d, i>>)
  BY <1>3, <1>4, <1>5, <1>7 DEF TreeOK, CountsOK
<1> QED
  BY <1>3, <1>4, <1>6, <1>8, <1>9

LEMMA SetLessKeeps ==
  ASSUME LockInv, TreeOK, WorkersOK, NEW w \in Workers, SetLess(w), ~clashed'
  PROVE  TreeOK' /\ WorkersOK'
<1>0. PICK p, d, n, h : /\ p = job[w].p /\ d = Dir(w) /\ n = copy[w].num_buckets
                        /\ h = [copy[w] EXCEPT !.num_buckets = n - 1]
  OBVIOUS
<1>1. /\ at[w] = "SetLess" /\ PutHeader(w, d, h) /\ Goes(w, "SetSlot")
      /\ copy' = copy /\ mem' = [mem EXCEPT ![w].i = n]
  BY <1>0 DEF SetLess, Dir
<1>2. WorkerOK(w) /\ RemoverOK(w) /\ d \in Holds(w) /\ p \in Holds(w)
  BY <1>0, <1>1, InHand DEF WorkersOK, WorkerOK
<1>3. /\ Exists(d) /\ hdr[d].is_dir = 1 /\ copy[w] = hdr[d]
      /\ Exists(p) /\ p # Root /\ Parent(p) = d /\ p # d
  <2>1. /\ Exists(d) /\ hdr[d].is_dir = 1 /\ copy[w] = hdr[d]
        /\ Exists(p) /\ p # Root /\ Parent(p) = d
    BY <1>0, <1>1, <1>2 DEF RemoverOK, IsDir, Dir
  <2> QED
    BY <2>1, HeaderIs, ParentIsPath
<1>4. n = hdr[d].num_buckets /\ n \in Nat /\ n >= 1
  <2>1. n = hdr[d].num_buckets /\ n \in Nat
    BY <1>0, <1>3, HeaderIs
  <2>2. /\ SlotOf(p) \in Nat /\ SlotOf(p) >= 1
        /\ \/ SlotOf(p) <= hdr[d].num_buckets
           \/ at[w] = "SetSlot" /\ SlotOf(p) = mem[w].i
    BY <1>0, <1>1, InItsSlot DEF LockInv
  <2> QED
    BY <1>1, <2>1, <2>2
<1>5. <<d, n>> \in DOMAIN child
  <2>1. <<d, n>>[1] = d
    OBVIOUS
  <2>2. \A v \in Workers : ~Counts(v, <<d, n>>)
    BY <1>1, <1>2, <2>1, MineAlone DEF LockInv, Counts
  <2>3. d \in DOMAIN hdr /\ IsDir(d) /\ n \in 1 .. hdr[d].num_buckets
    BY <1>3, <1>4 DEF IsDir, Exists
  <2> QED
    BY <2>2, <2>3 DEF TreeOK, CountsOK
<1>6. /\ h \in Header /\ h.is_dir = 1 /\ h.num_buckets + 1 = n /\ h.num_buckets \in Nat
      /\ h.parent_index = hdr[d].parent_index
  BY <1>0, <1>3, <1>4, HeaderIs DEF Header
<1>7. /\ at'[w] = "SetSlot" /\ job' = job /\ mounted' = mounted
      /\ \A v \in Workers : v # w => at'[v] = at[v]
  BY <1>1, GoesShape DEF LockInv
<1>8. /\ SameTree /\ StoresOK' /\ hdr'[d] = h
      /\ \A y \in DOMAIN hdr : y # d => hdr'[y] = hdr[y]
      /\ child' = child /\ data' = data /\ xattr' = xattr
      /\ \A v \in Workers : v # w => d \notin Pending(v)
  BY <1>1, <1>3, <1>6, <1>7, PutShape
<1>9. /\ LocalsOK' /\ copy'[w] = copy[w] /\ mem'[w].i = n /\ mem'[w].own = mem[w].own
      /\ \A v \in Workers : v # w => copy'[v] = copy[v] /\ mem'[v] = mem[v]
  <2>1. LocalsOK /\ n \in Int /\ copy' = copy /\ mem' = [mem EXCEPT ![w].i = n]
    BY <1>1, <1>4 DEF WorkersOK
  <2> QED
    BY <2>1, OnlyI
<1>10. Others(w) /\ Dir(w)' = d /\ Slot(w)' = <<d, n>> /\ job'[w].p = p /\ job'[w].op = job[w].op
  BY <1>0, <1>7, <1>9 DEF Others, SameLocals, Dir, Slot
<1>11. Footprint(w)
  BY <1>2, <1>3, <1>6, <1>8, PutFootprint DEF Exists
<1>12. /\ \A k : ~Uncounts(w, k) /\ ~Counts(w, k) /\ ~Bears(w, k) /\ ~Moves(w, k) /\ ~Drops(w, k)
                 /\ ~Spares(w, k)
       /\ \A q, i : ~Adds(w, q, i)
  BY <1>1 DEF Uncounts, Counts, Bears, Moves, Drops, Spares, Adds
<1>13. Uncounts(w, <<d, n>>)'
  BY <1>7, <1>10 DEF Uncounts
<1>14. CountsOK'
  <2>1. \A x : IsDir(x)' <=> IsDir(x)
    BY <1>8 DEF SameTree, IsDir, Exists
  <2>2. \A v \in Workers : \A k : (Uncounts(v, k) => Uncounts(v, k)') /\ (Counts(v, k) => Counts(v, k)')
    BY <1>10, <1>12, SameNotes DEF Others
  <2>3. ASSUME NEW k \in DOMAIN child'
        PROVE  IsDir(k[1])' /\ (k[2] <= hdr'[k[1]].num_buckets \/ \E v \in Workers : Uncounts(v, k)')
    <3>1. k \in DOMAIN child /\ IsDir(k[1]) /\ k[2] \in Nat /\ k = <<k[1], k[2]>>
      BY <1>8, KeyIs DEF TreeOK, CountsOK
    <3>2. CASE k[1] = d /\ k[2] = n
      BY <1>13, <2>1, <3>1, <3>2
    <3>3. CASE ~(k[1] = d /\ k[2] = n) /\ k[2] <= hdr[k[1]].num_buckets
      <4>1. k[1] = d => k[2] <= h.num_buckets
        BY <1>4, <1>6, <3>1, <3>3
      <4> QED
        BY <1>8, <2>1, <3>1, <3>3, <4>1 DEF IsDir, Exists
    <3>4. CASE \E v \in Workers : Uncounts(v, k)
      BY <2>1, <2>2, <3>1, <3>4
    <3> QED
      BY <3>1, <3>2, <3>3, <3>4 DEF TreeOK, CountsOK
  <2>4. ASSUME NEW x \in DOMAIN hdr', IsDir(x)', NEW i \in 1 .. hdr'[x].num_buckets
        PROVE  <<x, i>> \in DOMAIN child' \/ \E v \in Workers : Counts(v, <<x, i>>)'
    <3>1. x \in DOMAIN hdr /\ IsDir(x)
      BY <1>8, <2>1, <2>4 DEF SameTree
    <3>2. i \in 1 .. hdr[x].num_buckets
      BY <1>4, <1>6, <1>8, <3>1
    <3> QED
      BY <1>8, <2>2, <3>1, <3>2 DEF TreeOK, CountsOK
  <2> QED
    BY <2>3, <2>4 DEF CountsOK
<1>15. ChildrenOK' /\ PathsOK'
  BY <1>3, <1>6, <1>8, <1>10, <1>12, ChildrenKept, PathsKept DEF TreeOK
<1>16. BucketsOK' /\ AttrsOK'
  <2>1. \A x \in DOMAIN hdr : hdr[x].is_dir = 0 => hdr'[x] = hdr[x]
    BY <1>3, <1>8
  <2> QED
    BY <1>8, <1>10, <1>12, <2>1, BucketsKept, AttrsSame DEF TreeOK
<1>17. WorkerOK(w)'
  <2>1. p \in DOMAIN hdr' /\ hdr'[p] = hdr[p] /\ IsDir(d)'
    BY <1>3, <1>8 DEF SameTree, IsDir, Exists
  <2>2. mem'[w].i = hdr'[d].num_buckets + 1 /\ Slot(w)' \in DOMAIN child'
    BY <1>5, <1>6, <1>8, <1>9, <1>10
  <2>3. RemoverOK(w)'
    BY <1>0, <1>2, <1>7, <1>9, <1>10, <2>1, <2>2 DEF RemoverOK, Exists
  <2> QED
    BY <1>7, <2>3 DEF WorkerOK
<1> QED
  BY <1>8, <1>9, <1>10, <1>11, <1>14, <1>15, <1>16, <1>17, StepKeeps DEF LockInv, TreeOK

LEMMA SetTenantKeeps ==
  ASSUME LockInv, TreeOK, WorkersOK, NEW w \in Workers, SetTenant(w), ~clashed'
  PROVE  TreeOK' /\ WorkersOK'
<1>0. PICK p, d, t, o, m, h : /\ p = job[w].p /\ d = Dir(w) /\ t = mem[w].who
                              /\ o = mem[w].own.parent_index /\ m = mem[w].i
                              /\ h = [copy[w] EXCEPT !.parent_index = o]
  OBVIOUS
<1>1. /\ at[w] = "SetTenant" /\ PutHeader(w, t, h) /\ Goes(w, "DelLast")
      /\ copy' = copy /\ mem' = mem
  BY <1>0 DEF SetTenant
<1>2. WorkerOK(w) /\ RemoverOK(w) /\ d \in Holds(w) /\ p \in Holds(w)
  BY <1>0, <1>1, InHand DEF WorkersOK, WorkerOK
<1>3. /\ <<d, m>> \in DOMAIN child /\ child[<<d, m>>] = t /\ <<d, o>> \in DOMAIN child
      /\ child[<<d, o>>] = t /\ Exists(t) /\ copy[w] = hdr[t] /\ hdr[t].parent_index = m
      /\ Exists(p) /\ p # Root /\ mem[w].own = hdr[p] /\ IsDir(d)
  BY <1>0, <1>1, <1>2 DEF RemoverOK, Slot, Hole, SlotOf
<1>4. /\ t # Root /\ Parent(t) = d /\ t # d
  <2>1. <<d, m>>[1] = d
    OBVIOUS
  <2>2. t # Root /\ Parent(t) = d
    BY <1>3, <2>1 DEF TreeOK, ChildrenOK
  <2> QED
    BY <1>3, <2>2, HeaderIs, ParentIsPath
<1>5. /\ h \in Header /\ h.is_dir = hdr[t].is_dir /\ h.num_buckets = hdr[t].num_buckets
      /\ h.parent_index = o /\ h.xattr_num = hdr[t].xattr_num
  <2>1. hdr[t] \in Header /\ hdr[p] \in Header
    BY <1>3, HeaderIs
  <2>2. o \in Nat
    BY <1>0, <1>3, <2>1 DEF Header
  <2> QED
    BY <1>0, <1>3, <2>1, <2>2 DEF Header
<1>6. /\ at'[w] = "DelLast" /\ job' = job /\ mounted' = mounted
      /\ \A v \in Workers : v # w => at'[v] = at[v]
  BY <1>1, GoesShape DEF LockInv
<1>7. /\ SameTree /\ StoresOK' /\ hdr'[t] = h
      /\ \A y \in DOMAIN hdr : y # t => hdr'[y] = hdr[y]
      /\ child' = child /\ data' = data /\ xattr' = xattr
      /\ \A v \in Workers : v # w => t \notin Pending(v)
  BY <1>1, <1>3, <1>5, <1>6, PutShape
<1>8. LocalsOK'
  BY <1>1, NoLocals DEF WorkersOK
<1>9. /\ Others(w) /\ Dir(w)' = d /\ Slot(w)' = <<d, m>> /\ Hole(w)' = <<d, o>>
      /\ Slot(w) = <<d, m>> /\ Hole(w) = <<d, o>>
  BY <1>0, <1>1, <1>6 DEF Others, SameLocals, Dir, Slot, Hole
<1>10. Footprint(w)
  BY <1>2, <1>3, <1>4, <1>5, <1>7, PutFootprint DEF Exists
<1>11. /\ \A k : /\ Uncounts(w, k) => Uncounts(w, k)'
                 /\ ~Counts(w, k) /\ ~Bears(w, k) /\ ~Spares(w, k)
                 /\ Drops(w, k) => Drops(w, k)'
                 /\ Moves(w, k) <=> k = <<d, o>>
       /\ Moves(w, <<d, m>>)'
       /\ \A q, i : ~Adds(w, q, i)
  BY <1>1, <1>6, <1>9 DEF Uncounts, Counts, Bears, Moves, Drops, Spares, Adds
<1>12. CountsOK' /\ BucketsOK' /\ AttrsOK'
  <2>1. \A x \in DOMAIN hdr : hdr'[x].num_buckets = hdr[x].num_buckets
                              /\ hdr'[x].xattr_num = hdr[x].xattr_num
    BY <1>5, <1>7
  <2> QED
    BY <1>7, <1>9, <1>11, <2>1, CountsKept, BucketsKept, AttrsSame DEF TreeOK
<1>13. ChildrenOK'
  <2> SUFFICES ASSUME NEW k \in DOMAIN child
               PROVE  /\ child[k] # Root /\ Parent(child[k]) = k[1]
                      /\ \/ /\ child[k] \in DOMAIN hdr'
                            /\ \/ hdr'[child[k]].parent_index = k[2]
                               \/ \E v \in Workers : Moves(v, k)'
                         \/ \E v \in Workers : Bears(v, k)'
    BY <1>7 DEF ChildrenOK, Exists, SlotOf
  <2>1. /\ child[k] # Root /\ Parent(child[k]) = k[1] /\ k = <<k[1], k[2]>>
        /\ \/ child[k] \in DOMAIN hdr
              /\ (hdr[child[k]].parent_index = k[2] \/ \E v \in Workers : Moves(v, k))
           \/ \E v \in Workers : Bears(v, k)
    BY KeyIs DEF TreeOK, ChildrenOK, Exists, SlotOf
  <2>2. CASE child[k] # t
    <3>1. \A v \in Workers : (Moves(v, k) => Moves(v, k)') /\ (Bears(v, k) => Bears(v, k)')
      BY <1>3, <1>9, <1>11, <2>2, SameNotes DEF Others
    <3> QED
      BY <1>7, <2>1, <2>2, <3>1 DEF SameTree
  <2>3. CASE child[k] = t
    <3>1. k[1] \in Holds(w)
      BY <1>2, <1>4, <2>1, <2>3
    <3>2. \A v \in Workers : ~Bears(v, k) /\ (v # w => ~Moves(v, k))
      BY <1>11, <3>1, MineAlone DEF LockInv
    <3>3. k = <<d, m>> \/ k = <<d, o>>
      BY <1>3, <1>4, <1>11, <2>1, <2>3, <3>2
    <3>4. hdr'[t].parent_index = o /\ t \in DOMAIN hdr'
      BY <1>3, <1>5, <1>7 DEF SameTree, Exists
    <3> QED
      BY <1>11, <2>1, <2>3, <3>3, <3>4
  <2> QED
    BY <2>2, <2>3
<1>14. PathsOK'
  <2> SUFFICES ASSUME NEW q \in DOMAIN hdr', q # Root
               PROVE  /\ IsDir(Parent(q))'
                      /\ \/ /\ <<Parent(q), hdr'[q].parent_index>> \in DOMAIN child
                            /\ child[<<Parent(q), hdr'[q].parent_index>>] = q
                         \/ \E v \in Workers : Drops(v, q)'
    BY <1>7 DEF PathsOK, SlotOf
  <2>1. /\ q \in DOMAIN hdr /\ IsDir(Parent(q))'
    BY <1>7 DEF TreeOK, PathsOK, SameTree, IsDir, Exists
  <2>2. CASE q = t
    BY <1>3, <1>4, <1>5, <1>7, <2>1, <2>2
  <2>3. CASE q # t
    <3>1. \A v \in Workers : Drops(v, q) => Drops(v, q)'
      BY <1>9, <1>11, SameNotes DEF Others
    <3> QED
      BY <1>7, <2>1, <2>3, <3>1 DEF TreeOK, PathsOK, SlotOf
  <2> QED
    BY <2>2, <2>3
<1>15. WorkerOK(w)'
  <2>1. p \in DOMAIN hdr' /\ t \in DOMAIN hdr' /\ IsDir(d)' /\ hdr'[d] = hdr[d]
    BY <1>3, <1>4, <1>7 DEF SameTree, IsDir, Exists
  <2>2. hdr'[p] = hdr[p]
    <3>1. CASE p = t
      <4>1. hdr[t] \in Header /\ hdr[t].parent_index = o
        BY <1>0, <1>3, <3>1, HeaderIs
      <4>2. h = hdr[t]
        BY <1>5, <4>1, SameHeader
      <4> QED
        BY <1>7, <3>1, <4>2
    <3> QED
      BY <1>3, <1>7, <3>1 DEF Exists
  <2>3. hdr'[t].parent_index = o
    BY <1>5, <1>7
  <2>4. RemoverOK(w)'
    BY <1>0, <1>1, <1>2, <1>3, <1>6, <1>7, <1>9, <2>1, <2>2, <2>3 DEF RemoverOK, Exists, SlotOf
  <2> QED
    BY <1>6, <2>4 DEF WorkerOK
<1> QED
  BY <1>7, <1>8, <1>9, <1>10, <1>12, <1>13, <1>14, <1>15, StepKeeps DEF LockInv, TreeOK

LEMMA EndsShape ==
  ASSUME Shape, LocalsOK, NEW w \in Workers, NEW val, Ends(w, val)
  PROVE  at'[w] = "idle" /\ mounted' = mounted /\ Others(w) /\ LocalsOK' /\ WorkerOK(w)'
<1>1. /\ at' = [at EXCEPT ![w] = "idle"] /\ job' = [job EXCEPT ![w] = NoJob] /\ mounted' = mounted
      /\ copy' = [copy EXCEPT ![w] = NoHeader] /\ mem' = [mem EXCEPT ![w] = NoMem]
  BY DEF Ends
<1>2. at'[w] = "idle" /\ \A v \in Workers : v # w => at'[v] = at[v] /\ job'[v] = job[v]
  BY <1>1 DEF Shape
<1>3. LocalsOK' /\ \A v \in Workers : v # w => copy'[v] = copy[v] /\ mem'[v] = mem[v]
  BY <1>1, LocalsLeft
<1>4. WorkerOK(w)'
  BY <1>2 DEF WorkerOK
<1> QED
  BY <1>1, <1>2, <1>3, <1>4 DEF Others, SameLocals

LEMMA WriteEndsKeeps ==
  ASSUME LockInv, TreeOK, WorkersOK, NEW w \in Workers, WriteEnds(w), ~clashed'
  PROVE  TreeOK' /\ WorkersOK'
<1>0. PICK p, n, h : p = job[w].p /\ n = copy[w].num_buckets /\ h = copy[w]
  OBVIOUS
<1>1. at[w] = "SetBucket" /\ PutHeader(w, p, h) /\ Ends(w, "ok")
  BY <1>0 DEF WriteEnds
<1>2. WorkerOK(w) /\ WriterOK(w) /\ p \in Holds(w)
  BY <1>0, <1>1, InHand, SMTT(60) DEF WorkersOK, WorkerOK
<1>3. /\ Exists(p) /\ hdr[p].is_dir = 0 /\ h = [hdr[p] EXCEPT !.num_buckets = n]
      /\ h \in Header /\ n \in Nat /\ n >= hdr[p].num_buckets
      /\ \A i \in hdr[p].num_buckets + 1 .. n : <<p, i>> \in data
  BY <1>0, <1>1, <1>2 DEF WriterOK, IsFile, WorkersOK, LocalsOK, Header
<1>4. /\ h.is_dir = 0 /\ h.num_buckets = n /\ h.parent_index = hdr[p].parent_index
      /\ h.xattr_num = hdr[p].xattr_num /\ hdr[p].num_buckets \in Nat /\ n \in Nat
      /\ n >= hdr[p].num_buckets /\ \A i \in hdr[p].num_buckets + 1 .. n : <<p, i>> \in data
  BY <1>3, HeaderIs DEF Header
<1>5. at'[w] = "idle" /\ mounted' = mounted /\ Others(w) /\ LocalsOK' /\ WorkerOK(w)'
  BY <1>1, EndsShape DEF LockInv, WorkersOK
<1>6. /\ SameTree /\ StoresOK' /\ hdr'[p] = h
      /\ \A y \in DOMAIN hdr : y # p => hdr'[y] = hdr[y]
      /\ child' = child /\ data' = data /\ xattr' = xattr
      /\ \A v \in Workers : v # w => p \notin Pending(v)
  BY <1>1, <1>3, <1>4, <1>5, PutShape, ZenonT(60)
<1>7. Footprint(w)
  BY <1>2, <1>3, <1>4, <1>6, PutFootprint DEF Exists
<1>8. /\ \A k : /\ ~Uncounts(w, k) /\ ~Counts(w, k) /\ ~Bears(w, k) /\ ~Moves(w, k) /\ ~Drops(w, k)
                /\ Spares(w, k) => k[1] = p /\ k[2] <= n
      /\ \A q, i : ~Adds(w, q, i)
  BY <1>0, <1>1 DEF Uncounts, Counts, Bears, Moves, Drops, Spares, Adds
<1>9. CountsOK' /\ ChildrenOK' /\ PathsOK' /\ AttrsOK'
  <2>1. \A x \in DOMAIN hdr : /\ hdr[x].is_dir = 1 => hdr'[x].num_buckets = hdr[x].num_buckets
                              /\ hdr'[x].parent_index = hdr[x].parent_index
                              /\ hdr'[x].xattr_num = hdr[x].xattr_num
    <3>1. hdr[p].is_dir = 0
      BY <1>3
    <3> QED
      BY <1>4, <1>6, <3>1
  <2> QED
    BY <1>5, <1>6, <1>8, <2>1, CountsKept, ChildrenKept, PathsKept, AttrsSame DEF TreeOK
<1>10. BucketsOK'
  <2>1. \A x : IsFile(x)' <=> IsFile(x)
    BY <1>6 DEF SameTree, IsFile, Exists
  <2>2. ASSUME NEW k \in data
        PROVE  \/ IsFile(k[1])' /\ k[2] <= hdr'[k[1]].num_buckets
               \/ \E v \in Workers : Spares(v, k)'
    <3>0. k[2] \in Nat
      BY DEF TreeOK, StoresOK, Keys
    <3>1. CASE IsFile(k[1]) /\ k[2] <= hdr[k[1]].num_buckets
      <4>1. CASE k[1] = p
        <5>1. hdr'[p].num_buckets = n /\ k[2] <= n /\ IsFile(p)'
          BY <1>4, <1>6, <2>1, <3>0, <3>1, <4>1
        <5> QED
          BY <4>1, <5>1
      <4>2. CASE k[1] # p
        BY <1>6, <2>1, <3>1, <4>2 DEF IsFile, Exists
      <4> QED
        BY <4>1, <4>2
    <3>2. CASE Spares(w, k)
      <4>1. IsFile(p)'
        BY <1>3, <2>1 DEF IsFile
      <4> QED
        BY <1>4, <1>6, <1>8, <3>2, <4>1
    <3>3. ASSUME NEW v \in Workers, v # w, Spares(v, k)
          PROVE  Spares(v, k)'
      BY <1>5, <3>3, SameNotes DEF Others
    <3>4. \/ IsFile(k[1]) /\ k[2] <= hdr[k[1]].num_buckets
          \/ \E v \in Workers : Spares(v, k)
      BY DEF TreeOK, BucketsOK
    <3> QED
      BY <3>1, <3>2, <3>3, <3>4
  <2>3. ASSUME NEW q \in DOMAIN hdr', IsFile(q)', NEW i \in 1 .. hdr'[q].num_buckets
        PROVE  <<q, i>> \in data
    <3>1. q \in DOMAIN hdr /\ IsFile(q)
      BY <1>6, <2>1, <2>3 DEF SameTree
    <3>2. CASE i \in 1 .. hdr[q].num_buckets
      BY <3>1, <3>2 DEF TreeOK, BucketsOK, DataKeysOf
    <3>3. CASE q = p /\ i \notin 1 .. hdr[q].num_buckets
      <4>1. i \in hdr[p].num_buckets + 1 .. n
        BY <1>4, <1>6, <3>3
      <4> QED
        BY <1>4, <3>3, <4>1
    <3>4. q # p => i \in 1 .. hdr[q].num_buckets
      BY <1>6, <3>1
    <3> QED
      BY <3>2, <3>3, <3>4
  <2> QED
    BY <1>6, <2>2, <2>3 DEF BucketsOK, DataKeysOf
<1> QED
  BY <1>5, <1>6, <1>7, <1>9, <1>10, StepKeeps DEF LockInv, TreeOK

LEMMA SetNumKeeps ==
  ASSUME LockInv, TreeOK, WorkersOK, NEW w \in Workers, SetNum(w), ~clashed'
  PROVE  TreeOK' /\ WorkersOK'
<1>0. PICK p, n, h, next :
        /\ p = job[w].p /\ n = copy[w].xattr_num /\ h = copy[w]
        /\ next = IF job[w].op = "setxattr" THEN "SetAttr" ELSE "MoveAttr"
  OBVIOUS
<1>1. /\ at[w] = "SetNum" /\ PutHeader(w, p, h) /\ Goes(w, next)
      /\ copy' = copy /\ mem' = mem
  BY <1>0 DEF SetNum
<1>2. WorkerOK(w) /\ AttrWriterOK(w) /\ p \in Holds(w)
  BY <1>0, <1>1, InHand DEF WorkersOK, WorkerOK
<1>3. /\ Exists(p) /\ h = [hdr[p] EXCEPT !.xattr_num = n] /\ h \in Header /\ n \in Int
      /\ \/ job[w].op = "setxattr" /\ hdr[p].xattr_num = n - 1
         \/ job[w].op = "removexattr" /\ hdr[p].xattr_num = n + 1 /\ mem[w].i \in 1 .. n + 1
  BY <1>0, <1>1, <1>2 DEF AttrWriterOK, WorkersOK, LocalsOK, Header
<1>4. /\ Exists(p) /\ h \in Header /\ h.is_dir = hdr[p].is_dir /\ h.num_buckets = hdr[p].num_buckets
      /\ h.parent_index = hdr[p].parent_index /\ h.xattr_num = n
  BY <1>3, HeaderIs DEF Header
<1>5. /\ at'[w] = next /\ job' = job /\ mounted' = mounted
      /\ \A v \in Workers : v # w => at'[v] = at[v]
  BY <1>1, GoesShape DEF LockInv
<1>6. /\ SameTree /\ StoresOK' /\ hdr'[p] = h
      /\ \A y \in DOMAIN hdr : y # p => hdr'[y] = hdr[y]
      /\ child' = child /\ data' = data /\ xattr' = xattr
      /\ \A v \in Workers : v # w => p \notin Pending(v)
  BY <1>1, <1>4, <1>5, PutShape
<1>7. Footprint(w)
  BY <1>2, <1>3, <1>4, <1>6, PutFootprint DEF Exists
<1>8. LocalsOK' /\ Others(w)
  BY <1>1, <1>5, NoLocals DEF WorkersOK, Others, SameLocals
<1>9. /\ \A k : /\ ~Uncounts(w, k) /\ ~Counts(w, k) /\ ~Bears(w, k) /\ ~Moves(w, k) /\ ~Drops(w, k)
                /\ ~Spares(w, k)
      /\ \A q, i : ~Adds(w, q, i)
  BY <1>1 DEF Uncounts, Counts, Bears, Moves, Drops, Spares, Adds
<1>10. CountsOK' /\ ChildrenOK' /\ PathsOK' /\ BucketsOK'
  <2>1. \A x \in DOMAIN hdr : /\ hdr'[x].num_buckets = hdr[x].num_buckets
                              /\ hdr'[x].parent_index = hdr[x].parent_index
    BY <1>4, <1>6
  <2> QED
    BY <1>6, <1>8, <1>9, <2>1, CountsKept, ChildrenKept, PathsKept, BucketsKept DEF TreeOK
\* The attributes of p were all there: nobody else adds any.
<1>11. ASSUME IsFile(p), NEW i \in 1 .. hdr[p].xattr_num
       PROVE  AttrThere(p, i)
  <2>1. \A v \in Workers : ~Adds(v, p, i)
    BY <1>2, <1>9, MineAlone DEF LockInv
  <2> QED
    BY <1>11, <2>1 DEF TreeOK, AttrsOK, IsFile, Exists
<1>12. AttrsOK'
  <2> SUFFICES ASSUME NEW q \in DOMAIN hdr, IsFile(q)
               PROVE  /\ hdr'[q].xattr_num >= 0
                      /\ \A i \in 1 .. hdr'[q].xattr_num :
                           AttrThere(q, i)' \/ \E v \in Workers : Adds(v, q, i)'
    BY <1>6 DEF AttrsOK, SameTree, IsFile, Exists
  <2>1. \A i : AttrThere(q, i)' <=> AttrThere(q, i)
    BY <1>6 DEF AttrThere
  <2>2. \A v \in Workers : \A i : Adds(v, q, i) => Adds(v, q, i)'
    BY <1>8, <1>9, SameNotes DEF Others
  <2>3. CASE q # p
    BY <1>6, <2>1, <2>2, <2>3 DEF TreeOK, AttrsOK
  <2>4. CASE q = p
    <3>1. hdr[p].xattr_num >= 0 /\ hdr'[p].xattr_num = n
      BY <1>4, <1>6, <2>4 DEF TreeOK, AttrsOK
    <3>2. n >= 0
      BY <1>3, <3>1
    <3>3. ASSUME NEW i \in 1 .. n PROVE AttrThere(p, i) \/ Adds(w, p, i)'
      <4>1. CASE i \in 1 .. hdr[p].xattr_num
        BY <1>11, <2>4, <4>1
      <4>2. CASE i \notin 1 .. hdr[p].xattr_num
        <5>1. job[w].op = "setxattr" /\ i = n
          BY <1>3, <4>2
        <5>2. at'[w] = "SetAttr" /\ job'[w].p = p /\ copy'[w].xattr_num = n
          BY <1>0, <1>1, <1>5, <5>1
        <5> QED
          BY <5>1, <5>2 DEF Adds
      <4> QED
        BY <4>1, <4>2
    <3> QED
      BY <2>1, <2>4, <3>1, <3>2, <3>3
  <2> QED
    BY <2>3, <2>4
<1>13. WorkerOK(w)'
  <2>1. p \in DOMAIN hdr' /\ hdr'[p].xattr_num = n
    BY <1>3, <1>4, <1>6 DEF SameTree, Exists
  <2>2. ASSUME job[w].op = "removexattr", IsFile(p)'
        PROVE  AttrThere(p, n + 1)'
    <3>1. IsFile(p)
      BY <1>3, <1>6, <2>2 DEF SameTree, IsFile, Exists
    <3>2. AttrThere(p, n + 1)
      BY <1>3, <1>11, <2>2, <3>1
    <3> QED
      BY <1>6, <3>2 DEF AttrThere
  <2>3. AttrWriterOK(w)'
    BY <1>0, <1>1, <1>2, <1>3, <1>5, <2>1, <2>2 DEF AttrWriterOK, Exists
  <2> QED
    BY <1>0, <1>5, <2>3 DEF WorkerOK
<1> QED
  BY <1>6, <1>7, <1>8, <1>10, <1>12, <1>13, StepKeeps DEF LockInv, TreeOK
==============================================================================
