-------------------------- MODULE CacheFSStepsProofs -------------------------
(****************************************************************************)
(* For any number of workers and calls, any names, depth and bounds: as long*)
(* as no two read-modify-writes of one header met, the stores are one tree  *)
(* when all handlers have ended, and damaged only where a handler was at    *)
(* work when they are stopped in between.                                   *)
(*                                                                          *)
(* The invariant StepsInv describes the tree while handlers are at work:    *)
(* each of its parts makes an exception for what some handler has yet to do *)
(* (Uncounts, Counts, Bears, Moves, Drops, Spares, Adds), and WorkerOK says *)
(* how far each handler is.  A handler disturbs no other, since it changes  *)
(* only what it has locked (Footprint, OthersKeep).                         *)
(*                                                                          *)
(* Then: a handler that no other overlaps is one step of CacheFS, with the  *)
(* same answer.  The invariant AloneInv says of a handler that runs alone   *)
(* what it has done of its work (Since), in terms of the stores as it found *)
(* them: what a caller still sees.  Its last step leaves what CacheFS makes *)
(* of those; every other leaves what is seen alone.  That nothing it reads  *)
(* is missing follows from StepsInv.                                        *)
(****************************************************************************)
EXTENDS CacheFSProofs

------------------------------------------------------------------------------
(* Slots filled and emptied.                                                *)

LEMMA SetEntryKeeps ==
  ASSUME LockInv, TreeOK, WorkersOK, NEW w \in Workers, SetEntry(w)
  PROVE  TreeOK' /\ WorkersOK'
<1>0. PICK p, d, m : p = job[w].p /\ d = Dir(w) /\ m = mem[w].i
  OBVIOUS
<1>1. /\ at[w] = "SetEntry" /\ child' = CacheSet(child, <<d, m>>, p) /\ Goes(w, "SetHeader")
      /\ stats' = stats /\ hdr' = hdr /\ data' = data /\ xattr' = xattr
      /\ copy' = copy /\ mem' = mem
  BY <1>0 DEF SetEntry, Dir
<1>2. WorkerOK(w) /\ MakerOK(w) /\ d \in Holds(w)
  BY <1>0, <1>1, InHand DEF WorkersOK, WorkerOK
<1>3. /\ p \in Paths /\ p # Root /\ ~Exists(p) /\ IsDir(d) /\ Parent(p) = d
      /\ m = hdr[d].num_buckets /\ m >= 1 /\ <<d, m>> \notin DOMAIN child
  BY <1>0, <1>1, <1>2 DEF MakerOK, Slot, Dir
<1>4. d \in Paths /\ m \in Nat
  BY <1>3, HeaderIs DEF IsDir
<1>5. /\ DOMAIN child' = DOMAIN child \cup {<<d, m>>} /\ child'[<<d, m>>] = p
      /\ \A k \in DOMAIN child : child'[k] = child[k]
  BY <1>1, <1>3 DEF CacheSet
<1>6. /\ at'[w] = "SetHeader" /\ job' = job /\ mounted' = mounted
      /\ \A v \in Workers : v # w => at'[v] = at[v]
  BY <1>1, GoesShape DEF LockInv
<1>7. LocalsOK' /\ Others(w) /\ Slot(w) = <<d, m>> /\ Slot(w)' = <<d, m>>
  BY <1>0, <1>1, <1>6, NoLocals DEF WorkersOK, Others, SameLocals, Slot, Dir
<1>8. SameTree
  BY <1>1 DEF SameTree
<1>9. StoresOK'
  <2>1. <<d, m>> \in Keys
    BY <1>3, <1>4 DEF Keys
  <2>2. IsStore(child', Keys, Paths)
    BY <1>1, <1>3, <2>1, CacheSetStore DEF TreeOK, StoresOK
  <2> QED
    BY <1>1, <1>6, <2>2 DEF TreeOK, StoresOK, IsDir, Exists, IsStore
<1>10. Footprint(w)
  <2>1. \A k : k[1] \notin Holds(w) => k # <<d, m>>
    BY <1>2
  <2> QED
    BY <1>1, <1>5, <2>1 DEF Footprint
<1>11. /\ \A k : /\ ~Uncounts(w, k) /\ ~Bears(w, k) /\ ~Moves(w, k) /\ ~Drops(w, k) /\ ~Spares(w, k)
                 /\ Counts(w, k) <=> k = <<d, m>>
       /\ \A q, i : ~Adds(w, q, i)
       /\ Bears(w, <<d, m>>)'
  BY <1>1, <1>6, <1>7 DEF Uncounts, Counts, Bears, Moves, Drops, Spares, Adds
<1>12. BucketsOK' /\ AttrsOK'
  BY <1>1, <1>7, <1>8, <1>11, BucketsKept, AttrsSame DEF TreeOK
<1>13. \A v \in Workers : \A k : /\ Uncounts(v, k) => Uncounts(v, k)'
                                 /\ Bears(v, k) => Bears(v, k)'
                                 /\ Moves(v, k) => Moves(v, k)'
                                 /\ Drops(v, k) => Drops(v, k)'
                                 /\ Counts(v, k) => k = <<d, m>> \/ Counts(v, k)'
  BY <1>7, <1>11, SameNotes DEF Others
<1>14. CountsOK'
  <2>1. ASSUME NEW k \in DOMAIN child'
        PROVE  IsDir(k[1]) /\ (k[2] <= hdr[k[1]].num_buckets \/ \E v \in Workers : Uncounts(v, k)')
    <3>1. CASE k \in DOMAIN child
      BY <1>13, <3>1 DEF TreeOK, CountsOK
    <3>2. CASE k = <<d, m>>
      <4>1. k[1] = d /\ k[2] = m
        BY <3>2
      <4> QED
        BY <1>3, <1>4, <4>1
    <3> QED
      BY <1>5, <3>1, <3>2
  <2>2. ASSUME NEW x \in DOMAIN hdr, IsDir(x), NEW i \in 1 .. hdr[x].num_buckets
        PROVE  <<x, i>> \in DOMAIN child' \/ \E v \in Workers : Counts(v, <<x, i>>)'
    BY <1>5, <1>13, <2>2 DEF TreeOK, CountsOK
  <2> QED
    BY <1>1, <2>1, <2>2 DEF CountsOK, IsDir, Exists
<1>15. ChildrenOK'
  <2>1. ASSUME NEW k \in DOMAIN child'
        PROVE  /\ child'[k] # Root /\ Parent(child'[k]) = k[1]
               /\ \/ /\ Exists(child'[k])
                     /\ SlotOf(child'[k]) = k[2] \/ \E v \in Workers : Moves(v, k)'
                  \/ \E v \in Workers : Bears(v, k)'
    <3>1. CASE k \in DOMAIN child
      BY <1>5, <1>13, <3>1 DEF TreeOK, ChildrenOK
    <3>2. CASE k = <<d, m>>
      <4>1. k[1] = d
        BY <3>2
      <4> QED
        BY <1>3, <1>5, <1>11, <3>2, <4>1
    <3> QED
      BY <1>5, <3>1, <3>2
  <2> QED
    BY <1>1, <2>1 DEF ChildrenOK, Exists, SlotOf
<1>16. PathsOK'
  BY <1>1, <1>5, <1>13 DEF TreeOK, PathsOK, IsDir, Exists, SlotOf
<1>17. WorkerOK(w)'
  <2>1. MakerOK(w)'
    BY <1>0, <1>1, <1>2, <1>3, <1>5, <1>6, <1>7 DEF MakerOK, IsDir, Exists, Dir
  <2> QED
    BY <1>6, <2>1 DEF WorkerOK
<1> QED
  BY <1>7, <1>9, <1>10, <1>12, <1>14, <1>15, <1>16, <1>17, StepKeeps DEF LockInv, TreeOK

LEMMA SetSlotKeeps ==
  ASSUME LockInv, TreeOK, WorkersOK, NEW w \in Workers, SetSlot(w)
  PROVE  TreeOK' /\ WorkersOK'
<1>0. PICK p, d, t, o, m : /\ p = job[w].p /\ d = Dir(w) /\ o = mem[w].own.parent_index
                           /\ m = mem[w].i /\ t = child[<<d, m>>]
  OBVIOUS
<1>1. /\ at[w] = "SetSlot" /\ child' = CacheSet(child, <<d, o>>, t) /\ Goes(w, "GetTenant")
      /\ stats' = stats /\ hdr' = hdr /\ data' = data /\ xattr' = xattr
      /\ copy' = copy /\ mem' = [mem EXCEPT ![w].who = t]
  BY <1>0 DEF SetSlot, Dir
<1>2. WorkerOK(w) /\ RemoverOK(w) /\ d \in Holds(w) /\ p \in Holds(w)
  BY <1>0, <1>1, InHand DEF WorkersOK, WorkerOK
<1>3. /\ <<d, m>> \in DOMAIN child /\ m = hdr[d].num_buckets + 1 /\ Exists(p) /\ p # Root
      /\ o = SlotOf(p) /\ IsDir(d) /\ Parent(p) = d
  BY <1>0, <1>1, <1>2 DEF RemoverOK, Slot, SlotOf, Dir
<1>4. hdr[d].num_buckets \in Nat /\ m \in Nat
  BY <1>3, HeaderIs DEF IsDir
<1>5. /\ <<d, o>> \in DOMAIN child /\ child[<<d, o>>] = p /\ o \in Nat /\ o <= m
      /\ o = m => t = p
  <2>1. /\ <<d, SlotOf(p)>> \in DOMAIN child /\ child[<<d, SlotOf(p)>>] = p
        /\ SlotOf(p) \in Nat /\ SlotOf(p) >= 1
        /\ \/ SlotOf(p) <= hdr[d].num_buckets
           \/ at[w] = "SetSlot" /\ SlotOf(p) = mem[w].i
    BY <1>0, <1>1, InItsSlot DEF LockInv
  <2> QED
    BY <1>0, <1>3, <1>4, <2>1
\* The tenant of the last slot.
<1>6. t # Root /\ Parent(t) = d /\ Exists(t) /\ SlotOf(t) = m /\ t \in Paths
  <2>1. <<d, m>>[1] = d /\ <<d, m>>[2] = m
    OBVIOUS
  <2>2. \A v \in Workers : ~Moves(v, <<d, m>>) /\ ~Bears(v, <<d, m>>)
    BY <1>1, <1>2, <2>1, MineAlone DEF LockInv, Moves, Bears
  <2> QED
    BY <1>0, <1>3, <2>1, <2>2, KeyIs DEF TreeOK, ChildrenOK
<1>7. t = p => o = m
  BY <1>3, <1>6
<1>8. /\ DOMAIN child' = DOMAIN child /\ child'[<<d, o>>] = t
      /\ \A k \in DOMAIN child : k # <<d, o>> => child'[k] = child[k]
  BY <1>1, <1>5 DEF CacheSet
<1>9. /\ at'[w] = "GetTenant" /\ job' = job /\ mounted' = mounted
      /\ \A v \in Workers : v # w => at'[v] = at[v]
  BY <1>1, GoesShape DEF LockInv
<1>10. /\ LocalsOK' /\ mem'[w].own = mem[w].own /\ mem'[w].i = m /\ mem'[w].who = t
       /\ \A v \in Workers : v # w => copy'[v] = copy[v] /\ mem'[v] = mem[v]
  <2>1. LocalsOK /\ copy' = copy /\ mem' = [mem EXCEPT ![w].who = t]
    BY <1>1 DEF WorkersOK
  <2> QED
    BY <1>0, <2>1, OnlyWho
<1>11. /\ Others(w) /\ Slot(w) = <<d, m>> /\ Slot(w)' = <<d, m>> /\ Hole(w)' = <<d, o>>
       /\ job'[w].p = p /\ job'[w].op = job[w].op /\ Dir(w)' = d
  BY <1>0, <1>9, <1>10 DEF Others, SameLocals, Slot, Hole, Dir
<1>12. SameTree
  BY <1>1 DEF SameTree
<1>13. StoresOK'
  <2>1. <<d, o>> \in Keys
    BY <1>5 DEF TreeOK, StoresOK, IsStore
  <2>2. IsStore(child', Keys, Paths)
    BY <1>1, <1>6, <2>1, CacheSetStore DEF TreeOK, StoresOK
  <2> QED
    BY <1>1, <1>9, <2>2 DEF TreeOK, StoresOK, IsDir, Exists, IsStore
<1>14. Footprint(w)
  <2>1. \A k : k[1] \notin Holds(w) => k # <<d, o>>
    BY <1>2
  <2> QED
    BY <1>1, <1>8, <2>1 DEF Footprint
<1>15. /\ \A k : /\ Uncounts(w, k) => Uncounts(w, k)'
                 /\ ~Bears(w, k) /\ ~Moves(w, k) /\ ~Drops(w, k) /\ ~Spares(w, k) /\ ~Counts(w, k)
       /\ \A q, i : ~Adds(w, q, i)
       /\ Moves(w, <<d, o>>)' /\ Drops(w, p)'
  BY <1>1, <1>9, <1>11 DEF Uncounts, Counts, Bears, Moves, Drops, Spares, Adds
<1>16. CountsOK' /\ BucketsOK' /\ AttrsOK'
  BY <1>1, <1>8, <1>11, <1>12, <1>15, CountsKept, BucketsKept, AttrsSame DEF TreeOK
<1>17. \A v \in Workers : \A k : /\ Bears(v, k) => Bears(v, k)'
                                 /\ Moves(v, k) => Moves(v, k)'
                                 /\ Drops(v, k) => Drops(v, k)'
  BY <1>11, <1>15, SameNotes DEF Others
<1>18. ChildrenOK'
  <2>1. ASSUME NEW k \in DOMAIN child'
        PROVE  /\ child'[k] # Root /\ Parent(child'[k]) = k[1]
               /\ \/ /\ Exists(child'[k])
                     /\ SlotOf(child'[k]) = k[2] \/ \E v \in Workers : Moves(v, k)'
                  \/ \E v \in Workers : Bears(v, k)'
    <3>1. CASE k # <<d, o>>
      BY <1>8, <1>17, <3>1 DEF TreeOK, ChildrenOK
    <3>2. CASE k = <<d, o>>
      <4>1. k[1] = d
        BY <3>2
      <4> QED
        BY <1>6, <1>8, <1>15, <3>2, <4>1
    <3> QED
      BY <3>1, <3>2
  <2> QED
    BY <1>1, <2>1 DEF ChildrenOK, Exists, SlotOf
<1>19. PathsOK'
  <2>1. ASSUME NEW q \in DOMAIN hdr \ {Root}
        PROVE  /\ IsDir(Parent(q))
               /\ \/ /\ <<Parent(q), SlotOf(q)>> \in DOMAIN child'
                     /\ child'[<<Parent(q), SlotOf(q)>>] = q
                  \/ \E v \in Workers : Drops(v, q)'
    <3>1. CASE q = p
      BY <1>15, <3>1 DEF TreeOK, PathsOK
    <3>2. CASE q # p
      BY <1>5, <1>8, <1>17, <3>2 DEF TreeOK, PathsOK
    <3> QED
      BY <3>1, <3>2
  <2> QED
    BY <1>1, <2>1 DEF PathsOK, IsDir, Exists, SlotOf
<1>20. WorkerOK(w)'
  <2>1. child'[<<d, m>>] = t
    BY <1>0, <1>3, <1>8
  <2>2. mem'[w].own.parent_index = o /\ (o = m <=> t = p)
    BY <1>0, <1>5, <1>7, <1>10, SMTT(60)
  <2>3. RemoverOK(w)'
    BY <1>0, <1>1, <1>2, <1>3, <1>5, <1>6, <1>8, <1>9, <1>10, <1>11, <2>1, <2>2
       DEF RemoverOK, Exists, IsDir, SlotOf
  <2> QED
    BY <1>9, <2>3 DEF WorkerOK
<1> QED
  BY <1>10, <1>11, <1>13, <1>14, <1>16, <1>18, <1>19, <1>20, StepKeeps DEF LockInv, TreeOK

LEMMA DelLastKeeps ==
  ASSUME LockInv, TreeOK, WorkersOK, NEW w \in Workers, DelLast(w)
  PROVE  TreeOK' /\ WorkersOK'
<1>0. PICK p, d, t, o, m : /\ p = job[w].p /\ d = Dir(w) /\ o = mem[w].own.parent_index
                           /\ m = mem[w].i /\ t = mem[w].who
  OBVIOUS
<1>1. /\ at[w] = "DelLast" /\ child' = CacheDelete(child, {<<d, m>>}) /\ Goes(w, "DelHeader")
      /\ stats' = stats /\ hdr' = hdr /\ data' = data /\ xattr' = xattr
      /\ copy' = copy /\ mem' = mem
  BY <1>0 DEF DelLast, Dir
<1>2. WorkerOK(w) /\ RemoverOK(w) /\ d \in Holds(w) /\ p \in Holds(w)
  BY <1>0, <1>1, InHand DEF WorkersOK, WorkerOK
<1>3. /\ <<d, m>> \in DOMAIN child /\ m = hdr[d].num_buckets + 1 /\ Exists(p) /\ p # Root
      /\ child[<<d, m>>] = t /\ child[<<d, o>>] = t /\ SlotOf(t) = o
      /\ (o = m <=> t = p) /\ IsDir(d) /\ Parent(p) = d
  BY <1>0, <1>1, <1>2 DEF RemoverOK, Slot, Hole, Dir
<1>4. hdr[d].num_buckets \in Nat
  BY <1>3, HeaderIs DEF IsDir
<1>5. /\ DOMAIN child' = DOMAIN child \ {<<d, m>>} /\ \A k \in DOMAIN child' : child'[k] = child[k]
  BY <1>1 DEF CacheDelete
<1>6. /\ at'[w] = "DelHeader" /\ job' = job /\ mounted' = mounted
      /\ \A v \in Workers : v # w => at'[v] = at[v]
  BY <1>1, GoesShape DEF LockInv
<1>7. /\ LocalsOK' /\ Others(w) /\ Slot(w) = <<d, m>> /\ Dir(w)' = d
  BY <1>0, <1>1, <1>6, NoLocals DEF WorkersOK, Others, SameLocals, Slot, Dir
<1>8. SameTree
  BY <1>1 DEF SameTree
<1>9. StoresOK'
  <2>1. IsStore(child', Keys, Paths)
    BY <1>1, CacheDeleteStore DEF TreeOK, StoresOK
  <2> QED
    BY <1>1, <1>6, <2>1 DEF TreeOK, StoresOK, IsDir, Exists, IsStore
<1>10. Footprint(w)
  <2>1. \A k : k[1] \notin Holds(w) => k # <<d, m>>
    BY <1>2
  <2> QED
    BY <1>1, <1>5, <2>1 DEF Footprint
<1>11. /\ \A k : /\ Uncounts(w, k) => k = <<d, m>>
                 /\ Moves(w, k) => k = <<d, m>>
                 /\ ~Bears(w, k) /\ ~Spares(w, k) /\ ~Counts(w, k)
                 /\ Drops(w, k) => Drops(w, k)'
       /\ \A q, i : ~Adds(w, q, i)
       /\ Drops(w, p)'
  BY <1>0, <1>1, <1>6, <1>7 DEF Uncounts, Counts, Bears, Moves, Drops, Spares, Adds
<1>12. BucketsOK' /\ AttrsOK'
  BY <1>1, <1>7, <1>8, <1>11, BucketsKept, AttrsSame DEF TreeOK
<1>13. \A v \in Workers : \A k : /\ Uncounts(v, k) => k = <<d, m>> \/ Uncounts(v, k)'
                                 /\ Moves(v, k) => k = <<d, m>> \/ Moves(v, k)'
                                 /\ Bears(v, k) => Bears(v, k)'
                                 /\ Counts(v, k) => Counts(v, k)'
                                 /\ Drops(v, k) => Drops(v, k)'
  BY <1>7, <1>11, SameNotes DEF Others
<1>14. CountsOK'
  <2>1. ASSUME NEW k \in DOMAIN child'
        PROVE  IsDir(k[1]) /\ (k[2] <= hdr[k[1]].num_buckets \/ \E v \in Workers : Uncounts(v, k)')
    BY <1>5, <1>13 DEF TreeOK, CountsOK
  <2>2. ASSUME NEW x \in DOMAIN hdr, IsDir(x), NEW i \in 1 .. hdr[x].num_buckets
        PROVE  <<x, i>> \in DOMAIN child' \/ \E v \in Workers : Counts(v, <<x, i>>)'
    <3>1. <<x, i>> # <<d, m>>
      BY <1>3, <1>4
    <3> QED
      BY <1>5, <1>13, <2>2, <3>1 DEF TreeOK, CountsOK
  <2> QED
    BY <1>1, <2>1, <2>2 DEF CountsOK, IsDir, Exists
<1>15. ChildrenOK'
  <2>1. ASSUME NEW k \in DOMAIN child'
        PROVE  /\ child[k] # Root /\ Parent(child[k]) = k[1]
               /\ \/ /\ Exists(child[k])
                     /\ SlotOf(child[k]) = k[2] \/ \E v \in Workers : Moves(v, k)'
                  \/ \E v \in Workers : Bears(v, k)'
    BY <1>5, <1>13 DEF TreeOK, ChildrenOK
  <2> QED
    BY <1>1, <1>5, <2>1 DEF ChildrenOK, Exists, SlotOf
<1>16. PathsOK'
  <2>1. ASSUME NEW q \in DOMAIN hdr \ {Root}
        PROVE  /\ IsDir(Parent(q))
               /\ \/ /\ <<Parent(q), SlotOf(q)>> \in DOMAIN child'
                     /\ child'[<<Parent(q), SlotOf(q)>>] = q
                  \/ \E v \in Workers : Drops(v, q)'
    <3>1. CASE q = t /\ o = m
      BY <1>3, <1>11, <3>1 DEF TreeOK, PathsOK
    <3>2. CASE ~(q = t /\ o = m)
      <4>1. child[<<Parent(q), SlotOf(q)>>] = q => <<Parent(q), SlotOf(q)>> # <<d, m>>
        BY <1>3, <3>2
      <4> QED
        BY <1>5, <1>13, <4>1 DEF TreeOK, PathsOK
    <3> QED
      BY <3>1, <3>2
  <2> QED
    BY <1>1, <2>1 DEF PathsOK, IsDir, Exists, SlotOf
<1>17. WorkerOK(w)'
  <2>1. ASSUME NEW k \in DOMAIN child', k[1] = d PROVE child'[k] # p
    <3>1. k \in DOMAIN child /\ k # <<d, m>> /\ child'[k] = child[k] /\ k = <<d, k[2]>>
      BY <1>5, <2>1, KeyIs
    <3>2. \A v \in Workers : ~Moves(v, k) /\ ~Bears(v, k)
      BY <1>2, <1>11, <2>1, <3>1, MineAlone DEF LockInv
    <3>3. SlotOf(child[k]) = k[2]
      BY <3>1, <3>2 DEF TreeOK, ChildrenOK
    <3>4. ASSUME child[k] = p PROVE FALSE
      <4>1. k = <<d, SlotOf(p)>>
        BY <3>1, <3>3, <3>4
      <4>2. SlotOf(p) = o
        BY <1>0, <1>1, <1>2 DEF RemoverOK, SlotOf
      <4>3. t = p
        BY <1>3, <3>4, <4>1, <4>2
      <4> QED
        BY <1>3, <3>1, <4>1, <4>2, <4>3
    <3> QED
      BY <3>1, <3>4
  <2>2. RemoverOK(w)'
    BY <1>0, <1>1, <1>2, <1>3, <1>6, <1>7, <2>1, ZenonT(60) DEF RemoverOK, Exists, IsDir
  <2> QED
    BY <1>6, <2>2 DEF WorkerOK
<1> QED
  BY <1>7, <1>9, <1>10, <1>12, <1>14, <1>15, <1>16, <1>17, StepKeeps DEF LockInv, TreeOK

------------------------------------------------------------------------------
(* Steps that only read, and the last of hello_unlink.                      *)

LEMMA GetCountKeeps ==
  ASSUME LockInv, TreeOK, WorkersOK, NEW w \in Workers, GetCount(w)
  PROVE  TreeOK' /\ WorkersOK'
<1>0. PICK p, d, h : p = job[w].p /\ d = Dir(w) /\ h = hdr[d]
  OBVIOUS
<1>1. /\ at[w] = "GetCount" /\ copy' = [copy EXCEPT ![w] = h] /\ Goes(w, "SetLess")
      /\ stores' = stores /\ mem' = mem
  BY <1>0 DEF GetCount, Dir
<1>2. WorkerOK(w) /\ RemoverOK(w)
  BY <1>1 DEF WorkersOK, WorkerOK
<1>3. h \in Header
  BY <1>0, <1>2, HeaderIs DEF RemoverOK, IsDir
<1>4. /\ at'[w] = "SetLess" /\ job' = job /\ mounted' = mounted
      /\ \A v \in Workers : v # w => at'[v] = at[v]
  BY <1>1, GoesShape DEF LockInv
<1>5. /\ LocalsOK' /\ copy'[w] = h /\ mem'[w] = mem[w]
      /\ \A v \in Workers : v # w => copy'[v] = copy[v] /\ mem'[v] = mem[v]
  <2>1. LocalsOK /\ copy' = [copy EXCEPT ![w] = h] /\ mem' = mem
    BY <1>1 DEF WorkersOK
  <2> QED
    BY <1>3, <2>1, PutCopy
<1>6. Others(w)
  BY <1>4, <1>5 DEF Others, SameLocals
<1>7. TreeOK' /\ Footprint(w)
  <2>1. /\ \A k : ~Uncounts(w, k) /\ ~Counts(w, k) /\ ~Bears(w, k) /\ ~Moves(w, k) /\ ~Drops(w, k)
                  /\ ~Spares(w, k)
        /\ \A q, i : ~Adds(w, q, i)
    BY <1>1 DEF Uncounts, Counts, Bears, Moves, Drops, Spares, Adds
  <2> QED
    BY <1>1, <1>4, <1>6, <2>1, LookKeeps
<1>8. RemoverOK(w)'
  BY <1>0, <1>1, <1>2, <1>4, <1>5 DEF RemoverOK, IsDir, Exists, Dir, stores
<1>9. WorkerOK(w)'
  BY <1>4, <1>8 DEF WorkerOK
<1> QED
  BY <1>5, <1>6, <1>7, <1>9, StepKeeps DEF LockInv

LEMMA GetTenantKeeps ==
  ASSUME LockInv, TreeOK, WorkersOK, NEW w \in Workers, GetTenant(w)
  PROVE  TreeOK' /\ WorkersOK'
<1>0. PICK h : h = hdr[mem[w].who]
  OBVIOUS
<1>1. /\ at[w] = "GetTenant" /\ copy' = [copy EXCEPT ![w] = h] /\ Goes(w, "SetTenant")
      /\ stores' = stores /\ mem' = mem
  BY <1>0 DEF GetTenant
<1>2. WorkerOK(w) /\ RemoverOK(w)
  BY <1>1 DEF WorkersOK, WorkerOK
<1>3. h \in Header
  BY <1>0, <1>1, <1>2, HeaderIs DEF RemoverOK
<1>4. /\ at'[w] = "SetTenant" /\ job' = job /\ mounted' = mounted
      /\ \A v \in Workers : v # w => at'[v] = at[v]
  BY <1>1, GoesShape DEF LockInv
<1>5. /\ LocalsOK' /\ copy'[w] = h /\ mem'[w] = mem[w]
      /\ \A v \in Workers : v # w => copy'[v] = copy[v] /\ mem'[v] = mem[v]
  <2>1. LocalsOK /\ copy' = [copy EXCEPT ![w] = h] /\ mem' = mem
    BY <1>1 DEF WorkersOK
  <2> QED
    BY <1>3, <2>1, PutCopy
<1>6. Others(w) /\ Dir(w)' = Dir(w) /\ Slot(w)' = Slot(w) /\ Hole(w)' = Hole(w)
  BY <1>4, <1>5 DEF Others, SameLocals, Dir, Slot, Hole
<1>7. TreeOK' /\ Footprint(w)
  <2>1. /\ \A k : /\ Uncounts(w, k) => Uncounts(w, k)'
                  /\ Moves(w, k) => Moves(w, k)'
                  /\ Drops(w, k) => Drops(w, k)'
                  /\ ~Counts(w, k) /\ ~Bears(w, k) /\ ~Spares(w, k)
        /\ \A q, i : ~Adds(w, q, i)
    BY <1>1, <1>4, <1>6 DEF Uncounts, Counts, Bears, Moves, Drops, Spares, Adds
  <2> QED
    BY <1>1, <1>4, <1>6, <2>1, LookKeeps
<1>8. RemoverOK(w)'
  BY <1>0, <1>1, <1>2, <1>4, <1>5, <1>6 DEF RemoverOK, IsDir, Exists, SlotOf, stores
<1>9. WorkerOK(w)'
  BY <1>4, <1>8 DEF WorkerOK
<1> QED
  BY <1>5, <1>6, <1>7, <1>9, StepKeeps DEF LockInv

LEMMA UnlinkEndsKeeps ==
  ASSUME LockInv, TreeOK, WorkersOK, NEW w \in Workers, UnlinkEnds(w)
  PROVE  TreeOK' /\ WorkersOK'
<1>1. /\ at[w] = "DelKeys" /\ Ends(w, "ok") /\ stores' = stores
      /\ mem[w].i > mem[w].own.xattr_num + mem[w].own.num_buckets
  BY DEF UnlinkEnds
<1>2. at'[w] = "idle" /\ mounted' = mounted /\ Others(w) /\ LocalsOK' /\ WorkerOK(w)'
  BY <1>1, EndsShape DEF LockInv, WorkersOK
<1>3. mem[w].i \in Int /\ mem[w].own.xattr_num \in Int /\ mem[w].own.num_buckets \in Nat
  BY DEF WorkersOK, LocalsOK, Header
<1>4. \A k \in data : k[2] \in Nat
  BY DEF TreeOK, StoresOK, Keys
<1>5. \A k \in data : ~Spares(w, k)
  BY <1>1, <1>3, <1>4 DEF Spares
<1>6. /\ \A k : ~Uncounts(w, k) /\ ~Counts(w, k) /\ ~Bears(w, k) /\ ~Moves(w, k) /\ ~Drops(w, k)
      /\ \A q, i : ~Adds(w, q, i)
  BY <1>1 DEF Uncounts, Counts, Bears, Moves, Drops, Adds
<1>7. TreeOK' /\ Footprint(w)
  BY <1>1, <1>2, <1>5, <1>6, LookKeeps
<1> QED
  BY <1>2, <1>7, StepKeeps DEF LockInv

------------------------------------------------------------------------------
(* A path appears, a path goes.                                             *)

LEMMA SetHeaderKeeps ==
  ASSUME LockInv, TreeOK, WorkersOK, NEW w \in Workers, SetHeader(w), ~clashed'
  PROVE  TreeOK' /\ WorkersOK'
<1>0. PICK p, d, m : p = job[w].p /\ d = Dir(w) /\ m = mem[w].i
  OBVIOUS
<1>1. at[w] = "SetHeader" /\ Ends(w, "ok")
  BY DEF SetHeader
<1>2. WorkerOK(w) /\ MakerOK(w) /\ d \in Holds(w)
  BY <1>0, <1>1, InHand DEF WorkersOK, WorkerOK
<1>3. /\ p \in Paths /\ p # Root /\ ~Exists(p) /\ IsDir(d) /\ Parent(p) = d /\ m \in Int
      /\ m = hdr[d].num_buckets /\ m >= 1 /\ <<d, m>> \in DOMAIN child /\ child[<<d, m>>] = p
  BY <1>0, <1>1, <1>2 DEF MakerOK, Slot, Dir, WorkersOK, LocalsOK
<1>4. PICK h \in Header : /\ PutHeader(w, p, h) /\ h.num_buckets = 0 /\ h.parent_index = m
                          /\ h.is_dir = 0 => h.xattr_num = 0
  <2>1. CASE job[w].op = "mkdir"
    <3>1. PICK g \in Uninit : PutHeader(w, p, NewDirHeader(m, g))
      BY <1>0, <2>1 DEF SetHeader
    <3>2. /\ NewDirHeader(m, g) \in Header /\ NewDirHeader(m, g).num_buckets = 0
          /\ NewDirHeader(m, g).parent_index = m /\ NewDirHeader(m, g).is_dir = 1
      BY <1>3, CacheFSAssumption DEF NewDirHeader, Header
    <3> QED
      BY <3>1, <3>2
  <2>2. CASE job[w].op # "mkdir"
    <3>1. PutHeader(w, p, NewFileHeader(m))
      BY <1>0, <2>2 DEF SetHeader
    <3>2. /\ NewFileHeader(m) \in Header /\ NewFileHeader(m).num_buckets = 0
          /\ NewFileHeader(m).parent_index = m /\ NewFileHeader(m).xattr_num = 0
      BY <1>3 DEF NewFileHeader, Header
    <3> QED
      BY <3>1, <3>2
  <2> QED
    BY <2>1, <2>2
<1>5. /\ hdr' = CacheSet(hdr, p, h) /\ stats' = stats
      /\ child' = child /\ data' = data /\ xattr' = xattr
  BY <1>4 DEF PutHeader
<1>6. /\ DOMAIN hdr' = DOMAIN hdr \cup {p} /\ hdr'[p] = h /\ p \notin DOMAIN hdr
      /\ \A x \in DOMAIN hdr : hdr'[x] = hdr[x]
  BY <1>3, <1>5 DEF CacheSet, Exists
<1>7. \A x \in DOMAIN hdr : x # p /\ (IsDir(x)' <=> IsDir(x)) /\ (IsFile(x)' <=> IsFile(x))
  BY <1>6 DEF IsDir, IsFile, Exists
<1>8. at'[w] = "idle" /\ mounted' = mounted /\ Others(w) /\ LocalsOK' /\ WorkerOK(w)'
  BY <1>1, EndsShape DEF LockInv, WorkersOK
<1>9. StoresOK'
  <2>1. IsStore(hdr', Paths, Header)
    BY <1>3, <1>5, CacheSetStore DEF TreeOK, StoresOK
  <2> QED
    BY <1>5, <1>7, <1>8, <2>1 DEF TreeOK, StoresOK, IsStore, IsDir, Exists
<1>10. Footprint(w)
  <2>1. /\ \A x \in DOMAIN hdr : x \in DOMAIN hdr' /\ hdr'[x] = hdr[x]
        /\ \A x \in DOMAIN hdr' : x \notin DOMAIN hdr => x # Root /\ Parent(x) \in Holds(w)
    BY <1>2, <1>3, <1>6
  <2> QED
    BY <1>5, <2>1 DEF Footprint
<1>11. /\ \A k : /\ ~Uncounts(w, k) /\ ~Counts(w, k) /\ ~Moves(w, k) /\ ~Drops(w, k) /\ ~Spares(w, k)
                 /\ Bears(w, k) => k = <<d, m>>
       /\ \A q, i : ~Adds(w, q, i)
  BY <1>0, <1>1 DEF Uncounts, Counts, Bears, Moves, Drops, Spares, Adds, Slot
<1>12. /\ \A v \in Workers : \A k : /\ Uncounts(v, k) => Uncounts(v, k)'
                                    /\ Counts(v, k) => Counts(v, k)'
                                    /\ Moves(v, k) => Moves(v, k)'
                                    /\ Drops(v, k) => Drops(v, k)'
                                    /\ Spares(v, k) => Spares(v, k)'
                                    /\ Bears(v, k) => k = <<d, m>> \/ Bears(v, k)'
       /\ \A v \in Workers : \A q, i : Adds(v, q, i) => Adds(v, q, i)'
  BY <1>8, <1>11, SameNotes DEF Others
<1>13. CountsOK'
  <2>1. ASSUME NEW k \in DOMAIN child
        PROVE  IsDir(k[1])' /\ (k[2] <= hdr'[k[1]].num_buckets \/ \E v \in Workers : Uncounts(v, k)')
    BY <1>6, <1>7, <1>12 DEF TreeOK, CountsOK, IsDir, Exists
  <2>2. ASSUME NEW x \in DOMAIN hdr', IsDir(x)', NEW i \in 1 .. hdr'[x].num_buckets
        PROVE  <<x, i>> \in DOMAIN child \/ \E v \in Workers : Counts(v, <<x, i>>)'
    <3>1. x # p
      BY <1>4, <1>6
    <3> QED
      BY <1>6, <1>7, <1>12, <2>2, <3>1 DEF TreeOK, CountsOK
  <2> QED
    BY <1>5, <2>1, <2>2 DEF CountsOK
<1>14. ChildrenOK'
  <2>1. ASSUME NEW k \in DOMAIN child
        PROVE  /\ child[k] # Root /\ Parent(child[k]) = k[1]
               /\ \/ /\ child[k] \in DOMAIN hdr'
                     /\ hdr'[child[k]].parent_index = k[2] \/ \E v \in Workers : Moves(v, k)'
                  \/ \E v \in Workers : Bears(v, k)'
    <3>1. CASE k # <<d, m>>
      BY <1>6, <1>12, <3>1 DEF TreeOK, ChildrenOK, Exists, SlotOf
    <3>2. CASE k = <<d, m>>
      <4>1. k[2] = m /\ child[k] = p /\ p \in DOMAIN hdr'
        BY <1>3, <1>6, <3>2
      <4> QED
        BY <1>4, <1>6, <4>1 DEF TreeOK, ChildrenOK
    <3> QED
      BY <3>1, <3>2
  <2> QED
    BY <1>5, <2>1 DEF ChildrenOK, SlotOf, Exists
<1>15. PathsOK'
  <2>1. ASSUME NEW q \in DOMAIN hdr', q # Root
        PROVE  /\ IsDir(Parent(q))'
               /\ \/ /\ <<Parent(q), hdr'[q].parent_index>> \in DOMAIN child
                     /\ child[<<Parent(q), hdr'[q].parent_index>>] = q
                  \/ \E v \in Workers : Drops(v, q)'
    <3>1. CASE q = p
      BY <1>3, <1>4, <1>6, <1>7, <3>1 DEF IsDir, Exists
    <3>2. CASE q # p
      <4>1. q \in DOMAIN hdr /\ hdr'[q] = hdr[q] /\ IsDir(Parent(q))
        BY <1>6, <2>1, <3>2 DEF TreeOK, PathsOK
      <4>2. IsDir(Parent(q))'
        BY <1>7, <4>1 DEF IsDir, Exists
      <4> QED
        BY <1>12, <2>1, <4>1, <4>2 DEF TreeOK, PathsOK, SlotOf
    <3> QED
      BY <3>1, <3>2
  <2> QED
    BY <1>5, <2>1 DEF PathsOK, SlotOf
<1>16. BucketsOK'
  <2>1. ASSUME NEW k \in data
        PROVE  \/ IsFile(k[1])' /\ k[2] <= hdr'[k[1]].num_buckets
               \/ \E v \in Workers : Spares(v, k)'
    BY <1>6, <1>7, <1>12 DEF TreeOK, BucketsOK, IsFile, Exists
  <2>2. ASSUME NEW q \in DOMAIN hdr', IsFile(q)', NEW i \in 1 .. hdr'[q].num_buckets
        PROVE  <<q, i>> \in data
    <3>1. q # p
      BY <1>4, <1>6
    <3> QED
      BY <1>6, <1>7, <2>2, <3>1 DEF TreeOK, BucketsOK, DataKeysOf
  <2> QED
    BY <1>5, <2>1, <2>2 DEF BucketsOK, DataKeysOf
<1>17. AttrsOK'
  <2>1. ASSUME NEW q \in DOMAIN hdr', IsFile(q)'
        PROVE  /\ hdr'[q].xattr_num >= 0
               /\ \A i \in 1 .. hdr'[q].xattr_num :
                    AttrThere(q, i) \/ \E v \in Workers : Adds(v, q, i)'
    <3>1. CASE q = p
      BY <1>4, <1>6, <2>1, <3>1 DEF IsFile
    <3>2. CASE q # p
      BY <1>6, <1>7, <1>12, <2>1, <3>2 DEF TreeOK, AttrsOK
    <3> QED
      BY <3>1, <3>2
  <2> QED
    BY <1>5, <2>1 DEF AttrsOK, AttrThere
<1> QED
  BY <1>8, <1>9, <1>10, <1>13, <1>14, <1>15, <1>16, <1>17, StepKeeps DEF LockInv, TreeOK

LEMMA DelHeaderKeeps ==
  ASSUME LockInv, TreeOK, WorkersOK, NEW w \in Workers, DelHeader(w)
  PROVE  TreeOK' /\ WorkersOK'
<1>0. PICK p, d, b, a, unlink :
        /\ p = job[w].p /\ d = Dir(w) /\ b = mem[w].own.num_buckets /\ a = mem[w].own.xattr_num
        /\ unlink = (job[w].op # "rmdir")
  OBVIOUS
<1>1. /\ at[w] = "DelHeader" /\ hdr' = CacheDelete(hdr, {p})
      /\ stats' = stats /\ child' = child /\ data' = data /\ xattr' = xattr
  BY <1>0 DEF DelHeader
<1>2. WorkerOK(w) /\ RemoverOK(w) /\ d \in Holds(w) /\ p \in Holds(w)
  BY <1>0, <1>1, InHand DEF WorkersOK, WorkerOK
<1>3. /\ Exists(p) /\ p # Root /\ IsDir(d) /\ Parent(p) = d
      /\ hdr[p].num_buckets = b /\ hdr[p].xattr_num = a
      /\ \A k \in DOMAIN child : k[1] = d => child[k] # p
      /\ \/ job[w].op = "rmdir" /\ hdr[p].is_dir = 1 /\ b <= 0
         \/ job[w].op = "unlink" /\ hdr[p].is_dir = 0
  BY <1>0, <1>1, <1>2 DEF RemoverOK, Dir
<1>4. p \in Paths /\ p # d /\ b \in Nat /\ a \in Int
  BY <1>3, HeaderIs, ParentIsPath
<1>5. /\ DOMAIN hdr' = DOMAIN hdr \ {p} /\ \A x \in DOMAIN hdr' : hdr'[x] = hdr[x]
  BY <1>1 DEF CacheDelete
<1>6. \A x \in DOMAIN hdr' : (IsDir(x)' <=> IsDir(x)) /\ (IsFile(x)' <=> IsFile(x))
  BY <1>5 DEF IsDir, IsFile, Exists
<1>7. /\ mounted' = mounted /\ Others(w) /\ LocalsOK' /\ WorkerOK(w)'
      /\ job[w].op = "rmdir" => at'[w] = "idle"
      /\ job[w].op = "unlink" =>
           /\ at'[w] = "DelKeys" /\ job' = job
           /\ mem'[w].own = mem[w].own /\ mem'[w].i = 1
  <2>1. CASE job[w].op = "rmdir"
    <3>1. Ends(w, "ok")
      BY <2>1 DEF DelHeader
    <3> QED
      BY <2>1, <3>1, EndsShape DEF LockInv, WorkersOK
  <2>2. CASE job[w].op = "unlink"
    <3>1. Goes(w, "DelKeys") /\ mem' = [mem EXCEPT ![w].i = 1] /\ copy' = copy
      BY <2>2 DEF DelHeader
    <3>2. /\ at'[w] = "DelKeys" /\ job' = job /\ mounted' = mounted
          /\ \A v \in Workers : v # w => at'[v] = at[v]
      BY <3>1, GoesShape DEF LockInv
    <3>3. /\ LocalsOK' /\ mem'[w].own = mem[w].own /\ mem'[w].i = 1
          /\ \A v \in Workers : v # w => copy'[v] = copy[v] /\ mem'[v] = mem[v]
      <4>1. LocalsOK /\ 1 \in Int /\ copy' = copy /\ mem' = [mem EXCEPT ![w].i = 1]
        BY <3>1 DEF WorkersOK
      <4> QED
        BY <4>1, OnlyI
    <3>4. a >= 0
      BY <1>3, <2>2 DEF TreeOK, AttrsOK, IsFile, Exists
    <3>5. p \notin DOMAIN hdr'
      BY <1>5
    <3>6. DeleterOK(w)'
      BY <1>0, <1>3, <2>2, <3>2, <3>3, <3>4, <3>5 DEF DeleterOK, Exists
    <3> QED
      BY <2>2, <3>2, <3>3, <3>6 DEF Others, SameLocals, WorkerOK
  <2> QED
    BY <1>3, <2>1, <2>2
\* Nothing is below p: it is a file, or counts no children.
<1>8. ASSUME NEW k \in DOMAIN child PROVE k[1] # p /\ child[k] # p
  <2>1. ASSUME k[1] = p PROVE FALSE
    <3>1. \A v \in Workers : ~Uncounts(v, k)
      BY <1>1, <1>2, <2>1, MineAlone DEF LockInv, Uncounts
    <3>2. hdr[p].is_dir = 1 /\ k[2] <= b
      BY <1>3, <2>1, <3>1 DEF TreeOK, CountsOK, IsDir
    <3>3. k[2] \in Nat /\ k[2] >= 1
      BY KeyIs
    <3> QED
      BY <1>3, <1>4, <3>2, <3>3
  <2>2. child[k] = p => k[1] = d
    BY <1>3 DEF TreeOK, ChildrenOK
  <2> QED
    BY <1>3, <2>1, <2>2
<1>9. ASSUME NEW q \in DOMAIN hdr, q # Root PROVE Parent(q) # p
  <2> SUFFICES ASSUME Parent(q) = p PROVE FALSE
    OBVIOUS
  <2>1. \A v \in Workers : ~Drops(v, q)
    <3>1. \A v \in Workers : v # w => ~Drops(v, q)
      BY <1>2, <1>9, MineAlone DEF LockInv
    <3>2. ~Drops(w, q)
      BY <1>0, <1>3, <1>4 DEF Drops
    <3> QED
      BY <3>1, <3>2
  <2>2. PICK k : k = <<Parent(q), SlotOf(q)>>
    OBVIOUS
  <2>3. k \in DOMAIN child /\ k[1] = p
    BY <1>9, <2>1, <2>2 DEF TreeOK, PathsOK
  <2> QED
    BY <1>8, <2>3
<1>10. StoresOK'
  <2>1. IsStore(hdr', Paths, Header)
    BY <1>1, CacheDeleteStore DEF TreeOK, StoresOK
  <2>2. IsDir(Root)'
    BY <1>3, <1>5 DEF TreeOK, StoresOK, IsDir, Exists
  <2> QED
    BY <1>1, <1>7, <2>1, <2>2 DEF TreeOK, StoresOK, IsStore
<1>11. Footprint(w)
  <2>1. /\ \A x \in DOMAIN hdr : x \notin DOMAIN hdr' => x = p
        /\ \A x \in DOMAIN hdr' : x \in DOMAIN hdr /\ hdr'[x] = hdr[x]
    BY <1>5
  <2> QED
    BY <1>1, <1>2, <1>3, <2>1 DEF Footprint
<1>12. /\ \A k : /\ ~Uncounts(w, k) /\ ~Counts(w, k) /\ ~Moves(w, k) /\ ~Bears(w, k) /\ ~Spares(w, k)
                 /\ Drops(w, k) => k = p
       /\ \A q, i : ~Adds(w, q, i)
  BY <1>0, <1>1 DEF Uncounts, Counts, Bears, Moves, Drops, Spares, Adds
<1>13. /\ \A v \in Workers : \A k : /\ Uncounts(v, k) => Uncounts(v, k)'
                                    /\ Counts(v, k) => Counts(v, k)'
                                    /\ Moves(v, k) => Moves(v, k)'
                                    /\ Bears(v, k) => Bears(v, k)'
                                    /\ Spares(v, k) => Spares(v, k)'
                                    /\ Drops(v, k) => k = p \/ Drops(v, k)'
       /\ \A v \in Workers : \A q, i : Adds(v, q, i) => Adds(v, q, i)'
  BY <1>7, <1>12, SameNotes DEF Others
<1>14. CountsOK'
  <2>1. ASSUME NEW k \in DOMAIN child
        PROVE  IsDir(k[1])' /\ (k[2] <= hdr'[k[1]].num_buckets \/ \E v \in Workers : Uncounts(v, k)')
    <3>1. k[1] \in DOMAIN hdr'
      BY <1>5, <1>8 DEF TreeOK, CountsOK, IsDir, Exists
    <3> QED
      BY <1>5, <1>6, <1>13, <3>1 DEF TreeOK, CountsOK
  <2>2. ASSUME NEW x \in DOMAIN hdr', IsDir(x)', NEW i \in 1 .. hdr'[x].num_buckets
        PROVE  <<x, i>> \in DOMAIN child \/ \E v \in Workers : Counts(v, <<x, i>>)'
    BY <1>5, <1>6, <1>13, <2>2 DEF TreeOK, CountsOK
  <2> QED
    BY <1>1, <2>1, <2>2 DEF CountsOK
<1>15. ChildrenOK'
  <2>1. ASSUME NEW k \in DOMAIN child
        PROVE  /\ child[k] # Root /\ Parent(child[k]) = k[1]
               /\ \/ /\ child[k] \in DOMAIN hdr'
                     /\ hdr'[child[k]].parent_index = k[2] \/ \E v \in Workers : Moves(v, k)'
                  \/ \E v \in Workers : Bears(v, k)'
    BY <1>5, <1>8, <1>13 DEF TreeOK, ChildrenOK, Exists, SlotOf
  <2> QED
    BY <1>1, <2>1 DEF ChildrenOK, SlotOf, Exists
<1>16. PathsOK'
  <2>1. ASSUME NEW q \in DOMAIN hdr', q # Root
        PROVE  /\ IsDir(Parent(q))'
               /\ \/ /\ <<Parent(q), hdr'[q].parent_index>> \in DOMAIN child
                     /\ child[<<Parent(q), hdr'[q].parent_index>>] = q
                  \/ \E v \in Workers : Drops(v, q)'
    <3>1. q \in DOMAIN hdr /\ q # p /\ hdr'[q] = hdr[q] /\ IsDir(Parent(q)) /\ Parent(q) # p
      BY <1>5, <1>9, <2>1 DEF TreeOK, PathsOK
    <3>2. IsDir(Parent(q))'
      BY <1>5, <1>6, <3>1 DEF IsDir, Exists
    <3> QED
      BY <1>13, <2>1, <3>1, <3>2 DEF TreeOK, PathsOK, SlotOf
  <2> QED
    BY <1>1, <2>1 DEF PathsOK, SlotOf
<1>17. BucketsOK'
  <2>1. ASSUME NEW k \in data
        PROVE  \/ IsFile(k[1])' /\ k[2] <= hdr'[k[1]].num_buckets
               \/ \E v \in Workers : Spares(v, k)'
    <3>1. CASE k[1] # p
      BY <1>5, <1>6, <1>13, <3>1 DEF TreeOK, BucketsOK, IsFile, Exists
    <3>2. CASE k[1] = p
      <4>1. \A v \in Workers : ~Spares(v, k)
        BY <1>2, <1>12, <3>2, MineAlone DEF LockInv
      <4>2. hdr[p].is_dir = 0 /\ k[2] <= b
        BY <1>3, <3>2, <4>1 DEF TreeOK, BucketsOK, IsFile
      <4>3. k[2] \in Nat /\ k[2] >= 1 /\ a >= 0
        BY <1>3, <4>2 DEF TreeOK, StoresOK, Keys, AttrsOK, IsFile, Exists
      <4>4. job[w].op = "unlink" /\ k[2] + a >= 1
        BY <1>3, <1>4, <4>2, <4>3
      <4>5. Spares(w, k)'
        BY <1>0, <1>7, <3>2, <4>2, <4>4 DEF Spares
      <4> QED
        BY <4>5
    <3> QED
      BY <3>1, <3>2
  <2>2. ASSUME NEW q \in DOMAIN hdr', IsFile(q)', NEW i \in 1 .. hdr'[q].num_buckets
        PROVE  <<q, i>> \in data
    BY <1>5, <1>6, <2>2 DEF TreeOK, BucketsOK, DataKeysOf
  <2> QED
    BY <1>1, <2>1, <2>2 DEF BucketsOK, DataKeysOf
<1>18. AttrsOK'
  <2>1. ASSUME NEW q \in DOMAIN hdr', IsFile(q)'
        PROVE  /\ hdr'[q].xattr_num >= 0
               /\ \A i \in 1 .. hdr'[q].xattr_num :
                    AttrThere(q, i) \/ \E v \in Workers : Adds(v, q, i)'
    BY <1>5, <1>6, <1>13, <2>1 DEF TreeOK, AttrsOK
  <2> QED
    BY <1>1, <2>1 DEF AttrsOK, AttrThere
<1> QED
  BY <1>7, <1>10, <1>11, <1>14, <1>15, <1>16, <1>17, <1>18, StepKeeps DEF LockInv, TreeOK

------------------------------------------------------------------------------
(* Buckets and attributes stored and deleted.                               *)

\* The headers and children are as they were.
LEMMA TreeSame ==
  ASSUME TreeOK, NEW w \in Workers, Others(w),
         stats' = stats, hdr' = hdr, child' = child, mounted' = mounted,
         \A k : ~Uncounts(w, k) /\ ~Counts(w, k) /\ ~Bears(w, k) /\ ~Moves(w, k) /\ ~Drops(w, k)
  PROVE  /\ SameTree /\ CountsOK' /\ ChildrenOK' /\ PathsOK'
         /\ data' \subseteq Keys /\ IsStore(xattr', AttrKeys, Attr) => StoresOK'
         /\ \A x : IsFile(x)' <=> IsFile(x)
<1>1. SameTree
  BY DEF SameTree
<1>2. CountsOK' /\ ChildrenOK' /\ PathsOK'
  BY <1>1, CountsKept, ChildrenKept, PathsKept DEF TreeOK
<1>3. data' \subseteq Keys /\ IsStore(xattr', AttrKeys, Attr) => StoresOK'
  BY DEF TreeOK, StoresOK, IsStore, IsDir, Exists
<1> QED
  BY <1>1, <1>2, <1>3 DEF IsFile, Exists

\* Only attributes of p change.
LEMMA OtherAttrsKept ==
  ASSUME AttrsOK, NEW w \in Workers, Others(w), hdr' = hdr, NEW p,
         \A q, i : q # p => ~Adds(w, q, i),
         \A k : k[1] # p => /\ k \in DOMAIN xattr => k \in DOMAIN xattr'
                            /\ k \in DOMAIN xattr => xattr'[k] = xattr[k],
         IsFile(p) => \A i \in 1 .. hdr[p].xattr_num :
                        AttrThere(p, i)' \/ \E v \in Workers : Adds(v, p, i)'
  PROVE  AttrsOK'
<1>1. ASSUME NEW q \in DOMAIN hdr, IsFile(q), NEW i \in 1 .. hdr[q].xattr_num
      PROVE  AttrThere(q, i)' \/ \E v \in Workers : Adds(v, q, i)'
  <2>1. CASE q = p
    BY <1>1, <2>1
  <2>2. CASE q # p
    <3>1. PICK k : k = <<q, i>>
      OBVIOUS
    <3>2. k[1] # p
      BY <2>2, <3>1
    <3>3. AttrThere(q, i) => AttrThere(q, i)'
      BY <3>1, <3>2 DEF AttrThere
    <3>4. \A v \in Workers : Adds(v, q, i) => Adds(v, q, i)'
      BY <2>2, SameNotes DEF Others
    <3> QED
      BY <1>1, <3>3, <3>4 DEF AttrsOK
  <2> QED
    BY <2>1, <2>2
<1> QED
  BY <1>1 DEF AttrsOK, IsFile, Exists

LEMMA DelKeysKeeps ==
  ASSUME LockInv, TreeOK, WorkersOK, NEW w \in Workers, DelKeys(w)
  PROVE  TreeOK' /\ WorkersOK'
<1>0. PICK p, a, b, i : /\ p = job[w].p /\ a = mem[w].own.xattr_num
                        /\ b = mem[w].own.num_buckets /\ i = mem[w].i
  OBVIOUS
<1>1. /\ at[w] = "DelKeys" /\ Goes(w, "DelKeys") /\ mem' = [mem EXCEPT ![w].i = i + 1]
      /\ copy' = copy /\ stats' = stats /\ hdr' = hdr /\ child' = child
      /\ \/ i <= a /\ xattr' = CacheDelete(xattr, {<<p, i>>}) /\ data' = data
         \/ ~(i <= a) /\ data' = data \ {<<p, i - a>>} /\ xattr' = xattr
  BY <1>0 DEF DelKeys
<1>2. WorkerOK(w) /\ DeleterOK(w) /\ p \in Holds(w)
  BY <1>0, <1>1, InHand DEF WorkersOK, WorkerOK
<1>3. ~Exists(p) /\ i \in Nat /\ a \in Int /\ b \in Nat
  BY <1>0, <1>2 DEF DeleterOK, WorkersOK, LocalsOK, Header
<1>4. /\ at'[w] = "DelKeys" /\ job' = job /\ mounted' = mounted
      /\ \A v \in Workers : v # w => at'[v] = at[v]
  BY <1>1, GoesShape DEF LockInv
<1>5. /\ LocalsOK' /\ mem'[w].own = mem[w].own /\ mem'[w].i = i + 1
      /\ \A v \in Workers : v # w => copy'[v] = copy[v] /\ mem'[v] = mem[v]
  <2>1. LocalsOK /\ i + 1 \in Int /\ copy' = copy /\ mem' = [mem EXCEPT ![w].i = i + 1]
    BY <1>1, <1>3 DEF WorkersOK
  <2> QED
    BY <2>1, OnlyI
<1>6. Others(w)
  BY <1>4, <1>5 DEF Others, SameLocals
<1>7. /\ \A k : ~Uncounts(w, k) /\ ~Counts(w, k) /\ ~Bears(w, k) /\ ~Moves(w, k) /\ ~Drops(w, k)
      /\ \A q, n : ~Adds(w, q, n)
  BY <1>1 DEF Uncounts, Counts, Bears, Moves, Drops, Adds
<1>8. /\ data' \subseteq data /\ data' \subseteq Keys /\ IsStore(xattr', AttrKeys, Attr)
      /\ \A k : k[1] # p => /\ k \in data => k \in data'
                            /\ k \in DOMAIN xattr' <=> k \in DOMAIN xattr
                            /\ k \in DOMAIN xattr => xattr'[k] = xattr[k]
  <2>1. IsStore(xattr, AttrKeys, Attr) /\ data \subseteq Keys
    BY DEF TreeOK, StoresOK
  <2>2. \A k, n : k[1] # p => k # <<p, n>>
    OBVIOUS
  <2>3. CASE i <= a
    <3>1. IsStore(xattr', AttrKeys, Attr)
      BY <1>1, <2>1, <2>3, CacheDeleteStore
    <3>2. \A k : k[1] # p => /\ k \in DOMAIN xattr' <=> k \in DOMAIN xattr
                             /\ k \in DOMAIN xattr => xattr'[k] = xattr[k]
      BY <1>1, <2>2, <2>3 DEF CacheDelete
    <3> QED
      BY <1>1, <2>1, <2>3, <3>1, <3>2
  <2>4. CASE ~(i <= a)
    BY <1>1, <2>1, <2>2, <2>4
  <2> QED
    BY <2>3, <2>4
<1>9. /\ SameTree /\ CountsOK' /\ ChildrenOK' /\ PathsOK' /\ StoresOK'
      /\ \A x : IsFile(x)' <=> IsFile(x)
  BY <1>1, <1>4, <1>6, <1>7, <1>8, TreeSame
<1>10. BucketsOK'
  <2>1. ASSUME NEW k \in data', Spares(w, k) PROVE Spares(w, k)'
    <3>1. k \in data /\ k[1] = p /\ k[2] <= b /\ k[2] + a >= i /\ k = <<k[1], k[2]>> /\ k[2] \in Nat
          /\ k[2] >= 1
      BY <1>0, <1>1, <1>8, <2>1 DEF Spares, TreeOK, StoresOK, Keys
    <3>2. k[2] + a # i
      <4>1. CASE i <= a
        BY <1>3, <3>1, <4>1
      <4>2. CASE ~(i <= a)
        <5>1. k # <<p, i - a>>
          BY <1>1, <2>1, <4>2
        <5> QED
          BY <1>3, <3>1, <5>1
      <4> QED
        BY <4>1, <4>2
    <3>3. k[2] + a >= i + 1
      BY <1>3, <3>1, <3>2
    <3> QED
      BY <1>0, <1>4, <1>5, <3>1, <3>3 DEF Spares
  <2>2. ASSUME NEW k \in data'
        PROVE  \/ IsFile(k[1]) /\ k[2] <= hdr[k[1]].num_buckets
               \/ \E v \in Workers : Spares(v, k)'
    <3>1. \A v \in Workers : v # w => (Spares(v, k) => Spares(v, k)')
      BY <1>6, SameNotes DEF Others
    <3> QED
      BY <1>8, <2>1, <3>1 DEF TreeOK, BucketsOK
  <2>3. ASSUME NEW q \in DOMAIN hdr, IsFile(q), NEW n \in 1 .. hdr[q].num_buckets
        PROVE  <<q, n>> \in data'
    <3>1. PICK k : k = <<q, n>>
      OBVIOUS
    <3>2. k[1] # p
      BY <1>3, <3>1 DEF Exists
    <3>3. k \in data
      BY <2>3, <3>1 DEF TreeOK, BucketsOK, DataKeysOf
    <3> QED
      BY <1>8, <3>1, <3>2, <3>3
  <2> QED
    BY <1>1, <1>9, <2>2, <2>3 DEF BucketsOK, DataKeysOf
<1>11. AttrsOK'
  <2>1. ~IsFile(p)
    BY <1>3 DEF IsFile
  <2> QED
    BY <1>1, <1>6, <1>7, <1>8, <2>1, OtherAttrsKept DEF TreeOK
<1>12. Footprint(w)
  <2>1. \A k : k[1] \notin Holds(w) => k[1] # p
    BY <1>2
  <2> QED
    BY <1>1, <1>8, <2>1 DEF Footprint
<1>13. WorkerOK(w)'
  <2>1. DeleterOK(w)'
    BY <1>0, <1>1, <1>2, <1>3, <1>4, <1>5 DEF DeleterOK, Exists
  <2> QED
    BY <1>4, <2>1 DEF WorkerOK
<1> QED
  BY <1>5, <1>6, <1>9, <1>10, <1>11, <1>12, <1>13, StepKeeps DEF LockInv, TreeOK

LEMMA SetBucketKeeps ==
  ASSUME LockInv, TreeOK, WorkersOK, NEW w \in Workers, SetBucket(w)
  PROVE  TreeOK' /\ WorkersOK'
<1>0. PICK p, n, i, c : /\ p = job[w].p /\ n = copy[w].num_buckets + 1 /\ i = mem[w].i
                        /\ c = [copy[w] EXCEPT !.num_buckets = n]
  OBVIOUS
<1>1. /\ at[w] = "SetBucket" /\ i > 0 /\ Goes(w, "SetBucket")
      /\ stats' = stats /\ hdr' = hdr /\ child' = child /\ xattr' = xattr
      /\ data' = data \cup {<<p, n>>}
      /\ copy' = [copy EXCEPT ![w].num_buckets = n] /\ mem' = [mem EXCEPT ![w].i = @ - 1]
  BY <1>0 DEF SetBucket
<1>2. WorkerOK(w) /\ WriterOK(w) /\ p \in Holds(w)
  BY <1>0, <1>1, InHand DEF WorkersOK, WorkerOK
<1>3. /\ job[w].op = "write" /\ IsFile(p) /\ i \in Nat
      /\ copy[w] = [hdr[p] EXCEPT !.num_buckets = copy[w].num_buckets]
      /\ copy[w].num_buckets >= hdr[p].num_buckets
      /\ \A j \in hdr[p].num_buckets + 1 .. copy[w].num_buckets : <<p, j>> \in data
  BY <1>0, <1>2 DEF WriterOK
<1>4. copy[w] \in Header /\ hdr[p] \in Header /\ p \in Paths
  BY <1>3, HeaderIs DEF IsFile, WorkersOK, LocalsOK
<1>5. /\ c \in Header /\ c.num_buckets = n /\ n \in Nat /\ n >= 1 /\ copy[w].num_buckets \in Nat
      /\ copy[w].num_buckets + 1 = n /\ hdr[p].num_buckets \in Nat /\ n >= hdr[p].num_buckets
      /\ c = [hdr[p] EXCEPT !.num_buckets = n]
  BY <1>0, <1>3, <1>4 DEF Header
<1>6. /\ at'[w] = "SetBucket" /\ job' = job /\ mounted' = mounted
      /\ \A v \in Workers : v # w => at'[v] = at[v]
  BY <1>1, GoesShape DEF LockInv
<1>7. /\ LocalsOK' /\ copy'[w] = c /\ mem'[w].i = i - 1
      /\ \A v \in Workers : v # w => copy'[v] = copy[v] /\ mem'[v] = mem[v]
  <2>1. LocalsOK /\ c \in Header /\ copy' = [copy EXCEPT ![w] = c]
    BY <1>0, <1>1, <1>5 DEF WorkersOK
  <2>2. PICK j \in Int : j = i - 1
    BY <1>3
  <2>3. mem' = [mem EXCEPT ![w].i = j]
    BY <1>0, <1>1, <2>2
  <2>4. /\ LocalsOK' /\ copy'[w] = c /\ mem'[w].i = j
        /\ \A v \in Workers : v # w => copy'[v] = copy[v] /\ mem'[v] = mem[v]
    BY <2>1, <2>3, PutI
  <2> QED
    BY <2>2, <2>4
<1>8. Others(w)
  BY <1>6, <1>7 DEF Others, SameLocals
<1>9. /\ \A k : ~Uncounts(w, k) /\ ~Counts(w, k) /\ ~Bears(w, k) /\ ~Moves(w, k) /\ ~Drops(w, k)
      /\ \A q, j : ~Adds(w, q, j)
  BY <1>1 DEF Uncounts, Counts, Bears, Moves, Drops, Adds
<1>10. data' \subseteq Keys /\ IsStore(xattr', AttrKeys, Attr)
  BY <1>1, <1>4, <1>5 DEF TreeOK, StoresOK, Keys
<1>11. /\ SameTree /\ CountsOK' /\ ChildrenOK' /\ PathsOK' /\ StoresOK'
       /\ \A x : IsFile(x)' <=> IsFile(x)
  BY <1>1, <1>6, <1>8, <1>9, <1>10, TreeSame
<1>12. AttrsOK'
  BY <1>1, <1>8, <1>9, <1>11, AttrsSame DEF TreeOK
<1>13. BucketsOK'
  <2>1. ASSUME NEW k \in data'
        PROVE  \/ IsFile(k[1]) /\ k[2] <= hdr[k[1]].num_buckets
               \/ \E v \in Workers : Spares(v, k)'
    <3>1. \A v \in Workers : v # w => (Spares(v, k) => Spares(v, k)')
      BY <1>8, SameNotes DEF Others
    <3>2. k[2] \in Nat
      BY <1>10 DEF Keys
    <3>3. k[1] = p /\ k[2] <= n => Spares(w, k)'
      BY <1>0, <1>5, <1>6, <1>7 DEF Spares
    <3>4. Spares(w, k) => k[1] = p /\ k[2] <= n
      BY <1>0, <1>1, <1>5, <3>2 DEF Spares
    <3>5. k = <<p, n>> => k[1] = p /\ k[2] <= n
      BY <1>5
    <3> QED
      BY <1>1, <3>1, <3>3, <3>4, <3>5 DEF TreeOK, BucketsOK
  <2>2. ASSUME NEW q \in DOMAIN hdr, IsFile(q) PROVE DataKeysOf(q) \subseteq data'
    BY <1>1, <2>2 DEF TreeOK, BucketsOK
  <2> QED
    BY <1>1, <1>11, <2>1, <2>2 DEF BucketsOK, DataKeysOf
<1>14. Footprint(w)
  <2>1. \A k : k[1] \notin Holds(w) => k # <<p, n>>
    BY <1>2
  <2> QED
    BY <1>1, <2>1 DEF Footprint
<1>15. WorkerOK(w)'
  <2>1. ASSUME NEW j \in hdr[p].num_buckets + 1 .. n PROVE <<p, j>> \in data'
    BY <1>1, <1>3, <1>5
  <2>2. job'[w].p = p /\ job'[w].op = "write" /\ IsFile(p)' /\ mem'[w].i \in Nat
    BY <1>0, <1>1, <1>3, <1>6, <1>7, <1>11
  <2>3. WriterOK(w)'
    BY <1>1, <1>5, <1>7, <2>1, <2>2 DEF WriterOK
  <2> QED
    BY <1>6, <2>3 DEF WorkerOK
<1> QED
  BY <1>7, <1>8, <1>11, <1>12, <1>13, <1>14, <1>15, StepKeeps DEF LockInv, TreeOK

\* A step that only stores or deletes an attribute of the path it has locked.
LEMMA AttrStepKeeps ==
  ASSUME LockInv, TreeOK, WorkersOK, NEW w \in Workers, NEW p, p = job[w].p, NEW k, k[1] = p,
         at[w] \in {"SetAttr", "MoveAttr", "DelAttr"},
         stats' = stats, hdr' = hdr, child' = child, data' = data, mounted' = mounted,
         \A x : x # k => (x \in DOMAIN xattr' <=> x \in DOMAIN xattr),
         \A x \in DOMAIN xattr : x # k => xattr'[x] = xattr[x],
         IsStore(xattr', AttrKeys, Attr), Others(w), LocalsOK', WorkerOK(w)',
         IsFile(p) => \A i \in 1 .. hdr[p].xattr_num : AttrThere(p, i)'
  PROVE  TreeOK' /\ WorkersOK'
<1>1. p \in Holds(w)
  BY InHand DEF WorkersOK
<1>2. /\ \A x : /\ ~Uncounts(w, x) /\ ~Counts(w, x) /\ ~Bears(w, x) /\ ~Moves(w, x) /\ ~Drops(w, x)
                /\ ~Spares(w, x)
      /\ \A q, i : q # p => ~Adds(w, q, i)
  BY DEF Uncounts, Counts, Bears, Moves, Drops, Spares, Adds
<1>3. data' \subseteq Keys
  BY DEF TreeOK, StoresOK
<1>4. SameTree /\ CountsOK' /\ ChildrenOK' /\ PathsOK' /\ StoresOK'
  BY <1>2, <1>3, TreeSame
<1>5. BucketsOK'
  BY <1>2, <1>4, BucketsKept DEF TreeOK
<1>6. AttrsOK'
  <2>1. \A x : x[1] # p => /\ x \in DOMAIN xattr => x \in DOMAIN xattr'
                           /\ x \in DOMAIN xattr => xattr'[x] = xattr[x]
    OBVIOUS
  <2> QED
    BY <1>2, <2>1, OtherAttrsKept DEF TreeOK
<1>7. Footprint(w)
  <2>1. \A x : x[1] \notin Holds(w) => x # k
    BY <1>1, SMTT(60)
  <2> QED
    BY <2>1 DEF Footprint
<1> QED
  BY <1>4, <1>5, <1>6, <1>7, StepKeeps DEF LockInv, TreeOK

LEMMA SetAttrKeeps ==
  ASSUME LockInv, TreeOK, WorkersOK, NEW w \in Workers, SetAttr(w)
  PROVE  TreeOK' /\ WorkersOK'
<1>0. PICK p, n, k, name, val :
        /\ p = job[w].p /\ n = copy[w].xattr_num /\ k = <<p, n>>
        /\ name = mem[w].who[1] /\ val = mem[w].who[2]
  OBVIOUS
<1>1. /\ at[w] = "SetAttr" /\ Ends(w, "ok")
      /\ xattr' = CacheSet(xattr, k, [name |-> name, val |-> val, parent_index |-> n])
      /\ stats' = stats /\ hdr' = hdr /\ child' = child /\ data' = data
  BY <1>0 DEF SetAttr
<1>2. WorkerOK(w) /\ AttrWriterOK(w)
  BY <1>1 DEF WorkersOK, WorkerOK
<1>3. /\ Exists(p) /\ hdr[p].xattr_num = n /\ n \in Int /\ p \in Paths
      /\ name \in AttrNames /\ val \in AttrVals
  <2>1. Exists(p) /\ hdr[p].xattr_num = n /\ name \in AttrNames /\ val \in AttrVals
    BY <1>0, <1>1, <1>2 DEF AttrWriterOK
  <2> QED
    BY <2>1, HeaderIs
<1>4. at'[w] = "idle" /\ mounted' = mounted /\ Others(w) /\ LocalsOK' /\ WorkerOK(w)'
  BY <1>1, EndsShape DEF LockInv, WorkersOK
<1>5. /\ \A x : x # k => (x \in DOMAIN xattr' <=> x \in DOMAIN xattr)
      /\ \A x \in DOMAIN xattr : x # k => xattr'[x] = xattr[x]
      /\ k \in DOMAIN xattr' /\ xattr'[k].name = name /\ xattr'[k].parent_index = n
  BY <1>1 DEF CacheSet
<1>6. IsStore(xattr', AttrKeys, Attr)
  <2>1. k \in AttrKeys /\ [name |-> name, val |-> val, parent_index |-> n] \in Attr
    BY <1>0, <1>3 DEF AttrKeys, Attr
  <2> QED
    BY <1>1, <2>1, CacheSetStore DEF TreeOK, StoresOK
<1>7. ASSUME IsFile(p), NEW i \in 1 .. hdr[p].xattr_num PROVE AttrThere(p, i)'
  <2>1. CASE i = n
    <3>1. name # Junk
      BY <1>3, CacheFSAssumption
    <3> QED
      BY <1>0, <1>5, <2>1, <3>1 DEF AttrThere
  <2>2. CASE i # n
    <3>1. \A v \in Workers : ~Adds(v, p, i)
      <4>1. ~Adds(w, p, i)
        BY <1>0, <2>2 DEF Adds
      <4>2. p \in Holds(w)
        BY <1>0, <1>1, <1>2, InHand
      <4> QED
        BY <4>1, <4>2, MineAlone DEF LockInv
    <3>2. AttrThere(p, i)
      BY <1>3, <1>7, <3>1 DEF TreeOK, AttrsOK, Exists
    <3>3. <<p, i>> # k
      BY <1>0, <2>2
    <3> QED
      BY <1>5, <3>2, <3>3 DEF AttrThere
  <2> QED
    BY <2>1, <2>2
<1>8. k[1] = p
  BY <1>0
<1> QED
  BY <1>0, <1>1, <1>4, <1>5, <1>6, <1>7, <1>8, AttrStepKeeps

LEMMA MoveAttrKeeps ==
  ASSUME LockInv, TreeOK, WorkersOK, NEW w \in Workers, MoveAttr(w)
  PROVE  TreeOK' /\ WorkersOK'
<1>0. PICK p, n, i, k, last :
        /\ p = job[w].p /\ n = copy[w].xattr_num /\ i = mem[w].i /\ k = <<p, i>>
        /\ last = AttrAt(p, n + 1)
  OBVIOUS
<1>1. /\ at[w] = "MoveAttr" /\ Goes(w, "DelAttr") /\ copy' = copy /\ mem' = mem
      /\ xattr' = CacheSet(xattr, k, [last EXCEPT !.parent_index = i])
      /\ stats' = stats /\ hdr' = hdr /\ child' = child /\ data' = data
  BY <1>0 DEF MoveAttr
<1>2. WorkerOK(w) /\ AttrWriterOK(w) /\ p \in Holds(w)
  BY <1>0, <1>1, InHand DEF WorkersOK, WorkerOK
<1>3. /\ Exists(p) /\ hdr[p].xattr_num = n /\ n \in Int /\ p \in Paths
      /\ job[w].op = "removexattr" /\ i \in 1 .. n + 1
      /\ IsFile(p) => AttrThere(p, n + 1)
  <2>1. /\ Exists(p) /\ hdr[p].xattr_num = n /\ job[w].op = "removexattr" /\ i \in 1 .. n + 1
        /\ IsFile(p) => AttrThere(p, n + 1)
    BY <1>0, <1>1, <1>2 DEF AttrWriterOK
  <2> QED
    BY <2>1, HeaderIs
<1>4. /\ at'[w] = "DelAttr" /\ job' = job /\ mounted' = mounted
      /\ \A v \in Workers : v # w => at'[v] = at[v]
  BY <1>1, GoesShape DEF LockInv
<1>5. LocalsOK' /\ Others(w)
  BY <1>1, <1>4, NoLocals DEF WorkersOK, Others, SameLocals
<1>6. PICK a \in AttrNames \cup {Junk}, v \in AttrVals \cup {Junk}, j \in Int :
        /\ last = [name |-> a, val |-> v, parent_index |-> j]
        /\ IsFile(p) => a # Junk
  <2>1. last \in Attr /\ (IsFile(p) => last.name # Junk)
    <3>1. CASE <<p, n + 1>> \in DOMAIN xattr
      <4>1. last = xattr[<<p, n + 1>>]
        BY <1>0, <3>1 DEF AttrAt
      <4> QED
        BY <1>3, <3>1, <4>1 DEF TreeOK, StoresOK, IsStore, AttrThere
    <3>2. CASE <<p, n + 1>> \notin DOMAIN xattr
      <4>1. ~IsFile(p)
        BY <1>3, <3>2 DEF AttrThere
      <4>2. last = [name |-> Junk, val |-> Junk, parent_index |-> n + 1]
        BY <1>0, <3>2 DEF AttrAt
      <4> QED
        BY <1>3, <4>1, <4>2 DEF Attr
    <3> QED
      BY <3>1, <3>2
  <2> QED
    BY <2>1 DEF Attr
<1>7. [last EXCEPT !.parent_index = i] = [name |-> a, val |-> v, parent_index |-> i]
  BY <1>6
<1>8. /\ \A x : x # k => (x \in DOMAIN xattr' <=> x \in DOMAIN xattr)
      /\ \A x \in DOMAIN xattr : x # k => xattr'[x] = xattr[x]
      /\ k \in DOMAIN xattr' /\ xattr'[k].name = a /\ xattr'[k].parent_index = i
  BY <1>1, <1>7 DEF CacheSet
<1>9. IsStore(xattr', AttrKeys, Attr)
  <2>1. k \in AttrKeys /\ [last EXCEPT !.parent_index = i] \in Attr
    BY <1>0, <1>3, <1>6, <1>7 DEF AttrKeys, Attr
  <2> QED
    BY <1>1, <2>1, CacheSetStore DEF TreeOK, StoresOK
<1>10. ASSUME IsFile(p), NEW m \in 1 .. hdr[p].xattr_num PROVE AttrThere(p, m)'
  <2>1. CASE m = i
    BY <1>0, <1>6, <1>8, <1>10, <2>1 DEF AttrThere
  <2>2. CASE m # i
    <3>1. \A u \in Workers : ~Adds(u, p, m)
      BY <1>1, <1>2, MineAlone DEF LockInv, Adds
    <3>2. AttrThere(p, m)
      BY <1>3, <1>10, <3>1 DEF TreeOK, AttrsOK, Exists
    <3>3. <<p, m>> # k
      BY <1>0, <2>2
    <3> QED
      BY <1>8, <3>2, <3>3 DEF AttrThere
  <2> QED
    BY <2>1, <2>2
<1>11. WorkerOK(w)'
  <2>1. AttrWriterOK(w)'
    BY <1>0, <1>1, <1>2, <1>3, <1>4 DEF AttrWriterOK, Exists
  <2> QED
    BY <1>4, <2>1 DEF WorkerOK
<1>12. k[1] = p
  BY <1>0
<1> QED
  BY <1>0, <1>1, <1>4, <1>5, <1>8, <1>9, <1>10, <1>11, <1>12, AttrStepKeeps

LEMMA DelAttrKeeps ==
  ASSUME LockInv, TreeOK, WorkersOK, NEW w \in Workers, DelAttr(w)
  PROVE  TreeOK' /\ WorkersOK'
<1>0. PICK p, n, k : p = job[w].p /\ n = copy[w].xattr_num /\ k = <<p, n + 1>>
  OBVIOUS
<1>1. /\ at[w] = "DelAttr" /\ Ends(w, "ok") /\ xattr' = CacheDelete(xattr, {k})
      /\ stats' = stats /\ hdr' = hdr /\ child' = child /\ data' = data
  BY <1>0 DEF DelAttr
<1>2. WorkerOK(w) /\ AttrWriterOK(w) /\ p \in Holds(w)
  BY <1>0, <1>1, InHand DEF WorkersOK, WorkerOK
<1>3. Exists(p) /\ hdr[p].xattr_num = n /\ n \in Int
  BY <1>0, <1>1, <1>2, HeaderIs DEF AttrWriterOK
<1>4. at'[w] = "idle" /\ mounted' = mounted /\ Others(w) /\ LocalsOK' /\ WorkerOK(w)'
  BY <1>1, EndsShape DEF LockInv, WorkersOK
<1>5. /\ \A x : x # k => (x \in DOMAIN xattr' <=> x \in DOMAIN xattr)
      /\ \A x \in DOMAIN xattr : x # k => xattr'[x] = xattr[x]
  BY <1>1 DEF CacheDelete
<1>6. IsStore(xattr', AttrKeys, Attr)
  BY <1>1, CacheDeleteStore DEF TreeOK, StoresOK
<1>7. ASSUME IsFile(p), NEW i \in 1 .. hdr[p].xattr_num PROVE AttrThere(p, i)'
  <2>1. \A v \in Workers : ~Adds(v, p, i)
    BY <1>1, <1>2, MineAlone DEF LockInv, Adds
  <2>2. AttrThere(p, i)
    BY <1>3, <1>7, <2>1 DEF TreeOK, AttrsOK, Exists
  <2>3. <<p, i>> # k
    BY <1>0, <1>3, <1>7
  <2> QED
    BY <1>5, <2>2, <2>3 DEF AttrThere
<1>8. k[1] = p
  BY <1>0
<1> QED
  BY <1>0, <1>1, <1>4, <1>5, <1>6, <1>7, <1>8, AttrStepKeeps, ZenonT(60)

------------------------------------------------------------------------------
(* Every step of a handler keeps the invariant.                             *)

LEMMA HandlerKeepsSteps ==
  ASSUME StepsInv, NEW w \in Workers, Handler(w)
  PROVE  StepsInv'
<1>1. LockInv /\ LockInv'
  BY HandlerKeeps DEF StepsInv
<1> SUFFICES ASSUME ~clashed' PROVE TreeOK' /\ WorkersOK'
  BY <1>1 DEF StepsInv
<1>2. ~clashed => TreeOK /\ WorkersOK
  BY DEF StepsInv
<1>3. ASSUME NEW p \in Paths, NEW op \in {"mkdir", "create"}, MakeStart(w, op, p)
      PROVE  TreeOK' /\ WorkersOK'
  <2>1. ~clashed
    BY <1>3 DEF MakeStart, Start
  <2> QED
    BY <1>1, <1>2, <1>3, <2>1, MakeStartKeeps
<1>4. ASSUME NEW p \in Paths, NEW op \in {"rmdir", "unlink"}, RemoveStart(w, op, p)
      PROVE  TreeOK' /\ WorkersOK'
  <2>1. ~clashed
    BY <1>4 DEF RemoveStart, Start
  <2> QED
    BY <1>1, <1>2, <1>4, <2>1, RemoveStartKeeps
<1>5. ASSUME NEW p \in Paths, NEW n \in 0 .. MaxBuckets, WriteStart(w, p, n)
      PROVE  TreeOK' /\ WorkersOK'
  <2>1. ~clashed
    BY <1>5 DEF WriteStart, Start
  <2> QED
    BY <1>1, <1>2, <1>5, <2>1, WriteStartKeeps
<1>6. ASSUME NEW p \in Paths, NEW n \in AttrNames, RemovexattrStart(w, p, n)
      PROVE  TreeOK' /\ WorkersOK'
  <2>1. ~clashed
    BY <1>6 DEF RemovexattrStart, Start
  <2> QED
    BY <1>1, <1>2, <1>6, <2>1, RemovexattrStartKeeps
<1>7. ASSUME NEW p \in Paths, NEW n \in AttrNames, NEW v \in AttrVals, SetxattrStart(w, p, n, v)
      PROVE  TreeOK' /\ WorkersOK'
  <2>1. ~clashed
    BY <1>7 DEF SetxattrStart, Start
  <2> QED
    BY <1>1, <1>2, <1>7, <2>1, SetxattrStartKeeps
<1>8. CASE SetCount(w)
  <2>1. ~clashed
    BY <1>8 DEF SetCount, PutHeader
  <2> QED
    BY <1>1, <1>2, <1>8, <2>1, SetCountKeeps
<1>9. CASE SetEntry(w)
  BY <1>1, <1>2, <1>9, SetEntryKeeps DEF SetEntry
<1>10. CASE SetHeader(w)
  <2>1. ~clashed
    BY <1>10 DEF SetHeader, PutHeader
  <2> QED
    BY <1>1, <1>2, <1>10, <2>1, SetHeaderKeeps
<1>11. CASE GetCount(w)
  BY <1>1, <1>2, <1>11, GetCountKeeps DEF GetCount
<1>12. CASE SetLess(w)
  <2>1. ~clashed
    BY <1>12 DEF SetLess, PutHeader
  <2> QED
    BY <1>1, <1>2, <1>12, <2>1, SetLessKeeps
<1>13. CASE SetSlot(w)
  BY <1>1, <1>2, <1>13, SetSlotKeeps DEF SetSlot
<1>14. CASE GetTenant(w)
  BY <1>1, <1>2, <1>14, GetTenantKeeps DEF GetTenant
<1>15. CASE SetTenant(w)
  <2>1. ~clashed
    BY <1>15 DEF SetTenant, PutHeader
  <2> QED
    BY <1>1, <1>2, <1>15, <2>1, SetTenantKeeps
<1>16. CASE DelLast(w)
  BY <1>1, <1>2, <1>16, DelLastKeeps DEF DelLast
<1>17. CASE DelHeader(w)
  BY <1>1, <1>2, <1>17, DelHeaderKeeps DEF DelHeader
<1>18. CASE DelKeys(w)
  BY <1>1, <1>2, <1>18, DelKeysKeeps DEF DelKeys
<1>19. CASE UnlinkEnds(w)
  BY <1>1, <1>2, <1>19, UnlinkEndsKeeps DEF UnlinkEnds
<1>20. CASE SetBucket(w)
  BY <1>1, <1>2, <1>20, SetBucketKeeps DEF SetBucket
<1>21. CASE WriteEnds(w)
  <2>1. ~clashed
    BY <1>21 DEF WriteEnds, PutHeader
  <2> QED
    BY <1>1, <1>2, <1>21, <2>1, WriteEndsKeeps
<1>22. CASE SetNum(w)
  <2>1. ~clashed
    BY <1>22 DEF SetNum, PutHeader
  <2> QED
    BY <1>1, <1>2, <1>22, <2>1, SetNumKeeps
<1>23. CASE SetAttr(w)
  BY <1>1, <1>2, <1>23, SetAttrKeeps DEF SetAttr
<1>24. CASE MoveAttr(w)
  BY <1>1, <1>2, <1>24, MoveAttrKeeps DEF MoveAttr
<1>25. CASE DelAttr(w)
  BY <1>1, <1>2, <1>25, DelAttrKeeps DEF DelAttr
<1> QED
  BY <1>3, <1>4, <1>5, <1>6, <1>7, <1>8, <1>9, <1>10, <1>11, <1>12, <1>13, <1>14, <1>15, <1>16,
     <1>17, <1>18, <1>19, <1>20, <1>21, <1>22, <1>23, <1>24, <1>25 DEF Handler

LEMMA StutterKeepsSteps == StepsInv /\ UNCHANGED stepVars => StepsInv'
<1> SUFFICES ASSUME StepsInv, UNCHANGED stepVars PROVE StepsInv'
  OBVIOUS
<1>1. /\ stores' = stores /\ mounted' = mounted /\ clashed' = clashed
      /\ at' = at /\ job' = job /\ copy' = copy /\ mem' = mem
  BY DEF stepVars, vars, locals, history
<1>2. LockInv'
  BY StutterKeeps DEF StepsInv
<1>3. stats' = stats /\ hdr' = hdr /\ child' = child /\ data' = data /\ xattr' = xattr
  BY <1>1 DEF stores
<1>4. StoresOK => StoresOK'
  BY <1>1, <1>3 DEF StoresOK, IsStore, IsDir, Exists
<1>5. /\ \A v, k : /\ Uncounts(v, k)' <=> Uncounts(v, k)
                   /\ Counts(v, k)' <=> Counts(v, k)
                   /\ Bears(v, k)' <=> Bears(v, k)
                   /\ Moves(v, k)' <=> Moves(v, k)
                   /\ Drops(v, k)' <=> Drops(v, k)
                   /\ Spares(v, k)' <=> Spares(v, k)
      /\ \A v, p, i : Adds(v, p, i)' <=> Adds(v, p, i)
  BY <1>1 DEF Uncounts, Counts, Bears, Moves, Drops, Spares, Adds, Slot, Hole, Dir
<1>6. CountsOK => CountsOK'
  BY <1>3, <1>5 DEF CountsOK, IsDir, Exists
<1>7. ChildrenOK => ChildrenOK'
  BY <1>3, <1>5 DEF ChildrenOK, SlotOf, Exists
<1>8. PathsOK => PathsOK'
  BY <1>3, <1>5 DEF PathsOK, SlotOf, IsDir, Exists
<1>9. BucketsOK => BucketsOK'
  BY <1>3, <1>5 DEF BucketsOK, DataKeysOf, IsFile, Exists
<1>10. AttrsOK => AttrsOK'
  BY <1>3, <1>5 DEF AttrsOK, AttrThere, IsFile, Exists
<1>11. LocalsOK => LocalsOK'
  BY <1>1 DEF LocalsOK
<1>12. ASSUME NEW w \in Workers, WorkerOK(w) PROVE WorkerOK(w)'
  <2>1. MakerOK(w) => MakerOK(w)'
    BY <1>1, <1>3 DEF MakerOK, Slot, Dir, IsDir, Exists
  <2>2. RemoverOK(w) => RemoverOK(w)'
    BY <1>1, <1>3 DEF RemoverOK, Slot, Hole, Dir, SlotOf, IsDir, Exists
  <2>3. DeleterOK(w) => DeleterOK(w)'
    BY <1>1, <1>3 DEF DeleterOK, Exists
  <2>4. WriterOK(w) => WriterOK(w)'
    BY <1>1, <1>3 DEF WriterOK, IsFile, Exists
  <2>5. AttrWriterOK(w) => AttrWriterOK(w)'
    BY <1>1, <1>3 DEF AttrWriterOK, AttrThere, IsFile, Exists
  <2> QED
    BY <1>1, <1>12, <2>1, <2>2, <2>3, <2>4, <2>5 DEF WorkerOK
<1> QED
  BY <1>1, <1>2, <1>4, <1>6, <1>7, <1>8, <1>9, <1>10, <1>11, <1>12
     DEF StepsInv, TreeOK, WorkersOK

------------------------------------------------------------------------------
(* What the invariant says when all have ended, and when all are stopped.   *)

LEMMA InvQuiet == StepsInv => QuietOK
<1> SUFFICES ASSUME StepsInv, AllIdle, ~clashed
             PROVE  DirectoryIndexOK /\ DataBucketsOK /\ FileXattrsOK
  BY DEF QuietOK
<1>1. TreeOK
  BY DEF StepsInv
<1>2. \A v \in Workers : /\ \A k : /\ ~Uncounts(v, k) /\ ~Counts(v, k) /\ ~Bears(v, k)
                                   /\ ~Moves(v, k) /\ ~Drops(v, k) /\ ~Spares(v, k)
                         /\ \A p, i : ~Adds(v, p, i)
  BY DEF AllIdle, Busy, Uncounts, Counts, Bears, Moves, Drops, Spares, Adds
<1>3. RootOK
  BY <1>1 DEF TreeOK, StoresOK, RootOK
<1>4. SlotsOK
  BY <1>1, <1>2 DEF TreeOK, CountsOK, SlotsOK
<1>5. EntriesOK
  BY <1>1, <1>2 DEF TreeOK, ChildrenOK, EntriesOK
<1>6. BackPointersOK
  BY <1>1, <1>2 DEF TreeOK, PathsOK, BackPointersOK
<1>7. DataBucketsOK
  BY <1>1, <1>2 DEF TreeOK, BucketsOK, DataBucketsOK
<1>8. FileXattrsOK
  BY <1>1, <1>2 DEF TreeOK, AttrsOK, AttrThere, FileXattrsOK
<1> QED
  BY <1>3, <1>4, <1>5, <1>6, <1>7, <1>8 DEF DirectoryIndexOK

\* A path that no removal has in hand is counted in its slot.
LEMMA PathListed ==
  ASSUME LockInv, TreeOK, WorkersOK, NEW p \in DOMAIN hdr \ ({Root} \cup Unlisted)
  PROVE  Exists(Parent(p)) /\ Listed(p)
<1>1. PICK d, i, k : d = Parent(p) /\ i = SlotOf(p) /\ k = <<d, i>>
  OBVIOUS
<1>2. \A w \in Workers : at[w] \in {"GetCount", "SetLess", "SetSlot", "GetTenant", "SetTenant",
                                    "DelLast", "DelHeader"}
                           => RemoverOK(w) /\ job[w].p # p
  BY DEF WorkersOK, WorkerOK, RemoverOK, Unlisted
<1>3. ASSUME NEW w \in Workers, at[w] = "SetSlot" PROVE child[Slot(w)] # p
  BY <1>2, <1>3 DEF RemoverOK, Unlisted, Slot, Dir
<1>4. IsDir(d) /\ k \in DOMAIN child /\ child[k] = p
  BY <1>1, <1>2 DEF TreeOK, PathsOK, Drops
<1>5. k[1] = d /\ k[2] = i /\ i \in Nat /\ i >= 1 /\ hdr[d].num_buckets \in Nat
  BY <1>1, <1>4, KeyIs, HeaderIs DEF IsDir
<1>6. CASE i <= hdr[d].num_buckets
  BY <1>1, <1>4, <1>5, <1>6 DEF Listed, IsDir
<1>7. ASSUME NEW w \in Workers, Uncounts(w, k) PROVE Listed(p)
  <2>1. at[w] \in {"GetTenant", "SetTenant", "DelLast"} /\ k = Slot(w)
    BY <1>3, <1>4, <1>7 DEF Uncounts
  <2>2. PICK o : o = mem[w].own.parent_index
    OBVIOUS
  <2>3. Dir(w) = d /\ mem[w].i = i /\ Hole(w) = <<d, o>>
    BY <1>5, <2>1, <2>2 DEF Slot, Hole
  <2>4. /\ <<d, o>> \in DOMAIN child /\ child[<<d, o>>] = p
        /\ i = hdr[d].num_buckets + 1 /\ o <= i /\ (o = i <=> p = job[w].p)
    BY <1>2, <1>4, <2>1, <2>2, <2>3 DEF RemoverOK
  <2>5. <<d, o>>[2] = o
    OBVIOUS
  <2>6. o \in Nat /\ o >= 1
    BY <2>4, <2>5, KeyIs
  <2>7. o \in 1 .. hdr[d].num_buckets
    BY <1>2, <1>5, <2>1, <2>4, <2>6
  <2> QED
    BY <1>1, <2>4, <2>7 DEF Listed
<1>8. k[2] <= hdr[k[1]].num_buckets \/ \E w \in Workers : Uncounts(w, k)
  BY <1>4 DEF TreeOK, CountsOK
<1> QED
  BY <1>1, <1>4, <1>5, <1>6, <1>7, <1>8 DEF IsDir

\* No two counted slots of a directory hold the same path.
LEMMA SlotsDiffer ==
  ASSUME LockInv, TreeOK, WorkersOK, NEW d, IsDir(d),
         NEW i \in 1 .. hdr[d].num_buckets, NEW j \in 1 .. hdr[d].num_buckets,
         <<d, i>> \in DOMAIN child, <<d, j>> \in DOMAIN child, child[<<d, i>>] = child[<<d, j>>]
  PROVE  i = j
<1>1. PICK c, n : c = child[<<d, i>>] /\ n = hdr[d].num_buckets
  OBVIOUS
<1>2. n \in Nat
  BY <1>1, HeaderIs DEF IsDir
\* One worker has something to do at d.
<1>3. ASSUME NEW v \in Workers, NEW u \in Workers, NEW a, NEW b,
             Moves(v, <<d, a>>) \/ Bears(v, <<d, a>>), Moves(u, <<d, b>>) \/ Bears(u, <<d, b>>)
      PROVE  v = u
  <2>1. <<d, a>>[1] = d /\ <<d, b>>[1] = d
    OBVIOUS
  <2>2. Dir(v) = d /\ d \in Holds(v)
    <3>1. Dir(v) = d
      BY <1>3, <2>1 DEF Moves, Bears, Slot, Hole
    <3> QED
      BY <1>3, <3>1, InHand DEF WorkersOK, Moves, Bears
  <2> QED
    BY <1>3, <2>1, <2>2, MineAlone DEF LockInv
<1>4. ASSUME NEW v \in Workers, NEW a \in 1 .. n, Moves(v, <<d, a>>), child[<<d, a>>] = c
      PROVE  SlotOf(c) = n + 1 /\ a = mem[v].own.parent_index
  <2>1. RemoverOK(v) /\ (at[v] = "DelLast" \/ at[v] \in {"GetTenant", "SetTenant"})
    BY <1>4 DEF WorkersOK, WorkerOK, Moves
  <2>2. CASE at[v] = "DelLast"
    <3>1. a = mem[v].i /\ Dir(v) = d
      BY <1>4, <2>2 DEF Moves, Slot
    <3>2. a = n + 1
      BY <1>1, <2>1, <2>2, <3>1 DEF RemoverOK
    <3> QED
      BY <1>2, <3>2
  <2>3. CASE at[v] \in {"GetTenant", "SetTenant"}
    <3>1. a = mem[v].own.parent_index /\ Dir(v) = d /\ Hole(v) = <<d, a>>
      BY <1>4, <2>3 DEF Moves, Hole
    <3>2. child[Hole(v)] = mem[v].who /\ SlotOf(mem[v].who) = mem[v].i /\ mem[v].i = n + 1
      BY <1>1, <2>1, <2>3, <3>1 DEF RemoverOK
    <3> QED
      BY <1>4, <3>1, <3>2
  <2> QED
    BY <2>1, <2>2, <2>3
<1>5. ASSUME NEW v \in Workers, NEW a, Bears(v, <<d, a>>), child[<<d, a>>] = c
      PROVE  ~Exists(c) /\ a = mem[v].i
  <2>1. MakerOK(v) /\ at[v] = "SetHeader" /\ Slot(v) = <<d, a>>
    BY <1>5 DEF WorkersOK, WorkerOK, Bears
  <2>2. a = mem[v].i
    BY <2>1 DEF Slot
  <2> QED
    BY <1>5, <2>1, <2>2 DEF MakerOK
<1>6. ASSUME NEW a \in 1 .. n, <<d, a>> \in DOMAIN child, child[<<d, a>>] = c
      PROVE  \/ Exists(c) /\ (SlotOf(c) = a \/ \E v \in Workers : Moves(v, <<d, a>>))
             \/ ~Exists(c) /\ \E v \in Workers : Bears(v, <<d, a>>)
  <2>1. <<d, a>>[2] = a
    OBVIOUS
  <2> QED
    BY <1>5, <1>6, <2>1 DEF TreeOK, ChildrenOK
<1>7. CASE ~Exists(c)
  <2>1. PICK v \in Workers : Bears(v, <<d, i>>)
    BY <1>1, <1>6, <1>7
  <2>2. PICK u \in Workers : Bears(u, <<d, j>>)
    BY <1>1, <1>6, <1>7
  <2> QED
    BY <1>1, <1>3, <1>5, <2>1, <2>2
<1>8. CASE Exists(c)
  <2>1. SlotOf(c) = i \/ \E v \in Workers : Moves(v, <<d, i>>)
    BY <1>1, <1>6, <1>8
  <2>2. SlotOf(c) = j \/ \E v \in Workers : Moves(v, <<d, j>>)
    BY <1>1, <1>6, <1>8
  <2>3. ASSUME NEW v \in Workers, Moves(v, <<d, i>>) PROVE i = j
    <3>1. SlotOf(c) = n + 1 /\ i = mem[v].own.parent_index
      BY <1>1, <1>4, <2>3
    <3>2. SlotOf(c) # j
      BY <1>1, <1>2, <3>1
    <3>3. PICK u \in Workers : Moves(u, <<d, j>>)
      BY <2>2, <3>2
    <3>4. u = v /\ j = mem[u].own.parent_index
      BY <1>1, <1>3, <1>4, <2>3, <3>3
    <3> QED
      BY <3>1, <3>4
  <2>4. ASSUME SlotOf(c) = i, NEW v \in Workers, Moves(v, <<d, j>>) PROVE FALSE
    <3>1. SlotOf(c) = n + 1
      BY <1>1, <1>4, <2>4
    <3> QED
      BY <1>1, <1>2, <2>4, <3>1
  <2> QED
    BY <2>1, <2>2, <2>3, <2>4
<1> QED
  BY <1>7, <1>8

LEMMA InvKill == StepsInv => KillLeaves
<1> SUFFICES ASSUME StepsInv, ~clashed
             PROVE  /\ \A p \in DOMAIN hdr \ ({Root} \cup Unlisted) : Exists(Parent(p)) /\ Listed(p)
                    /\ \A d \in DOMAIN hdr : IsDir(d) =>
                         /\ \A i \in 1 .. hdr[d].num_buckets : <<d, i>> \notin Promised =>
                              /\ <<d, i>> \in DOMAIN child /\ Exists(child[<<d, i>>])
                              /\ Parent(child[<<d, i>>]) = d
                         /\ \A i, j \in {k \in 1 .. hdr[d].num_buckets : <<d, k>> \in DOMAIN child} :
                              child[<<d, i>>] = child[<<d, j>>] => i = j
                    /\ \A p \in DOMAIN hdr : IsFile(p) =>
                         /\ DataKeysOf(p) \subseteq data
                         /\ \/ AttrKeysOf(p) \subseteq DOMAIN xattr
                            \/ \E w \in Workers : at[w] = "SetAttr" /\ job[w].p = p
  BY DEF KillLeaves
<1>1. LockInv /\ TreeOK /\ WorkersOK
  BY DEF StepsInv
<1>2. \A p \in DOMAIN hdr \ ({Root} \cup Unlisted) : Exists(Parent(p)) /\ Listed(p)
  BY <1>1, PathListed
<1>3. ASSUME NEW d \in DOMAIN hdr, IsDir(d), NEW i \in 1 .. hdr[d].num_buckets,
             <<d, i>> \notin Promised
      PROVE  /\ <<d, i>> \in DOMAIN child /\ Exists(child[<<d, i>>])
             /\ Parent(child[<<d, i>>]) = d
  <2>1. \A w \in Workers : ~Counts(w, <<d, i>>) /\ ~Bears(w, <<d, i>>)
    BY <1>3 DEF Promised, Counts, Bears, Slot, Dir
  <2>2. <<d, i>>[1] = d
    OBVIOUS
  <2> QED
    BY <1>1, <1>3, <2>1, <2>2 DEF TreeOK, CountsOK, ChildrenOK
<1>4. ASSUME NEW d \in DOMAIN hdr, IsDir(d),
             NEW i \in {k \in 1 .. hdr[d].num_buckets : <<d, k>> \in DOMAIN child},
             NEW j \in {k \in 1 .. hdr[d].num_buckets : <<d, k>> \in DOMAIN child},
             child[<<d, i>>] = child[<<d, j>>]
      PROVE  i = j
  BY <1>1, <1>4, SlotsDiffer, SMTT(60)
<1>5. ASSUME NEW p \in DOMAIN hdr, IsFile(p), \A w \in Workers : ~(at[w] = "SetAttr" /\ job[w].p = p)
      PROVE  AttrKeysOf(p) \subseteq DOMAIN xattr
  BY <1>1, <1>5 DEF TreeOK, AttrsOK, AttrThere, Adds, AttrKeysOf
<1>6. \A p \in DOMAIN hdr : IsFile(p) => DataKeysOf(p) \subseteq data
  BY <1>1 DEF TreeOK, BucketsOK
<1> QED
  BY <1>2, <1>3, <1>4, <1>5, <1>6

------------------------------------------------------------------------------
(* The trees that handlers start from.                                      *)

\* A directory has as many children at most as there are names.
LEMMA KidsFinite ==
  ASSUME NEW k, NEW d
  PROVE  Cardinality(Kids(k, d)) \in Nat
<1> DEFINE f == [p \in Kids(k, d) |-> Last(p)]
<1>1. \A p \in Kids(k, d) : p \in Paths /\ p # Root /\ Parent(p) = d
  BY DEF Kids
<1>2. ASSUME NEW p \in Paths, p # Root PROVE Last(p) \in Names
  <2>1. PICK n \in 0 .. MaxDepth : p \in [1 .. n -> Names]
    BY CacheFSAssumption DEF Paths, SeqOf
  <2>2. Len(p) = n /\ p \in Seq(Names)
    BY <2>1
  <2>3. n # 0
    BY <1>2, <2>2, EmptySeq DEF Root
  <2> QED
    BY <2>1, <2>2, <2>3 DEF Last
<1>3. f \in [Kids(k, d) -> Names]
  BY <1>1, <1>2
<1>4. IsInjective(f)
  BY <1>1, PathFromParts DEF IsInjective
<1>5. f \in Injection(Kids(k, d), Names)
  BY <1>3, <1>4 DEF Injection
<1> HIDE DEF f
<1>6. IsFiniteSet(Kids(k, d))
  BY <1>5, FS_Injection, StepsAssumption
<1> QED
  BY <1>6, FS_CardinalityType

\* In its order, each child of a directory has one slot.
LEMMA OrderSlots ==
  ASSUME NEW k, NEW o \in Orders(k), NEW d \in Paths, k[d] = "dir"
  PROVE  /\ d \in DOMAIN o /\ DOMAIN o[d] = 1 .. Cardinality(Kids(k, d))
         /\ \A i \in DOMAIN o[d] : o[d][i] \in Kids(k, d) /\ SlotIn(o, o[d][i]) = i
         /\ \A p \in Kids(k, d) : SlotIn(o, p) \in DOMAIN o[d] /\ o[d][SlotIn(o, p)] = p
<1>1. PICK n : n = Cardinality(Kids(k, d))
  OBVIOUS
<1>2. d \in DOMAIN o /\ o[d] \in Bijection(1 .. n, Kids(k, d))
  BY <1>1 DEF Orders
<1>3. /\ o[d] \in [1 .. n -> Kids(k, d)] /\ DOMAIN o[d] = 1 .. n
      /\ \A i, j \in 1 .. n : o[d][i] = o[d][j] => i = j
      /\ \A p \in Kids(k, d) : \E i \in 1 .. n : o[d][i] = p
  BY <1>2 DEF Bijection, Injection, Surjection, IsInjective
<1>4. \A p \in Kids(k, d) : p # Root /\ Parent(p) = d
  BY DEF Kids
<1>5. \A p \in Kids(k, d) : SlotIn(o, p) \in 1 .. n /\ o[d][SlotIn(o, p)] = p
  BY <1>3, <1>4 DEF SlotIn
<1>6. \A i \in 1 .. n : o[d][i] \in Kids(k, d) /\ SlotIn(o, o[d][i]) = i
  BY <1>3, <1>5
<1> QED
  BY <1>1, <1>2, <1>3, <1>5, <1>6

\* With nobody at work, a well-formed tree is all there is to show.
LEMMA InitWorkers ==
  ASSUME StepsInit
  PROVE  LockInv /\ WorkersOK /\ ~clashed /\ mounted
<1>1. /\ at = [w \in Workers |-> "idle"]
      /\ copy = [w \in Workers |-> NoHeader] /\ mem = [w \in Workers |-> NoMem]
      /\ clashed = FALSE /\ mounted = TRUE
  BY DEF StepsInit
<1>2. NoHeader \in Header /\ NoMem = [own |-> NoHeader, i |-> 0, who |-> Root]
  BY DEF NoHeader, NewFileHeader, Header, NoMem
<1>3. LocalsOK
  <2>1. \A w \in Workers : /\ copy[w] = NoHeader /\ mem[w] = NoMem
                           /\ mem[w].own = NoHeader /\ mem[w].i = 0 /\ mem[w].who = Root
    BY <1>1, <1>2
  <2> QED
    BY <1>1, <1>2, <2>1 DEF LocalsOK
<1>4. \A w \in Workers : WorkerOK(w)
  BY <1>1 DEF WorkerOK
<1> QED
  BY <1>1, <1>3, <1>4, InitLocks, SMTT(60) DEF WorkersOK

\* The server with the tree k, its children ordered by o, its files empty or full.
Grown(k, full, o) ==
  LET files == {p \in Paths : k[p] = "file"}
      attrs == IF full THEN files \X (1 .. MaxAttrs) ELSE {}
      fill == IF full THEN MaxBuckets ELSE 0
  IN  /\ hdr = [p \in {q \in Paths : k[q] # "none"} |->
                  IF k[p] = "dir"
                  THEN [NewDirHeader(SlotIn(o, p), 0) EXCEPT
                          !.num_buckets = Cardinality(Kids(k, p))]
                  ELSE [NewFileHeader(SlotIn(o, p)) EXCEPT
                          !.num_buckets = fill,
                          !.xattr_num = IF full THEN MaxAttrs ELSE 0]]
      /\ child = [s \in UNION {{d} \X DOMAIN o[d] : d \in DOMAIN o} |-> o[s[1]][s[2]]]
      /\ data = files \X (1 .. fill)
      /\ \E n \in AttrNames, v \in AttrVals :
           xattr = [s \in attrs |-> [name |-> n, val |-> v, parent_index |-> s[2]]]

LEMMA InitTree ==
  ASSUME StepsInit
  PROVE  TreeOK
<1>0. PICK k \in Kinds, full \in BOOLEAN : \E o \in Orders(k) : Grown(k, full, o)
  BY DEF StepsInit, Grown
<1>1. PICK o \in Orders(k) : Grown(k, full, o)
  BY <1>0
<1>2. PICK fill, most, files, attrs :
        /\ fill = IF full THEN MaxBuckets ELSE 0
        /\ most = IF full THEN MaxAttrs ELSE 0
        /\ files = {p \in Paths : k[p] = "file"}
        /\ attrs = IF full THEN files \X (1 .. MaxAttrs) ELSE {}
  OBVIOUS
<1>3. fill \in Nat /\ most \in Nat /\ attrs = files \X (1 .. most)
  <2>1. fill \in Nat /\ most \in Nat
    BY <1>2, CacheFSAssumption
  <2>2. CASE full = TRUE
    BY <1>2, <2>1, <2>2
  <2>3. CASE full = FALSE
    <3>1. 1 .. 0 = {}
      OBVIOUS
    <3>2. most = 0 /\ attrs = {}
      BY <1>2, <2>3
    <3> QED
      BY <2>1, <3>1, <3>2
  <2>4. full = TRUE \/ full = FALSE
    BY <1>0
  <2> QED
    BY <2>1, <2>2, <2>3, <2>4
<1>4. /\ k[Root] = "dir"
      /\ \A p \in Paths : k[p] \in {"none", "dir", "file"}
      /\ \A p \in Paths : p # Root /\ k[p] # "none" => k[Parent(p)] = "dir" /\ Parent(p) \in Paths
  BY ParentIsPath DEF Kinds
<1>5. \A d \in Paths : k[d] = "dir" =>
        /\ d \in DOMAIN o /\ DOMAIN o[d] = 1 .. Cardinality(Kids(k, d))
        /\ \A i \in DOMAIN o[d] : o[d][i] \in Kids(k, d) /\ SlotIn(o, o[d][i]) = i
        /\ \A p \in Kids(k, d) : SlotIn(o, p) \in DOMAIN o[d] /\ o[d][SlotIn(o, p)] = p
  BY OrderSlots
<1>6. \A d : Cardinality(Kids(k, d)) \in Nat
  BY KidsFinite
<1>7. DOMAIN o = {d \in Paths : k[d] = "dir"}
  BY DEF Orders
<1>8. /\ DOMAIN hdr = {q \in Paths : k[q] # "none"}
      /\ \A p \in DOMAIN hdr : k[p] = "dir" =>
           hdr[p] = [is_dir |-> 1, num_buckets |-> Cardinality(Kids(k, p)),
                     parent_index |-> SlotIn(o, p), xattr_num |-> 0]
      /\ \A p \in DOMAIN hdr : k[p] # "dir" =>
           hdr[p] = [is_dir |-> 0, num_buckets |-> fill,
                     parent_index |-> SlotIn(o, p), xattr_num |-> most]
      /\ hdr = [p \in DOMAIN hdr |-> hdr[p]]
  <2>1. hdr = [p \in {q \in Paths : k[q] # "none"} |->
                 IF k[p] = "dir"
                 THEN [NewDirHeader(SlotIn(o, p), 0) EXCEPT
                         !.num_buckets = Cardinality(Kids(k, p))]
                 ELSE [NewFileHeader(SlotIn(o, p)) EXCEPT
                         !.num_buckets = fill, !.xattr_num = most]]
    BY <1>1, <1>2, Zenon DEF Grown
  <2> QED
    BY <2>1 DEF NewDirHeader, NewFileHeader
<1>9. /\ \A s : s \in DOMAIN child <=> \E d \in DOMAIN o : \E i \in DOMAIN o[d] : s = <<d, i>>
      /\ \A d \in DOMAIN o : \A i \in DOMAIN o[d] : child[<<d, i>>] = o[d][i]
      /\ child = [s \in DOMAIN child |-> child[s]]
  <2>1. child = [s \in UNION {{d} \X DOMAIN o[d] : d \in DOMAIN o} |-> o[s[1]][s[2]]]
    BY <1>1, Zenon DEF Grown
  <2>2. \A s : s \in UNION {{d} \X DOMAIN o[d] : d \in DOMAIN o} <=>
                 \E d \in DOMAIN o : \E i \in DOMAIN o[d] : s = <<d, i>>
    OBVIOUS
  <2> QED
    BY <2>1, <2>2
<1>10. PICK n \in AttrNames, v \in AttrVals :
        xattr = [s \in attrs |-> [name |-> n, val |-> v, parent_index |-> s[2]]]
  BY <1>1, <1>2, Zenon DEF Grown
<1>11. data = files \X (1 .. fill)
  BY <1>1, <1>2, Zenon DEF Grown
<1>12. /\ \A p : p \in DOMAIN hdr <=> p \in Paths /\ k[p] # "none"
       /\ \A p \in DOMAIN hdr :
            /\ hdr[p].is_dir = (IF k[p] = "dir" THEN 1 ELSE 0) /\ hdr[p].parent_index = SlotIn(o, p)
            /\ k[p] = "dir" => hdr[p].num_buckets = Cardinality(Kids(k, p))
            /\ k[p] # "dir" => hdr[p].num_buckets = fill /\ hdr[p].xattr_num = most
  <2>1. ASSUME NEW p \in DOMAIN hdr
        PROVE  /\ hdr[p].is_dir = (IF k[p] = "dir" THEN 1 ELSE 0) /\ hdr[p].parent_index = SlotIn(o, p)
               /\ k[p] = "dir" => hdr[p].num_buckets = Cardinality(Kids(k, p))
               /\ k[p] # "dir" => hdr[p].num_buckets = fill /\ hdr[p].xattr_num = most
    <3>1. PICK c, x : c = Cardinality(Kids(k, p)) /\ x = SlotIn(o, p)
      OBVIOUS
    <3>2. CASE k[p] = "dir"
      <4>1. hdr[p] = [is_dir |-> 1, num_buckets |-> c, parent_index |-> x, xattr_num |-> 0]
        BY <1>8, <3>1, <3>2
      <4> QED
        BY <3>1, <3>2, <4>1
    <3>3. CASE k[p] # "dir"
      <4>1. hdr[p] = [is_dir |-> 0, num_buckets |-> fill, parent_index |-> x, xattr_num |-> most]
        BY <1>8, <3>1, <3>3
      <4> QED
        BY <3>1, <3>3, <4>1
    <3> QED
      BY <3>2, <3>3
  <2>2. \A p : p \in DOMAIN hdr <=> p \in Paths /\ k[p] # "none"
    BY <1>8
  <2> QED
    BY <2>1, <2>2
<1>13. \A p \in DOMAIN hdr : /\ p # Root => p \in Kids(k, Parent(p))
                             /\ SlotIn(o, p) \in Nat
  <2>1. ASSUME NEW p \in DOMAIN hdr, p # Root PROVE p \in Kids(k, Parent(p)) /\ SlotIn(o, p) \in Nat
    <3>1. p \in Kids(k, Parent(p)) /\ k[Parent(p)] = "dir" /\ Parent(p) \in Paths
      BY <1>4, <1>12, <2>1 DEF Kids
    <3> QED
      BY <1>5, <1>6, <3>1
  <2>2. SlotIn(o, Root) = 0
    BY DEF SlotIn
  <2> QED
    BY <2>1, <2>2
<1>14. \A x : /\ IsDir(x) <=> x \in Paths /\ k[x] = "dir"
              /\ IsFile(x) <=> x \in Paths /\ k[x] = "file"
  BY <1>4, <1>12 DEF IsDir, IsFile, Exists
<1>15. ASSUME NEW d \in DOMAIN o, NEW i \in DOMAIN o[d]
       PROVE  /\ o[d][i] \in DOMAIN hdr /\ o[d][i] # Root /\ Parent(o[d][i]) = d /\ i \in Nat \ {0}
              /\ i \in 1 .. Cardinality(Kids(k, d)) /\ SlotIn(o, o[d][i]) = i
  <2>1. PICK p, c : p = o[d][i] /\ c = Cardinality(Kids(k, d))
    OBVIOUS
  <2>2. d \in Paths /\ k[d] = "dir"
    BY <1>7
  <2>3. p \in Kids(k, d) /\ SlotIn(o, p) = i /\ i \in 1 .. c /\ c \in Nat
    BY <1>5, <1>6, <2>1, <2>2
  <2>4. p \in Paths /\ p # Root /\ k[p] # "none" /\ Parent(p) = d
    BY <2>3 DEF Kids
  <2>5. p \in DOMAIN hdr
    BY <1>12, <2>4
  <2> QED
    BY <2>1, <2>3, <2>4, <2>5
<1>16. StoresOK
  <2>1. IsStore(hdr, Paths, Header)
    <3>1. ASSUME NEW p \in DOMAIN hdr PROVE hdr[p] \in Header
      <4>1. PICK c \in Nat, x \in Nat : c = Cardinality(Kids(k, p)) /\ x = SlotIn(o, p)
        BY <1>6, <1>13
      <4>2. CASE k[p] = "dir"
        <5>1. hdr[p] = [is_dir |-> 1, num_buckets |-> c, parent_index |-> x, xattr_num |-> 0]
          BY <1>8, <4>1, <4>2
        <5> QED
          BY <5>1 DEF Header
      <4>3. CASE k[p] # "dir"
        <5>1. hdr[p] = [is_dir |-> 0, num_buckets |-> fill, parent_index |-> x, xattr_num |-> most]
          BY <1>8, <4>1, <4>3
        <5> QED
          BY <1>3, <5>1 DEF Header
      <4> QED
        BY <4>2, <4>3
    <3> QED
      BY <1>8, <1>12, <3>1 DEF IsStore
  <2>2. IsStore(child, Keys, Paths)
    <3>1. ASSUME NEW s \in DOMAIN child PROVE s \in Keys /\ child[s] \in Paths
      <4>1. PICK d \in DOMAIN o : \E i \in DOMAIN o[d] : s = <<d, i>>
        BY <1>9
      <4>2. PICK i \in DOMAIN o[d] : s = <<d, i>>
        BY <4>1
      <4> QED
        BY <1>7, <1>12, <1>9, <1>15, <4>2 DEF Keys
    <3> QED
      BY <1>9, <3>1 DEF IsStore
  <2>3. data \subseteq Keys
    BY <1>2, <1>3, <1>11 DEF Keys
  <2>4. IsStore(xattr, AttrKeys, Attr)
    <3>1. DOMAIN xattr = attrs /\ xattr = [s \in DOMAIN xattr |-> xattr[s]]
      BY <1>10
    <3>2. ASSUME NEW s \in DOMAIN xattr PROVE s \in AttrKeys /\ xattr[s] \in Attr
      <4>1. s[2] \in Int /\ s \in AttrKeys
        BY <1>2, <1>3, <3>1 DEF AttrKeys
      <4>2. xattr[s] = [name |-> n, val |-> v, parent_index |-> s[2]]
        BY <1>10, <3>1
      <4> QED
        BY <4>1, <4>2 DEF Attr
    <3> QED
      BY <3>1, <3>2 DEF IsStore
  <2>5. stats # NoStats /\ mounted
    BY CacheFSAssumption DEF StepsInit
  <2> QED
    BY <1>4, <1>14, RootIsPath, <2>1, <2>2, <2>3, <2>4, <2>5 DEF StoresOK
<1>17. CountsOK
  <2>1. ASSUME NEW s \in DOMAIN child PROVE IsDir(s[1]) /\ s[2] <= hdr[s[1]].num_buckets
    <3>1. PICK d \in DOMAIN o : \E i \in DOMAIN o[d] : s = <<d, i>>
      BY <1>9
    <3>2. PICK i \in DOMAIN o[d] : s = <<d, i>>
      BY <3>1
    <3>3. d \in Paths /\ k[d] = "dir" /\ s[1] = d /\ s[2] = i
      BY <1>7, <3>2
    <3>4. hdr[d].num_buckets = Cardinality(Kids(k, d))
      BY <1>12, <3>3
    <3> QED
      BY <1>6, <1>14, <1>15, <3>3, <3>4
  <2>2. ASSUME NEW d \in DOMAIN hdr, IsDir(d), NEW i \in 1 .. hdr[d].num_buckets
        PROVE  <<d, i>> \in DOMAIN child
    <3>1. d \in Paths /\ k[d] = "dir"
      BY <1>14, <2>2
    <3>2. hdr[d].num_buckets = Cardinality(Kids(k, d))
      BY <1>12, <3>1
    <3> QED
      BY <1>5, <1>9, <3>1, <3>2
  <2> QED
    BY <2>1, <2>2 DEF CountsOK
<1>18. ChildrenOK
  <2>1. ASSUME NEW s \in DOMAIN child
        PROVE  /\ child[s] # Root /\ Parent(child[s]) = s[1]
               /\ Exists(child[s]) /\ SlotOf(child[s]) = s[2]
    <3>1. PICK d \in DOMAIN o : \E i \in DOMAIN o[d] : s = <<d, i>>
      BY <1>9
    <3>2. PICK i \in DOMAIN o[d] : s = <<d, i>>
      BY <3>1
    <3>3. s[1] = d /\ s[2] = i /\ child[s] = o[d][i]
      BY <1>9, <3>2
    <3>4. o[d][i] \in DOMAIN hdr => SlotOf(o[d][i]) = SlotIn(o, o[d][i])
      BY <1>12 DEF SlotOf
    <3> QED
      BY <1>15, <3>3, <3>4 DEF Exists
  <2> QED
    BY <2>1 DEF ChildrenOK
<1>19. PathsOK
  <2>1. ASSUME NEW p \in DOMAIN hdr, p # Root
        PROVE  /\ IsDir(Parent(p)) /\ <<Parent(p), SlotOf(p)>> \in DOMAIN child
               /\ child[<<Parent(p), SlotOf(p)>>] = p
    <3>1. PICK d : d = Parent(p)
      OBVIOUS
    <3>2. d \in Paths /\ k[d] = "dir" /\ p \in Kids(k, d) /\ SlotOf(p) = SlotIn(o, p)
      BY <1>4, <1>12, <1>13, <2>1, <3>1 DEF SlotOf
    <3> QED
      BY <1>5, <1>9, <1>14, <3>1, <3>2
  <2> QED
    BY <2>1 DEF PathsOK
<1>20. BucketsOK
  <2>1. \A x : IsFile(x) => x \in files /\ hdr[x].num_buckets = fill
    BY <1>2, <1>12, <1>14 DEF IsFile, Exists
  <2>2. \A x \in files : IsFile(x)
    BY <1>2, <1>14
  <2> QED
    BY <1>11, <2>1, <2>2 DEF BucketsOK, DataKeysOf
<1>21. AttrsOK
  <2>1. \A x : IsFile(x) => x \in files /\ hdr[x].xattr_num = most
    BY <1>2, <1>12, <1>14 DEF IsFile, Exists
  <2>2. ASSUME NEW p \in files, NEW i \in 1 .. most PROVE AttrThere(p, i)
    <3>1. <<p, i>> \in attrs /\ <<p, i>>[2] = i
      BY <1>3
    <3>2. xattr[<<p, i>>] = [name |-> n, val |-> v, parent_index |-> i]
      BY <1>10, <3>1
    <3> QED
      BY <1>10, <3>1, <3>2, CacheFSAssumption DEF AttrThere
  <2> QED
    BY <1>3, <2>1, <2>2 DEF AttrsOK
<1> QED
  BY <1>16, <1>17, <1>18, <1>19, <1>20, <1>21, SMTT(60) DEF TreeOK

------------------------------------------------------------------------------
(* The theorems.                                                            *)

LEMMA StepsInvHolds == StepsSpec => []StepsInv
<1>1. StepsInit => StepsInv
  BY InitWorkers, InitTree DEF StepsInv
<1>2. StepsInv /\ [StepsNext]_stepVars => StepsInv'
  BY HandlerKeepsSteps, StutterKeepsSteps DEF StepsNext, Rest
<1> QED
  BY <1>1, <1>2, PTL DEF StepsSpec

\* However many threads serve handlers and however their requests mix: as long
\* as no header was written back over a newer one, what all of them leave is
\* one tree, with every bucket and attribute that its files count.
THEOREM QuietCorrect == StepsSpec => []QuietOK
BY StepsInvHolds, InvQuiet, PTL

\* And if the daemon is killed between any two requests, only paths and slots
\* that a handler was at work on are damaged.
THEOREM KillsLeave == StepsSpec => []KillLeaves
BY StepsInvHolds, InvKill, PTL

------------------------------------------------------------------------------
(* A handler that runs alone.                                               *)

\* The other workers are idle.
OnlyOne(w) == Busy(w) /\ \A v \in Workers : v # w => ~Busy(v)

\* The headers with another count for d, with another slot for q.
WithCount(h, d, n) == [h EXCEPT ![d].num_buckets = n]
WithSlot(h, q, i) == [h EXCEPT ![q].parent_index = i]

\* mkdir, create: the directory counts one more, then the path has its slot.
MakerSince(w) ==
  LET p == job[w].p
      d == Parent(p)
      n == Seen(2)[d].num_buckets + 1
  IN  /\ job[w].op \in {"mkdir", "create"} /\ job[w].arg = p
      /\ p \in Paths /\ p # Root /\ p \notin DOMAIN Seen(2)
      /\ d \in DOMAIN Seen(2) /\ Seen(2)[d].is_dir = 1
      /\ hdr = IF at[w] = "SetCount" THEN Seen(2) ELSE WithCount(Seen(2), d, n)
      /\ child = IF at[w] = "SetHeader" THEN CacheSet(Seen(3), <<d, n>>, p) ELSE Seen(3)
      /\ data = Seen(4) /\ xattr = Seen(5)
      /\ at[w] # "SetCount" => mem[w].i = n

\* What a removal makes of headers and slots, step by step.
RemoverHeaders(stage, h, d, n, t, i, p) ==
  IF stage \in {"GetCount", "SetLess"} THEN h
  ELSE IF stage \in {"SetSlot", "GetTenant", "SetTenant"} THEN WithCount(h, d, n - 1)
  ELSE IF stage \in {"DelLast", "DelHeader"} THEN WithSlot(WithCount(h, d, n - 1), t, i)
  ELSE CacheDelete(WithSlot(WithCount(h, d, n - 1), t, i), {p})

RemoverSlots(stage, c, d, n, t, i) ==
  IF stage \in {"GetCount", "SetLess", "SetSlot"} THEN c
  ELSE IF stage \in {"GetTenant", "SetTenant", "DelLast"} THEN CacheSet(c, <<d, i>>, t)
  ELSE CacheDelete(CacheSet(c, <<d, i>>, t), {<<d, n>>})

\* The keys that the loops of unlink have deleted when they come to turn k.
AttrsBefore(p, attrs, k) == {<<p, j>> : j \in {m \in 1 .. attrs : m < k}}
BucketsBefore(p, attrs, n, k) == {<<p, j>> : j \in {m \in 1 .. n : m + attrs < k}}

\* rmdir, unlink: headers and slots as above; at last an unlinked file's keys go.
RemoverSince(w) ==
  LET p == job[w].p
      d == Parent(p)
      own == mem[w].own
      n == Seen(2)[d].num_buckets
      t == Seen(3)[<<d, n>>]
  IN  /\ job[w].op \in {"rmdir", "unlink"} /\ job[w].arg = p
      /\ p \in Paths /\ p # Root /\ p \in DOMAIN Seen(2) /\ own = Seen(2)[p]
      /\ own.is_dir = (IF job[w].op = "rmdir" THEN 1 ELSE 0)
      /\ own.is_dir = 1 => own.num_buckets <= 0
      /\ hdr = RemoverHeaders(at[w], Seen(2), d, n, t, own.parent_index, p)
      /\ child = RemoverSlots(at[w], Seen(3), d, n, t, own.parent_index)
      /\ at[w] # "DelKeys" => data = Seen(4) /\ xattr = Seen(5)
      /\ at[w] \in {"SetSlot", "GetTenant", "SetTenant", "DelLast"} => mem[w].i = n
      /\ at[w] \in {"GetTenant", "SetTenant", "DelLast"} => mem[w].who = t
      /\ at[w] = "DelKeys" =>
           /\ mem[w].i >= 1
           /\ xattr = CacheDelete(Seen(5), AttrsBefore(p, own.xattr_num, mem[w].i))
           /\ data = Seen(4) \ BucketsBefore(p, own.xattr_num, own.num_buckets, mem[w].i)

\* write: buckets have come, which the header does not count yet.
WriterSince(w) ==
  LET p == job[w].p
      n == copy[w].num_buckets
  IN  /\ job[w].arg = p /\ p \in Paths /\ p \in DOMAIN Seen(2) /\ Seen(2)[p].is_dir = 0
      /\ hdr = Seen(2) /\ child = Seen(3) /\ xattr = Seen(5)
      /\ data = Seen(4) \cup {<<p, j>> : j \in Seen(2)[p].num_buckets + 1 .. n}
      /\ n + mem[w].i <= MaxBuckets

\* AttrAt and Stops of CacheFS, of headers and attributes as they were.
AttrIn(x, p, i) ==
  IF <<p, i>> \in DOMAIN x THEN x[<<p, i>>] ELSE [name |-> Junk, val |-> Junk, parent_index |-> i]

StopsIn(h, x, p, n) ==
  {i \in 1 .. h[p].xattr_num :
     /\ <<p, i>> \in DOMAIN x => x[<<p, i>>].name \in {n, Junk}
     /\ \A j \in 1 .. i - 1 : ~(<<p, j>> \in DOMAIN x /\ x[<<p, j>>].name = n)}

\* setxattr, removexattr: the header counts them, then the keys change.
AttrWriterSince(w) ==
  LET p == job[w].p
      n == copy[w].xattr_num
      old == Seen(2)[p].xattr_num
      i == mem[w].i
  IN  /\ p \in Paths /\ p \in DOMAIN Seen(2)
      /\ hdr = IF at[w] = "SetNum" THEN Seen(2) ELSE [Seen(2) EXCEPT ![p].xattr_num = n]
      /\ child = Seen(3) /\ data = Seen(4)
      /\ xattr = IF at[w] = "DelAttr"
                 THEN CacheSet(Seen(5), <<p, i>>, [AttrIn(Seen(5), p, n + 1) EXCEPT !.parent_index = i])
                 ELSE Seen(5)
      /\ job[w].op = "setxattr" =>
           /\ n = old + 1 /\ n <= MaxAttrs
           /\ job[w].arg = <<p, mem[w].who[1]>>
      /\ job[w].op = "removexattr" =>
           old = n + 1 /\ \E m \in AttrNames : job[w].arg = <<p, m>> /\ i \in StopsIn(Seen(2), Seen(5), p, m)

\* What a handler that runs alone has done before its next request.
Since(w) ==
  /\ stats = Seen(1)
  /\ at[w] \in {"SetCount", "SetEntry", "SetHeader"} => MakerSince(w)
  /\ at[w] \in {"GetCount", "SetLess", "SetSlot", "GetTenant", "SetTenant", "DelLast",
                "DelHeader", "DelKeys"} => RemoverSince(w)
  /\ at[w] = "SetBucket" => WriterSince(w)
  /\ at[w] \in {"SetNum", "SetAttr", "MoveAttr", "DelAttr"} => AttrWriterSince(w)

\* Unless handlers have overlapped, none runs, or one does and nothing clashed.
AloneInv ==
  ~overlapped =>
    \/ ~Alone /\ AllIdle
    \/ Alone /\ ~clashed /\ \E w \in Workers : OnlyOne(w) /\ Since(w)

------------------------------------------------------------------------------
(* What a caller sees while a handler runs alone.                           *)

\* A step after which the same is seen.
SeenSame ==
  Seen(1)' = Seen(1) /\ Seen(2)' = Seen(2) /\ Seen(3)' = Seen(3) /\ Seen(4)' = Seen(4) /\ Seen(5)' = Seen(5)

\* What is seen now, or next, is what is in the stores then.
SeenNow == stats = Seen(1) /\ hdr = Seen(2) /\ child = Seen(3) /\ data = Seen(4) /\ xattr = Seen(5)

SeenNext ==
  /\ Seen(1)' = stats' /\ Seen(2)' = hdr' /\ Seen(3)' = child' /\ Seen(4)' = data' /\ Seen(5)' = xattr'

LEMMA NotAlone ==
  ASSUME ~Alone
  PROVE  SeenNow
BY DEF SeenNow, Seen, Alone, stores

LEMMA FirstSeen ==
  ASSUME before' = stores
  PROVE  /\ Alone' /\ Seen(1)' = stats /\ Seen(2)' = hdr /\ Seen(3)' = child
         /\ Seen(4)' = data /\ Seen(5)' = xattr
<1>1. before' # <<>>
  BY DEF stores
<1>2. before'[1] = stats /\ before'[2] = hdr /\ before'[3] = child /\ before'[4] = data /\ before'[5] = xattr
  BY DEF stores
<1> QED
  BY <1>1, <1>2 DEF Seen, Alone

LEMMA StillSeen ==
  ASSUME Alone, before' = before
  PROVE  Alone' /\ SeenSame
BY DEF Alone, Seen, SeenSame

LEMMA LastSeen ==
  ASSUME before' = <<>>
  PROVE  ~Alone' /\ SeenNext
BY DEF Alone, Seen, SeenNext, stores

\* While w runs alone, its steps are the only ones.
LEMMA OneAtWork ==
  ASSUME AloneInv, ~overlapped, NEW w \in Workers, Busy(w)
  PROVE  Alone /\ ~clashed /\ OnlyOne(w) /\ Since(w)
BY DEF AloneInv, AllIdle, OnlyOne

\* Nobody else holds a copy: w's writes clash with none.
LEMMA AloneClashes ==
  ASSUME NEW w \in Workers, OnlyOne(w), ~clashed, NEW p, NEW h, PutHeader(w, p, h)
  PROVE  ~clashed'
<1>1. \A v \in Workers \ {w} : Pending(v) = {}
  BY DEF OnlyOne, Busy, Pending
<1> QED
  BY <1>1 DEF PutHeader

LEMMA AloneGoes ==
  ASSUME Shape, AloneInv, ~overlapped, NEW w \in Workers, Busy(w), NEW next, next # "idle",
         Goes(w, next)
  PROVE  /\ Alone /\ ~clashed /\ Since(w) /\ OnlyOne(w) /\ Alone' /\ OnlyOne(w)'
         /\ SeenSame /\ at'[w] = next /\ job' = job /\ mounted' = mounted /\ ret' = ret
<1>1. Alone /\ ~clashed /\ Since(w) /\ OnlyOne(w)
  BY OneAtWork
<1>2. /\ at'[w] = next /\ job' = job /\ mounted' = mounted
      /\ \A v \in Workers : v # w => at'[v] = at[v]
  BY GoesShape
<1>3. before' = before /\ ret' = ret
  BY DEF Goes
<1>4. Alone' /\ SeenSame
  BY <1>1, <1>3, StillSeen
<1>5. OnlyOne(w)'
  BY <1>1, <1>2 DEF OnlyOne, Busy
<1> QED
  BY <1>1, <1>2, <1>3, <1>4, <1>5

\* A header written back whole is the header with one field changed.
LEMMA PutIsCount ==
  ASSUME TreeOK, NEW d \in DOMAIN hdr, NEW n
  PROVE  CacheSet(hdr, d, [hdr[d] EXCEPT !.num_buckets = n]) = WithCount(hdr, d, n)
BY DEF TreeOK, StoresOK, IsStore, CacheSet, WithCount

LEMMA PutIsSlot ==
  ASSUME TreeOK, NEW d \in DOMAIN hdr, NEW n
  PROVE  CacheSet(hdr, d, [hdr[d] EXCEPT !.parent_index = n]) = WithSlot(hdr, d, n)
BY DEF TreeOK, StoresOK, IsStore, CacheSet, WithSlot

LEMMA PutIsNum ==
  ASSUME TreeOK, NEW d \in DOMAIN hdr, NEW n
  PROVE  CacheSet(hdr, d, [hdr[d] EXCEPT !.xattr_num = n]) = [hdr EXCEPT ![d].xattr_num = n]
BY DEF TreeOK, StoresOK, IsStore, CacheSet

LEMMA SetCountSince ==
  ASSUME TreeOK, WorkersOK, NEW w \in Workers, Since(w), SetCount(w), SeenSame,
         at'[w] = "SetEntry", job' = job
  PROVE  Since(w)'
<1> PICK p : p = job[w].p
  OBVIOUS
<1> PICK d : d = Parent(p)
  OBVIOUS
<1> PICK n : n = Seen(2)[d].num_buckets + 1
  OBVIOUS
<1>1. at[w] = "SetCount" /\ MakerSince(w) /\ MakerOK(w)
  BY DEF SetCount, Since, WorkersOK, WorkerOK
<1>2. copy[w] = hdr[d] /\ hdr = Seen(2) /\ d \in DOMAIN hdr
  BY <1>1 DEF MakerOK, MakerSince, Dir
<1>3. /\ hdr' = CacheSet(hdr, d, [hdr[d] EXCEPT !.num_buckets = n])
      /\ stats' = stats /\ child' = child /\ data' = data /\ xattr' = xattr
      /\ mem' = [mem EXCEPT ![w].i = n]
  BY <1>2 DEF SetCount, PutHeader
<1>4. hdr' = WithCount(Seen(2), d, n)
  BY <1>2, <1>3, PutIsCount
<1>5. mem'[w].i = n
  <2>1. n \in Int
    BY <1>2, HeaderIs DEF Exists
  <2> QED
    BY <1>3, <2>1, OnlyI DEF WorkersOK, SetCount
<1>6. MakerSince(w)'
  BY <1>1, <1>3, <1>4, <1>5 DEF MakerSince, SeenSame
<1> QED
  BY <1>3, <1>6 DEF Since, SeenSame

LEMMA SetEntrySince ==
  ASSUME TreeOK, WorkersOK, NEW w \in Workers, Since(w), SetEntry(w), SeenSame,
         at'[w] = "SetHeader", job' = job
  PROVE  Since(w)'
<1>1. at[w] = "SetEntry" /\ MakerSince(w)
  BY DEF SetEntry, Since
<1>2. /\ child' = CacheSet(child, <<Parent(job[w].p), mem[w].i>>, job[w].p)
      /\ stats' = stats /\ hdr' = hdr /\ data' = data /\ xattr' = xattr /\ mem' = mem
  BY DEF SetEntry
<1>3. MakerSince(w)'
  BY <1>1, <1>2 DEF MakerSince, SeenSame
<1> QED
  BY <1>2, <1>3 DEF Since, SeenSame

LEMMA GetCountSince ==
  ASSUME NEW w \in Workers, Since(w), GetCount(w), SeenSame, at'[w] = "SetLess", job' = job
  PROVE  Since(w)'
<1>1. at[w] = "GetCount" /\ RemoverSince(w) /\ mem' = mem
      /\ stats' = stats /\ hdr' = hdr /\ child' = child /\ data' = data /\ xattr' = xattr
  BY DEF GetCount, Since, stores
<1>2. RemoverSince(w)'
  BY <1>1 DEF RemoverSince, RemoverHeaders, RemoverSlots, SeenSame
<1> QED
  BY <1>1, <1>2 DEF Since, SeenSame

LEMMA SetLessSince ==
  ASSUME TreeOK, WorkersOK, NEW w \in Workers, Since(w), SetLess(w), SeenSame,
         at'[w] = "SetSlot", job' = job
  PROVE  Since(w)'
<1> PICK d : d = Parent(job[w].p)
  OBVIOUS
<1> PICK n : n = Seen(2)[d].num_buckets
  OBVIOUS
<1>1. at[w] = "SetLess" /\ RemoverSince(w) /\ RemoverOK(w)
  BY DEF SetLess, Since, WorkersOK, WorkerOK
<1>2. copy[w] = hdr[d] /\ hdr = Seen(2) /\ d \in DOMAIN hdr
  BY <1>1 DEF RemoverOK, RemoverSince, RemoverHeaders, Dir, IsDir, Exists
<1>3. /\ hdr' = CacheSet(hdr, d, [hdr[d] EXCEPT !.num_buckets = n - 1])
      /\ stats' = stats /\ child' = child /\ data' = data /\ xattr' = xattr
      /\ mem' = [mem EXCEPT ![w].i = n] /\ copy' = copy
  BY <1>2 DEF SetLess, PutHeader
<1>4. hdr' = WithCount(Seen(2), d, n - 1)
  BY <1>2, <1>3, PutIsCount
<1>5. mem'[w].i = n /\ mem'[w].own = mem[w].own
  <2>1. n \in Int
    BY <1>2, HeaderIs DEF Exists
  <2> QED
    BY <1>3, <2>1, OnlyI DEF WorkersOK
<1>6. RemoverSince(w)'
  BY <1>1, <1>3, <1>4, <1>5 DEF RemoverSince, RemoverHeaders, RemoverSlots, SeenSame
<1> QED
  BY <1>3, <1>6 DEF Since, SeenSame

LEMMA SetSlotSince ==
  ASSUME WorkersOK, NEW w \in Workers, Since(w), SetSlot(w), SeenSame,
         at'[w] = "GetTenant", job' = job
  PROVE  Since(w)'
<1> PICK d : d = Parent(job[w].p)
  OBVIOUS
<1> PICK t : t = Seen(3)[<<d, Seen(2)[d].num_buckets>>]
  OBVIOUS
<1>1. at[w] = "SetSlot" /\ RemoverSince(w)
  BY DEF SetSlot, Since
<1>2. child[<<d, mem[w].i>>] = t
  BY <1>1 DEF RemoverSince, RemoverSlots
<1>3. /\ child' = CacheSet(child, <<d, mem[w].own.parent_index>>, t)
      /\ stats' = stats /\ hdr' = hdr /\ data' = data /\ xattr' = xattr
      /\ mem' = [mem EXCEPT ![w].who = t] /\ copy' = copy
  BY <1>2 DEF SetSlot
<1>4. mem'[w].who = t /\ mem'[w].own = mem[w].own /\ mem'[w].i = mem[w].i
  <2>1. LocalsOK /\ mem' = [mem EXCEPT ![w].who = t] /\ copy' = copy
    BY <1>3 DEF WorkersOK
  <2> QED
    BY <2>1, OnlyWho, ZenonT(60)
<1>5. RemoverSince(w)'
  BY <1>1, <1>3, <1>4 DEF RemoverSince, RemoverHeaders, RemoverSlots, SeenSame
<1> QED
  BY <1>3, <1>5 DEF Since, SeenSame

LEMMA GetTenantSince ==
  ASSUME NEW w \in Workers, Since(w), GetTenant(w), SeenSame, at'[w] = "SetTenant", job' = job
  PROVE  Since(w)'
<1>1. at[w] = "GetTenant" /\ RemoverSince(w) /\ mem' = mem
      /\ stats' = stats /\ hdr' = hdr /\ child' = child /\ data' = data /\ xattr' = xattr
  BY DEF GetTenant, Since, stores
<1>2. RemoverSince(w)'
  BY <1>1 DEF RemoverSince, RemoverHeaders, RemoverSlots, SeenSame
<1> QED
  BY <1>1, <1>2 DEF Since, SeenSame

LEMMA SetTenantSince ==
  ASSUME TreeOK, WorkersOK, NEW w \in Workers, Since(w), SetTenant(w), SeenSame,
         at'[w] = "DelLast", job' = job
  PROVE  Since(w)'
<1> PICK t, i : t = mem[w].who /\ i = mem[w].own.parent_index
  OBVIOUS
<1>1. at[w] = "SetTenant" /\ RemoverSince(w) /\ RemoverOK(w)
  BY DEF SetTenant, Since, WorkersOK, WorkerOK
<1>2. copy[w] = hdr[t] /\ t \in DOMAIN hdr
  BY <1>1 DEF RemoverOK, Exists
<1>3. /\ hdr' = CacheSet(hdr, t, [hdr[t] EXCEPT !.parent_index = i])
      /\ stats' = stats /\ child' = child /\ data' = data /\ xattr' = xattr /\ mem' = mem
  BY <1>2 DEF SetTenant, PutHeader
<1>4. hdr' = WithSlot(hdr, t, i)
  BY <1>2, <1>3, PutIsSlot, SMTT(60)
<1>5. RemoverSince(w)'
  BY <1>1, <1>3, <1>4, ZenonT(60) DEF RemoverSince, RemoverHeaders, RemoverSlots, SeenSame
<1> QED
  BY <1>3, <1>5 DEF Since, SeenSame

LEMMA DelLastSince ==
  ASSUME NEW w \in Workers, Since(w), DelLast(w), SeenSame, at'[w] = "DelHeader", job' = job
  PROVE  Since(w)'
<1>1. at[w] = "DelLast" /\ RemoverSince(w)
  BY DEF DelLast, Since
<1>2. /\ child' = CacheDelete(child, {<<Parent(job[w].p), mem[w].i>>})
      /\ stats' = stats /\ hdr' = hdr /\ data' = data /\ xattr' = xattr /\ mem' = mem
  BY SMTT(60) DEF DelLast
<1>3. RemoverSince(w)'
  BY <1>1, <1>2 DEF RemoverSince, RemoverHeaders, RemoverSlots, SeenSame
<1> QED
  BY <1>2, <1>3 DEF Since, SeenSame

\* unlink goes on, with no key deleted yet.
LEMMA DelHeaderSince ==
  ASSUME TreeOK, WorkersOK, NEW w \in Workers, Since(w), DelHeader(w), job[w].op # "rmdir",
         SeenSame, at'[w] = "DelKeys", job' = job
  PROVE  Since(w)'
<1> PICK p, own : p = job[w].p /\ own = mem[w].own
  OBVIOUS
<1>1. at[w] = "DelHeader" /\ RemoverSince(w)
  BY DEF DelHeader, Since
<1>2. /\ hdr' = CacheDelete(hdr, {p}) /\ stats' = stats /\ child' = child
      /\ data' = data /\ xattr' = xattr /\ mem' = [mem EXCEPT ![w].i = 1] /\ copy' = copy
  BY DEF DelHeader
<1>3. mem'[w].i = 1 /\ mem'[w].own = own
  <2>1. LocalsOK /\ 1 \in Int
    BY DEF WorkersOK
  <2> QED
    BY <1>2, <2>1, OnlyI
<1>4. own.xattr_num \in Int /\ own.num_buckets \in Nat
  BY DEF WorkersOK, LocalsOK, Header
<1>5. own.xattr_num >= 0
  <2>1. RemoverOK(w)
    BY <1>1, SMTT(60) DEF WorkersOK, WorkerOK
  <2>2. IsFile(p) /\ own = hdr[p]
    BY <1>1, <2>1, ZenonT(60) DEF RemoverOK, RemoverSince, IsFile
  <2> QED
    BY <2>2 DEF TreeOK, AttrsOK, IsFile, Exists
<1>6. AttrsBefore(p, own.xattr_num, 1) = {} /\ BucketsBefore(p, own.xattr_num, own.num_buckets, 1) = {}
  BY <1>4, <1>5 DEF AttrsBefore, BucketsBefore
<1>7. CacheDelete(xattr, {}) = xattr
  BY DEF CacheDelete, TreeOK, StoresOK, IsStore
<1>8. /\ xattr' = CacheDelete(Seen(5)', AttrsBefore(p, own.xattr_num, mem'[w].i))
      /\ data' = Seen(4)' \ BucketsBefore(p, own.xattr_num, own.num_buckets, mem'[w].i)
  <2>1. data = Seen(4) /\ xattr = Seen(5)
    BY <1>1 DEF RemoverSince
  <2>2. data = data \ {}
    BY SMTT(60)
  <2> QED
    BY <1>2, <1>3, <1>6, <1>7, <2>1, <2>2, SMTT(60) DEF SeenSame
<1>9. hdr' = RemoverHeaders("DelKeys", Seen(2), Parent(p), Seen(2)[Parent(p)].num_buckets,
               Seen(3)[<<Parent(p), Seen(2)[Parent(p)].num_buckets>>], own.parent_index, p)
  BY <1>1, <1>2, SMTT(60) DEF RemoverSince, RemoverHeaders
<1>10. child' = RemoverSlots("DelKeys", Seen(3), Parent(p), Seen(2)[Parent(p)].num_buckets,
               Seen(3)[<<Parent(p), Seen(2)[Parent(p)].num_buckets>>], own.parent_index)
  BY <1>1, <1>2, SMTT(60) DEF RemoverSince, RemoverSlots
<1>11. RemoverSince(w)'
  BY <1>1, <1>3, <1>8, <1>9, <1>10, SMTT(60) DEF RemoverSince, SeenSame
<1> QED
  BY <1>2, <1>11 DEF Since, SeenSame

LEMMA DeleteTwice ==
  ASSUME NEW x, NEW S, NEW T
  PROVE  CacheDelete(CacheDelete(x, S), T) = CacheDelete(x, S \cup T)
BY DEF CacheDelete

\* One more key is gone: an attribute, then a bucket.
LEMMA DelKeysSince ==
  ASSUME WorkersOK, NEW w \in Workers, Since(w), DelKeys(w), SeenSame,
         at'[w] = "DelKeys", job' = job
  PROVE  Since(w)'
<1> PICK p, own, attrs, n, i : /\ p = job[w].p /\ own = mem[w].own /\ i = mem[w].i
                               /\ attrs = own.xattr_num /\ n = own.num_buckets
  OBVIOUS
<1> DEFINE A(k) == AttrsBefore(p, attrs, k)
           B(k) == BucketsBefore(p, attrs, n, k)
<1>1. at[w] = "DelKeys" /\ RemoverSince(w) /\ i <= attrs + n
  BY DEF DelKeys, Since
<1>2. /\ stats' = stats /\ hdr' = hdr /\ child' = child /\ mem' = [mem EXCEPT ![w].i = i + 1]
      /\ copy' = copy
      /\ \/ i <= attrs /\ xattr' = CacheDelete(xattr, {<<p, i>>}) /\ data' = data
         \/ i > attrs /\ data' = data \ {<<p, i - attrs>>} /\ xattr' = xattr
  BY DEF DelKeys, WorkersOK, LocalsOK, Header
<1>3. attrs \in Int /\ n \in Nat /\ i \in Int /\ attrs >= 0
  BY <1>1 DEF WorkersOK, LocalsOK, WorkerOK, DeleterOK, Header
<1>4. mem'[w].i = i + 1 /\ mem'[w].own = own
  <2>1. i + 1 \in Int
    BY <1>3, SMTT(60)
  <2> QED
    BY <1>2, <2>1, OnlyI DEF WorkersOK
<1>5. i >= 1 /\ xattr = CacheDelete(Seen(5), A(i)) /\ data = Seen(4) \ B(i)
  BY <1>1 DEF RemoverSince
<1>6. xattr' = CacheDelete(Seen(5), A(i + 1)) /\ data' = Seen(4) \ B(i + 1)
  <2>1. CASE i <= attrs /\ xattr' = CacheDelete(xattr, {<<p, i>>}) /\ data' = data
    <3>1. A(i) \cup {<<p, i>>} = A(i + 1)
      <4>1. {m \in 1 .. attrs : m < i + 1} = {m \in 1 .. attrs : m < i} \cup {i}
        BY <1>3, <1>5, <2>1
      <4> QED
        BY <4>1 DEF AttrsBefore
    <3>2. B(i) = B(i + 1)
      <4>1. {m \in 1 .. n : m + attrs < i} = {m \in 1 .. n : m + attrs < i + 1}
        BY <1>3, <2>1
      <4> QED
        BY <4>1 DEF BucketsBefore
    <3> HIDE DEF A, B
    <3> QED
      BY <1>5, <2>1, <3>1, <3>2, DeleteTwice
  <2>2. CASE i > attrs /\ data' = data \ {<<p, i - attrs>>} /\ xattr' = xattr
    <3>1. A(i) = A(i + 1)
      <4>1. {m \in 1 .. attrs : m < i} = {m \in 1 .. attrs : m < i + 1}
        BY <1>3, <2>2
      <4> QED
        BY <4>1 DEF AttrsBefore
    <3>2. B(i + 1) = B(i) \cup {<<p, i - attrs>>}
      <4>1. {m \in 1 .. n : m + attrs < i + 1} = {m \in 1 .. n : m + attrs < i} \cup {i - attrs}
        BY <1>1, <1>3, <1>5, <2>2
      <4> QED
        BY <4>1 DEF BucketsBefore
    <3> HIDE DEF A, B
    <3> QED
      BY <1>5, <2>2, <3>1, <3>2
  <2> QED
    BY <1>2, <2>1, <2>2
<1>7. /\ xattr' = CacheDelete(Seen(5)', AttrsBefore(p, attrs, mem'[w].i))
      /\ data' = Seen(4)' \ BucketsBefore(p, attrs, n, mem'[w].i)
      /\ mem'[w].i >= 1
  BY <1>3, <1>4, <1>5, <1>6, SMTT(60) DEF SeenSame
<1> HIDE DEF A, B
<1>8. RemoverSince(w)'
  BY <1>1, <1>2, <1>4, <1>7, ZenonT(60) DEF RemoverSince, SeenSame
<1> QED
  BY <1>2, <1>8 DEF Since, SeenSame

\* One more bucket is stored.
LEMMA SetBucketSince ==
  ASSUME TreeOK, WorkersOK, NEW w \in Workers, Since(w), SetBucket(w), SeenSame,
         at'[w] = "SetBucket", job' = job
  PROVE  Since(w)'
<1> PICK p, n, old, i : /\ p = job[w].p /\ n = copy[w].num_buckets
                        /\ old = Seen(2)[p].num_buckets /\ i = mem[w].i
  OBVIOUS
<1>1. at[w] = "SetBucket" /\ WriterSince(w) /\ WriterOK(w)
  BY DEF SetBucket, Since, WorkersOK, WorkerOK
<1>2. /\ data' = data \cup {<<p, n + 1>>} /\ stats' = stats /\ hdr' = hdr /\ child' = child
      /\ xattr' = xattr /\ copy' = [copy EXCEPT ![w].num_buckets = n + 1]
      /\ mem' = [mem EXCEPT ![w].i = @ - 1]
  BY DEF SetBucket
<1>3. n \in Nat /\ old \in Nat /\ n >= old /\ i \in Nat
  <2>1. Exists(p) /\ hdr = Seen(2) /\ n >= hdr[p].num_buckets /\ i \in Nat
    BY <1>1 DEF WriterOK, WriterSince, IsFile
  <2>2. copy[w] \in Header
    BY DEF WorkersOK, LocalsOK
  <2> QED
    BY <2>1, <2>2, HeaderIs DEF Header
<1>4. copy'[w].num_buckets = n + 1 /\ mem'[w].i = i - 1
  <2>1. /\ copy[w] \in Header /\ mem[w] = [own |-> mem[w].own, i |-> i, who |-> mem[w].who]
        /\ copy = [v \in Workers |-> copy[v]] /\ mem = [v \in Workers |-> mem[v]]
    BY DEF WorkersOK, LocalsOK
  <2>2. copy'[w] = [copy[w] EXCEPT !.num_buckets = n + 1] /\ mem'[w] = [mem[w] EXCEPT !.i = i - 1]
    BY <1>2, <2>1
  <2> QED
    BY <2>1, <2>2 DEF Header
<1>5. data' = Seen(4) \cup {<<p, j>> : j \in old + 1 .. n + 1}
  <2>1. old + 1 .. n + 1 = (old + 1 .. n) \cup {n + 1}
    BY <1>3
  <2>2. data = Seen(4) \cup {<<p, j>> : j \in old + 1 .. n}
    BY <1>1 DEF WriterSince
  <2> QED
    BY <1>2, <2>1, <2>2
<1>6. (n + 1) + (i - 1) <= MaxBuckets
  BY <1>1, <1>3, CacheFSAssumption DEF WriterSince
<1>7. WriterSince(w)'
  BY <1>1, <1>2, <1>4, <1>5, <1>6 DEF WriterSince, SeenSame
<1> QED
  BY <1>2, <1>7 DEF Since, SeenSame

LEMMA SetNumSince ==
  ASSUME TreeOK, WorkersOK, NEW w \in Workers, Since(w), SetNum(w), SeenSame,
         at'[w] \in {"SetAttr", "MoveAttr"}, job' = job
  PROVE  Since(w)'
<1> PICK p, n : p = job[w].p /\ n = copy[w].xattr_num
  OBVIOUS
<1>1. at[w] = "SetNum" /\ AttrWriterSince(w) /\ AttrWriterOK(w)
  BY DEF SetNum, Since, WorkersOK, WorkerOK
<1>2. p \in DOMAIN hdr /\ hdr = Seen(2) /\ copy[w] = [hdr[p] EXCEPT !.xattr_num = n]
  BY <1>1 DEF AttrWriterSince, AttrWriterOK, Exists
<1>3. /\ hdr' = CacheSet(hdr, p, copy[w]) /\ stats' = stats /\ child' = child
      /\ data' = data /\ xattr' = xattr /\ mem' = mem /\ copy' = copy
  BY DEF SetNum, PutHeader
<1>4. hdr' = [Seen(2) EXCEPT ![p].xattr_num = n]
  BY <1>2, <1>3, PutIsNum
<1>5. AttrWriterSince(w)'
  BY <1>1, <1>3, <1>4 DEF AttrWriterSince, SeenSame
<1> QED
  BY <1>3, <1>5 DEF Since, SeenSame

LEMMA MoveAttrSince ==
  ASSUME NEW w \in Workers, Since(w), MoveAttr(w), SeenSame, at'[w] = "DelAttr", job' = job
  PROVE  Since(w)'
<1> PICK p, n, i : p = job[w].p /\ n = copy[w].xattr_num /\ i = mem[w].i
  OBVIOUS
<1>1. at[w] = "MoveAttr" /\ AttrWriterSince(w)
  BY DEF MoveAttr, Since
<1>2. /\ xattr' = CacheSet(xattr, <<p, i>>, [AttrAt(p, n + 1) EXCEPT !.parent_index = i])
      /\ stats' = stats /\ hdr' = hdr /\ child' = child /\ data' = data
      /\ mem' = mem /\ copy' = copy
  BY DEF MoveAttr
<1>3. AttrAt(p, n + 1) = AttrIn(Seen(5), p, n + 1)
  BY <1>1 DEF AttrAt, AttrIn, AttrWriterSince
<1>4. AttrWriterSince(w)'
  BY <1>1, <1>2, <1>3 DEF AttrWriterSince, SeenSame
<1> QED
  BY <1>2, <1>4 DEF Since, SeenSame

\* A handler that starts when none runs finds the stores as they are.
Finds ==
  /\ Seen(1)' = stats /\ Seen(2)' = hdr /\ Seen(3)' = child /\ Seen(4)' = data /\ Seen(5)' = xattr
  /\ stats' = stats /\ hdr' = hdr /\ child' = child /\ data' = data /\ xattr' = xattr

LEMMA StartAlone ==
  ASSUME Shape, AloneInv, NEW w \in Workers, NEW op, NEW p, NEW arg, NEW next, next # "idle",
         Start(w, op, p, arg, next), ~overlapped'
  PROVE  /\ Alone' /\ ~clashed' /\ OnlyOne(w)' /\ Finds
         /\ at'[w] = next /\ job'[w] = [op |-> op, p |-> p, arg |-> arg]
<1>1. AllIdle /\ before' = stores /\ ~clashed' /\ stores' = stores
  BY DEF Start
<1>2. Alone' /\ Finds
  BY <1>1, FirstSeen DEF Finds, stores
<1>3. /\ at'[w] = next /\ job'[w] = [op |-> op, p |-> p, arg |-> arg]
      /\ \A v \in Workers : v # w => at'[v] = at[v]
  BY DEF Start, Shape
<1>4. OnlyOne(w)'
  BY <1>1, <1>3 DEF OnlyOne, Busy, AllIdle
<1> QED
  BY <1>1, <1>2, <1>3, <1>4

LEMMA MakeStartSince ==
  ASSUME LockInv, AloneInv, TreeOK, WorkersOK, NEW w \in Workers, NEW p \in Paths,
         NEW op \in {"mkdir", "create"}, MakeStart(w, op, p), ~overlapped'
  PROVE  Alone' /\ ~clashed' /\ OnlyOne(w)' /\ Since(w)'
<1>1. Absent(p) /\ Start(w, op, p, p, "SetCount")
  BY DEF MakeStart
<1>2. /\ Alone' /\ ~clashed' /\ OnlyOne(w)' /\ Finds /\ at'[w] = "SetCount"
      /\ job'[w] = [op |-> op, p |-> p, arg |-> p]
  BY <1>1, StartAlone DEF LockInv
<1>3. MakerSince(w)'
  BY <1>1, <1>2 DEF MakerSince, Finds, Absent, IsDir, Exists
<1> QED
  BY <1>2, <1>3 DEF Since, Finds

LEMMA RemoveStartSince ==
  ASSUME LockInv, AloneInv, TreeOK, WorkersOK, NEW w \in Workers, NEW p \in Paths,
         NEW op \in {"rmdir", "unlink"}, RemoveStart(w, op, p), ~overlapped'
  PROVE  Alone' /\ ~clashed' /\ OnlyOne(w)' /\ Since(w)'
<1>1. /\ p # Root /\ Start(w, op, p, p, "GetCount") /\ Exists(p)
      /\ op = "rmdir" => hdr[p].is_dir = 1 /\ hdr[p].num_buckets <= 0
      /\ op = "unlink" => hdr[p].is_dir = 0
      /\ copy' = copy /\ mem' = [mem EXCEPT ![w].own = hdr[p]]
  BY DEF RemoveStart, IsDir, IsFile
<1>2. /\ Alone' /\ ~clashed' /\ OnlyOne(w)' /\ Finds /\ at'[w] = "GetCount"
      /\ job'[w] = [op |-> op, p |-> p, arg |-> p]
  BY <1>1, StartAlone DEF LockInv
<1>3. mem'[w].own = hdr[p]
  BY <1>1, PutOwn, HeaderIs DEF WorkersOK
<1>4. RemoverSince(w)'
  BY <1>1, <1>2, <1>3 DEF RemoverSince, RemoverHeaders, RemoverSlots, Finds, Exists
<1> QED
  BY <1>2, <1>4 DEF Since, Finds

LEMMA WriteStartSince ==
  ASSUME LockInv, AloneInv, TreeOK, WorkersOK, NEW w \in Workers, NEW p \in Paths,
         NEW n \in 0 .. MaxBuckets, WriteStart(w, p, n), ~overlapped'
  PROVE  Alone' /\ ~clashed' /\ OnlyOne(w)' /\ Since(w)'
<1>1. /\ IsFile(p) /\ Start(w, "write", p, p, "SetBucket")
      /\ hdr[p].num_buckets + n <= MaxBuckets
      /\ copy' = [copy EXCEPT ![w] = hdr[p]] /\ mem' = [mem EXCEPT ![w].i = n]
  BY DEF WriteStart
<1>2. /\ Alone' /\ ~clashed' /\ OnlyOne(w)' /\ Finds /\ at'[w] = "SetBucket"
      /\ job'[w] = [op |-> "write", p |-> p, arg |-> p]
  BY <1>1, StartAlone DEF LockInv
<1>3. copy'[w] = hdr[p] /\ mem'[w].i = n
  <2>1. LocalsOK /\ n \in Int /\ hdr[p] \in Header
    BY <1>1, HeaderIs, CacheFSAssumption DEF WorkersOK, IsFile
  <2> DEFINE h == hdr[p]
  <2>2. h \in Header /\ copy' = [copy EXCEPT ![w] = h] /\ mem' = [mem EXCEPT ![w].i = n]
    BY <1>1, <2>1
  <2> HIDE DEF h
  <2>3. /\ LocalsOK' /\ copy'[w] = h /\ mem'[w].i = n
        /\ \A v \in Workers : v # w => copy'[v] = copy[v] /\ mem'[v] = mem[v]
    BY <2>1, <2>2, PutI, ZenonT(60)
  <2> QED
    BY <2>3 DEF h
<1>4. data' = Seen(4)' \cup {<<p, j>> : j \in hdr[p].num_buckets + 1 .. hdr[p].num_buckets}
  <2>1. hdr[p].num_buckets \in Nat
    BY <1>1, HeaderIs DEF IsFile
  <2>2. hdr[p].num_buckets + 1 .. hdr[p].num_buckets = {}
    BY <2>1
  <2> QED
    BY <1>2, <2>2 DEF Finds
<1>5. WriterSince(w)'
  BY <1>1, <1>2, <1>3, <1>4 DEF WriterSince, Finds, IsFile, Exists
<1> QED
  BY <1>2, <1>5 DEF Since, Finds

LEMMA SetxattrStartSince ==
  ASSUME LockInv, AloneInv, TreeOK, WorkersOK, NEW w \in Workers, NEW p \in Paths,
         NEW n \in AttrNames, NEW v \in AttrVals, SetxattrStart(w, p, n, v), ~overlapped'
  PROVE  Alone' /\ ~clashed' /\ OnlyOne(w)' /\ Since(w)'
<1>0. PICK h : h = [hdr[p] EXCEPT !.xattr_num = hdr[p].xattr_num + 1]
  OBVIOUS
<1>1. /\ Exists(p) /\ Start(w, "setxattr", p, <<p, n>>, "SetNum")
      /\ hdr[p].xattr_num < MaxAttrs
      /\ copy' = [copy EXCEPT ![w] = h] /\ mem' = [mem EXCEPT ![w].who = <<n, v>>]
  BY <1>0 DEF SetxattrStart
<1>2. /\ Alone' /\ ~clashed' /\ OnlyOne(w)' /\ Finds /\ at'[w] = "SetNum"
      /\ job'[w] = [op |-> "setxattr", p |-> p, arg |-> <<p, n>>]
  BY <1>1, StartAlone DEF LockInv
<1>3. h \in Header /\ h.xattr_num = hdr[p].xattr_num + 1 /\ hdr[p].xattr_num \in Int
  BY <1>0, <1>1, HeaderIs DEF Header
<1>4. /\ LocalsOK' /\ copy'[w] = h /\ mem'[w].who = <<n, v>>
      /\ \A u \in Workers : u # w => copy'[u] = copy[u] /\ mem'[u] = mem[u]
  BY <1>1, <1>3, PutWho, ZenonT(60) DEF WorkersOK
<1>5. h.xattr_num <= MaxAttrs /\ mem'[w].who[1] = n
  BY <1>1, <1>3, <1>4, CacheFSAssumption
<1>6. job'[w].op = "setxattr" /\ job'[w].p = p /\ job'[w].arg = <<p, n>>
  BY <1>2
<1>7. copy'[w].xattr_num = Seen(2)'[p].xattr_num + 1 /\ copy'[w].xattr_num <= MaxAttrs
  BY <1>2, <1>3, <1>4, <1>5 DEF Finds
<1>8. AttrWriterSince(w)'
  BY <1>1, <1>2, <1>5, <1>6, <1>7 DEF AttrWriterSince, Finds, Exists
<1> QED
  BY <1>2, <1>8 DEF Since, Finds

LEMMA RemovexattrStartSince ==
  ASSUME LockInv, AloneInv, TreeOK, WorkersOK, NEW w \in Workers, NEW p \in Paths,
         NEW n \in AttrNames, RemovexattrStart(w, p, n), ~overlapped'
  PROVE  Alone' /\ ~clashed' /\ OnlyOne(w)' /\ Since(w)'
<1>0. PICK h : h = [hdr[p] EXCEPT !.xattr_num = hdr[p].xattr_num - 1]
  OBVIOUS
<1>1. PICK i \in Stops(p, n) :
        /\ Exists(p) /\ Start(w, "removexattr", p, <<p, n>>, "SetNum")
        /\ copy' = [copy EXCEPT ![w] = h] /\ mem' = [mem EXCEPT ![w].i = i]
  BY <1>0 DEF RemovexattrStart
<1>2. /\ Alone' /\ ~clashed' /\ OnlyOne(w)' /\ Finds /\ at'[w] = "SetNum"
      /\ job'[w] = [op |-> "removexattr", p |-> p, arg |-> <<p, n>>]
  BY <1>1, StartAlone DEF LockInv
<1>3. /\ h \in Header /\ h.xattr_num = hdr[p].xattr_num - 1 /\ hdr[p].xattr_num \in Int
      /\ i \in Int
  BY <1>0, <1>1, HeaderIs DEF Header, Stops
<1>4. /\ LocalsOK' /\ copy'[w] = h /\ mem'[w].i = i
      /\ \A u \in Workers : u # w => copy'[u] = copy[u] /\ mem'[u] = mem[u]
  BY <1>1, <1>3, PutI, ZenonT(60) DEF WorkersOK
<1>5. i \in StopsIn(hdr, xattr, p, n)
  BY DEF Stops, MayMatch, MustMatch, StopsIn
<1>6. job'[w].op = "removexattr" /\ job'[w].p = p /\ job'[w].arg = <<p, n>>
  BY <1>2
<1>7. /\ Seen(2)'[p].xattr_num = copy'[w].xattr_num + 1
      /\ mem'[w].i \in StopsIn(Seen(2)', Seen(5)', p, n)
  BY <1>2, <1>3, <1>4, <1>5 DEF Finds
<1>8. AttrWriterSince(w)'
  BY <1>1, <1>2, <1>6, <1>7 DEF AttrWriterSince, Finds, Exists
<1> QED
  BY <1>2, <1>8 DEF Since, Finds

------------------------------------------------------------------------------
(* The last step of a handler that ran alone is the handler of CacheFS.     *)

\* The operators of CacheFS on what is seen.
LEMMA WholeOps ==
  /\ Whole!Root = Root /\ Whole!EmptyStore = EmptyStore
  /\ \A p : Whole!Parent(p) = Parent(p) /\ Whole!Exists(p) = (p \in DOMAIN Seen(2))
  /\ \A s, k, v : Whole!CacheSet(s, k, v) = CacheSet(s, k, v)
  /\ \A s, K : Whole!CacheDelete(s, K) = CacheDelete(s, K)
BY DEF Whole!Root, Root, Whole!EmptyStore, EmptyStore, Whole!Parent, Parent, Whole!Front, Front,
       Whole!Exists, Whole!CacheSet, CacheSet, Whole!CacheDelete, CacheDelete

\* Nothing is seen to change as long as the handler goes on.
LEMMA WholeSame ==
  ASSUME SeenSame, mounted' = mounted, ret' = ret
  PROVE  UNCHANGED Whole!vars
BY DEF SeenSame, Whole!vars, Whole!stores

LEMMA SetHeaderMakes ==
  ASSUME TreeOK, WorkersOK, NEW w \in Workers, Since(w), SetHeader(w), SeenNext
  PROVE  \E p \in Paths : Whole!Mkdir(p) \/ Whole!Create(p)
<1>0. PICK p, d, n : p = job[w].p /\ d = Parent(p) /\ n = Seen(2)[d].num_buckets + 1
  OBVIOUS
<1>1. at[w] = "SetHeader" /\ MakerSince(w) /\ stats = Seen(1)
  BY DEF SetHeader, Since
<1>2. /\ p \in Paths /\ p # Root /\ p \notin DOMAIN Seen(2)
      /\ d \in DOMAIN Seen(2) /\ Seen(2)[d].is_dir = 1
      /\ hdr = WithCount(Seen(2), d, n) /\ child = CacheSet(Seen(3), <<d, n>>, p)
      /\ data = Seen(4) /\ xattr = Seen(5) /\ mem[w].i = n
      /\ job[w].op \in {"mkdir", "create"} /\ job[w].arg = p
  BY <1>0, <1>1 DEF MakerSince
<1>3. /\ Ends(w, "ok") /\ stats' = stats /\ child' = child /\ data' = data /\ xattr' = xattr
      /\ \/ job[w].op = "mkdir" /\ \E g \in Uninit : hdr' = CacheSet(hdr, p, NewDirHeader(n, g))
         \/ job[w].op = "create" /\ hdr' = CacheSet(hdr, p, NewFileHeader(n))
  BY <1>0, <1>2 DEF SetHeader, PutHeader
<1>4. mounted /\ mounted' = mounted /\ ret' = [op |-> job[w].op, arg |-> p, val |-> "ok", names |-> <<>>]
  BY <1>2, <1>3 DEF Ends, Reply, TreeOK, StoresOK
<1>5. Whole!Absent(p)
  BY <1>0, <1>2, WholeOps DEF Whole!Absent, Whole!IsDir
<1>6. Whole!NextIndex(Whole!Parent(p)) = n
  BY <1>0, WholeOps DEF Whole!NextIndex
<1>7. \A h : Whole!HeadersWith(p, h) = CacheSet(hdr, p, h)
  BY <1>0, <1>2, <1>6, WholeOps DEF Whole!HeadersWith, WithCount
<1>8. Whole!EntriesWith(p) = child
  BY <1>0, <1>2, <1>6, WholeOps DEF Whole!EntriesWith
<1>9. /\ Seen(3)' = Whole!EntriesWith(p) /\ Seen(2)' = hdr'
      /\ Seen(1)' = Seen(1) /\ Seen(4)' = Seen(4) /\ Seen(5)' = Seen(5)
  BY <1>1, <1>2, <1>3, <1>8 DEF SeenNext
<1>10. CASE job[w].op = "mkdir"
  <2>1. PICK g \in Uninit : hdr' = CacheSet(hdr, p, NewDirHeader(n, g))
    BY <1>3, <1>10
  <2>2. Seen(2)' = Whole!HeadersWith(p, Whole!NewDirHeader(Whole!NextIndex(Whole!Parent(p)), g))
    BY <2>1, <1>6, <1>7, <1>9 DEF NewDirHeader, Whole!NewDirHeader
  <2>3. Whole!Reply("mkdir", p, "ok")
    BY <1>4, <1>10 DEF Whole!Reply
  <2>4. Whole!Mkdir(p)
    BY <1>4, <1>5, <1>9, <2>2, <2>3 DEF Whole!Mkdir
  <2> QED
    BY <1>2, <2>4
<1>11. CASE job[w].op = "create"
  <2>1. Seen(2)' = Whole!HeadersWith(p, Whole!NewFileHeader(Whole!NextIndex(Whole!Parent(p))))
    BY <1>3, <1>6, <1>7, <1>9, <1>11 DEF NewFileHeader, Whole!NewFileHeader
  <2>2. Whole!Reply("create", p, "ok")
    BY <1>4, <1>11 DEF Whole!Reply
  <2>3. Whole!Create(p)
    BY <1>4, <1>5, <1>9, <2>1, <2>2 DEF Whole!Create
  <2> QED
    BY <1>2, <2>3
<1> QED
  BY <1>2, <1>10, <1>11

\* What a removal has made of headers and slots is what CacheFS makes of them.
LEMMA RemovedEntry ==
  ASSUME NEW p, NEW own, own = Seen(2)[p],
         NEW d, d = Parent(p), NEW n, n = Seen(2)[d].num_buckets,
         NEW t, t = Seen(3)[<<d, n>>]
  PROVE  /\ Whole!HeadersWithout(p) = RemoverHeaders("DelKeys", Seen(2), d, n, t, own.parent_index, p)
         /\ Whole!EntriesWithout(p) = RemoverSlots("DelKeys", Seen(3), d, n, t, own.parent_index)
<1>1. Whole!LastSlot(p) = n /\ Whole!Tenant(p) = t /\ Whole!SlotOf(p) = own.parent_index
  BY WholeOps, SMTT(60) DEF Whole!LastSlot, Whole!Tenant, Whole!SlotOf
<1>2. Whole!HeadersWithout(p) = CacheDelete(WithSlot(WithCount(Seen(2), d, n - 1), t, own.parent_index), {p})
  BY <1>1, WholeOps DEF Whole!HeadersWithout, WithSlot, WithCount
<1>3. Whole!EntriesWithout(p) = CacheDelete(CacheSet(Seen(3), <<d, own.parent_index>>, t), {<<d, n>>})
  BY <1>1, WholeOps DEF Whole!EntriesWithout
<1> QED
  BY <1>2, <1>3 DEF RemoverHeaders, RemoverSlots

LEMMA DelHeaderRemoves ==
  ASSUME TreeOK, WorkersOK, NEW w \in Workers, Since(w), DelHeader(w), job[w].op = "rmdir", SeenNext
  PROVE  \E p \in Paths : Whole!Rmdir(p)
<1>0. PICK p, d, n, own, t : /\ p = job[w].p /\ d = Parent(p) /\ n = Seen(2)[d].num_buckets
                             /\ own = mem[w].own /\ t = Seen(3)[<<d, n>>]
  OBVIOUS
<1>1. at[w] = "DelHeader" /\ RemoverSince(w) /\ stats = Seen(1)
  BY DEF DelHeader, Since
<1>2. /\ p \in Paths /\ p # Root /\ p \in DOMAIN Seen(2) /\ own = Seen(2)[p]
      /\ own.is_dir = 1 /\ own.num_buckets <= 0
      /\ hdr = RemoverHeaders("DelHeader", Seen(2), d, n, t, own.parent_index, p)
      /\ child = RemoverSlots("DelHeader", Seen(3), d, n, t, own.parent_index)
      /\ data = Seen(4) /\ xattr = Seen(5) /\ job[w].arg = p
  BY <1>0, <1>1 DEF RemoverSince
<1>3. /\ Ends(w, "ok") /\ hdr' = CacheDelete(hdr, {p})
      /\ stats' = stats /\ child' = child /\ data' = data /\ xattr' = xattr
  BY <1>0 DEF DelHeader
<1>4. mounted /\ mounted' = mounted /\ ret' = [op |-> "rmdir", arg |-> p, val |-> "ok", names |-> <<>>]
  BY <1>2, <1>3 DEF Ends, Reply, TreeOK, StoresOK
<1>5. /\ hdr' = RemoverHeaders("DelKeys", Seen(2), d, n, t, own.parent_index, p)
      /\ child' = RemoverSlots("DelKeys", Seen(3), d, n, t, own.parent_index)
  BY <1>2, <1>3, SMTT(60) DEF RemoverHeaders, RemoverSlots
<1>6. Seen(2)' = Whole!HeadersWithout(p) /\ Seen(3)' = Whole!EntriesWithout(p)
  BY <1>0, <1>2, <1>5, RemovedEntry DEF SeenNext
<1>7. Seen(1)' = Seen(1) /\ Seen(4)' = Seen(4) /\ Seen(5)' = Seen(5)
  BY <1>1, <1>2, <1>3 DEF SeenNext
<1>8. Whole!Exists(p) /\ Whole!IsDir(p) /\ p # Whole!Root /\ Seen(2)[p].num_buckets <= 0
  BY <1>2, WholeOps DEF Whole!IsDir
<1>9. Whole!RemoveEntry(p) /\ Whole!Reply("rmdir", p, "ok")
  BY <1>4, <1>6 DEF Whole!RemoveEntry, Whole!Reply
<1>10. Whole!Rmdir(p)
  BY <1>4, <1>7, <1>8, <1>9 DEF Whole!Rmdir
<1> QED
  BY <1>2, <1>10

LEMMA UnlinkEndsRemoves ==
  ASSUME TreeOK, WorkersOK, NEW w \in Workers, Since(w), UnlinkEnds(w), SeenNext
  PROVE  \E p \in Paths : Whole!Unlink(p)
<1>0. PICK p, d, n, own, t : /\ p = job[w].p /\ d = Parent(p) /\ n = Seen(2)[d].num_buckets
                             /\ own = mem[w].own /\ t = Seen(3)[<<d, n>>]
  OBVIOUS
<1>1. /\ at[w] = "DelKeys" /\ RemoverSince(w) /\ DeleterOK(w) /\ stats = Seen(1)
      /\ mem[w].i > own.xattr_num + own.num_buckets
  BY <1>0 DEF UnlinkEnds, Since, WorkersOK, WorkerOK
<1>2. /\ p \in Paths /\ p # Root /\ p \in DOMAIN Seen(2) /\ own = Seen(2)[p] /\ own.is_dir = 0
      /\ hdr = RemoverHeaders("DelKeys", Seen(2), d, n, t, own.parent_index, p)
      /\ child = RemoverSlots("DelKeys", Seen(3), d, n, t, own.parent_index)
      /\ xattr = CacheDelete(Seen(5), AttrsBefore(p, own.xattr_num, mem[w].i))
      /\ data = Seen(4) \ BucketsBefore(p, own.xattr_num, own.num_buckets, mem[w].i)
      /\ job[w].arg = p /\ job[w].op = "unlink"
  BY <1>0, <1>1 DEF RemoverSince, DeleterOK
<1>3. /\ Ends(w, "ok") /\ stats' = stats /\ hdr' = hdr /\ child' = child
      /\ data' = data /\ xattr' = xattr
  BY DEF UnlinkEnds, stores
<1>4. mounted /\ mounted' = mounted /\ ret' = [op |-> "unlink", arg |-> p, val |-> "ok", names |-> <<>>]
  BY <1>2, <1>3 DEF Ends, Reply, TreeOK, StoresOK
<1>5. /\ own.xattr_num \in Nat /\ own.num_buckets \in Nat /\ mem[w].i \in Nat
  BY <1>0, <1>1 DEF DeleterOK, WorkersOK, LocalsOK, Header
<1>6. AttrsBefore(p, own.xattr_num, mem[w].i) = Whole!AttrKeysOf(p)
  <2>1. {m \in 1 .. own.xattr_num : m < mem[w].i} = 1 .. own.xattr_num
    BY <1>1, <1>5
  <2> QED
    BY <1>2, <2>1 DEF AttrsBefore, Whole!AttrKeysOf
<1>7. BucketsBefore(p, own.xattr_num, own.num_buckets, mem[w].i) = Whole!DataKeysOf(p)
  <2>1. {m \in 1 .. own.num_buckets : m + own.xattr_num < mem[w].i} = 1 .. own.num_buckets
    BY <1>1, <1>5, SMTT(60)
  <2> QED
    BY <1>2, <2>1 DEF BucketsBefore, Whole!DataKeysOf
<1>8. Seen(2)' = Whole!HeadersWithout(p) /\ Seen(3)' = Whole!EntriesWithout(p)
  BY <1>0, <1>2, <1>3, RemovedEntry DEF SeenNext
<1>9. /\ Seen(1)' = Seen(1) /\ Seen(4)' = Seen(4) \ Whole!DataKeysOf(p)
      /\ Seen(5)' = Whole!CacheDelete(Seen(5), Whole!AttrKeysOf(p))
  BY <1>1, <1>2, <1>3, <1>6, <1>7, WholeOps DEF SeenNext
<1>10. Whole!Exists(p) /\ ~Whole!IsDir(p) /\ p # Whole!Root
  <2>1. Seen(2)[p].is_dir # 1
    BY <1>2
  <2> QED
    BY <1>2, <2>1, WholeOps DEF Whole!IsDir
<1>11. Whole!RemoveEntry(p) /\ Whole!Reply("unlink", p, "ok")
  BY <1>4, <1>8 DEF Whole!RemoveEntry, Whole!Reply
<1>12. Whole!Unlink(p)
  BY <1>4, <1>9, <1>10, <1>11 DEF Whole!Unlink
<1> QED
  BY <1>2, <1>12

LEMMA WriteEndsWrites ==
  ASSUME TreeOK, WorkersOK, NEW w \in Workers, Since(w), WriteEnds(w), SeenNext
  PROVE  \E p \in Paths, k \in 0 .. MaxBuckets : Whole!Write(p, k)
<1>0. PICK p, n, old, k : /\ p = job[w].p /\ n = copy[w].num_buckets
                          /\ old = Seen(2)[p].num_buckets /\ k = n - old
  OBVIOUS
<1>1. at[w] = "SetBucket" /\ WriterSince(w) /\ WriterOK(w) /\ stats = Seen(1) /\ mem[w].i = 0
  BY DEF WriteEnds, Since, WorkersOK, WorkerOK
<1>2. /\ p \in Paths /\ p \in DOMAIN Seen(2) /\ Seen(2)[p].is_dir = 0
      /\ hdr = Seen(2) /\ child = Seen(3) /\ xattr = Seen(5)
      /\ data = Seen(4) \cup {<<p, j>> : j \in old + 1 .. n}
      /\ n + 0 <= MaxBuckets /\ job[w].arg = p
  BY <1>0, <1>1 DEF WriterSince
<1>3. job[w].op = "write" /\ n >= old /\ copy[w] = [hdr[p] EXCEPT !.num_buckets = n]
  BY <1>0, <1>1, <1>2 DEF WriterOK
<1>4. n \in Nat /\ old \in Nat
  BY <1>0, <1>2, HeaderIs DEF Exists, WorkersOK, LocalsOK, Header
<1>5. k \in 0 .. MaxBuckets /\ old + k = n
  BY <1>0, <1>2, <1>3, <1>4, CacheFSAssumption
<1>6. /\ Ends(w, "ok") /\ hdr' = CacheSet(hdr, p, [hdr[p] EXCEPT !.num_buckets = n])
      /\ stats' = stats /\ child' = child /\ data' = data /\ xattr' = xattr
  BY <1>0, <1>3 DEF WriteEnds, PutHeader
<1>7. mounted /\ mounted' = mounted /\ Whole!Reply("write", p, "ok")
  BY <1>2, <1>3, <1>6 DEF Ends, Reply, Whole!Reply, TreeOK, StoresOK
<1>8. Seen(2)' = [Seen(2) EXCEPT ![p].num_buckets = @ + k]
  <2>1. hdr' = WithCount(hdr, p, n)
    BY <1>2, <1>6, PutIsCount
  <2> QED
    BY <1>0, <1>2, <1>5, <2>1 DEF SeenNext, WithCount
<1>9. Seen(4)' = Seen(4) \cup {<<p, Seen(2)[p].num_buckets + i>> : i \in 1 .. k}
  <2>1. \A j : j \in old + 1 .. n <=> \E i \in 1 .. k : j = old + i
    <3>1. ASSUME NEW j \in old + 1 .. n PROVE \E i \in 1 .. k : j = old + i
      <4>1. j - old \in 1 .. k /\ j = old + (j - old)
        BY <1>4, <1>5
      <4> QED
        BY <4>1
    <3>2. ASSUME NEW i \in 1 .. k PROVE old + i \in old + 1 .. n
      BY <1>4, <1>5
    <3> QED
      BY <3>1, <3>2
  <2>2. {<<p, j>> : j \in old + 1 .. n} = {<<p, old + i>> : i \in 1 .. k}
    BY <2>1
  <2> QED
    BY <1>0, <1>2, <1>6, <2>2 DEF SeenNext
<1>10. Seen(1)' = Seen(1) /\ Seen(3)' = Seen(3) /\ Seen(5)' = Seen(5)
  BY <1>1, <1>2, <1>6 DEF SeenNext
<1>11. Whole!IsFile(p) /\ Seen(2)[p].num_buckets + k <= MaxBuckets
  <2>1. Whole!Exists(p) /\ Seen(2)[p].is_dir = 0
    BY <1>2, WholeOps
  <2>2. Seen(2)[p].num_buckets + k <= MaxBuckets
    BY <1>0, <1>2, <1>4, <1>5
  <2> QED
    BY <2>1, <2>2 DEF Whole!IsFile
<1>12. Whole!Write(p, k)
  BY <1>7, <1>8, <1>9, <1>10, <1>11 DEF Whole!Write
<1> QED
  BY <1>2, <1>5, <1>12

LEMMA SetAttrSets ==
  ASSUME TreeOK, WorkersOK, NEW w \in Workers, Since(w), SetAttr(w), SeenNext
  PROVE  \E p \in Paths, n \in AttrNames, v \in AttrVals : Whole!Setxattr(p, n, v)
<1>0. PICK p, i, n, v : /\ p = job[w].p /\ i = copy[w].xattr_num
                        /\ n = mem[w].who[1] /\ v = mem[w].who[2]
  OBVIOUS
<1>1. at[w] = "SetAttr" /\ AttrWriterSince(w) /\ AttrWriterOK(w) /\ stats = Seen(1)
  BY DEF SetAttr, Since, WorkersOK, WorkerOK
<1>2. job[w].op = "setxattr" /\ n \in AttrNames /\ v \in AttrVals
  BY <1>0, <1>1 DEF AttrWriterOK
<1>3. /\ p \in Paths /\ p \in DOMAIN Seen(2) /\ hdr = [Seen(2) EXCEPT ![p].xattr_num = i]
      /\ child = Seen(3) /\ data = Seen(4) /\ xattr = Seen(5)
      /\ i = Seen(2)[p].xattr_num + 1 /\ i <= MaxAttrs /\ job[w].arg = <<p, n>>
  BY <1>0, <1>1, <1>2 DEF AttrWriterSince
<1>4. /\ Ends(w, "ok") /\ stats' = stats /\ hdr' = hdr /\ child' = child /\ data' = data
      /\ xattr' = CacheSet(xattr, <<p, i>>, [name |-> n, val |-> v, parent_index |-> i])
  BY <1>0 DEF SetAttr
<1>5. mounted /\ mounted' = mounted /\ Whole!Reply("setxattr", <<p, n>>, "ok")
  BY <1>2, <1>3, <1>4 DEF Ends, Reply, Whole!Reply, TreeOK, StoresOK
<1>6. /\ Seen(2)' = [Seen(2) EXCEPT ![p].xattr_num = i]
      /\ Seen(5)' = Whole!CacheSet(Seen(5), <<p, i>>, [name |-> n, val |-> v, parent_index |-> i])
      /\ Seen(1)' = Seen(1) /\ Seen(3)' = Seen(3) /\ Seen(4)' = Seen(4)
  BY <1>1, <1>3, <1>4, WholeOps DEF SeenNext
<1>7. Whole!Exists(p)
  BY <1>3, WholeOps
<1>8. Whole!Setxattr(p, n, v)
  BY <1>3, <1>5, <1>6, <1>7 DEF Whole!Setxattr
<1> QED
  BY <1>2, <1>3, <1>8

LEMMA DelAttrRemoves ==
  ASSUME TreeOK, WorkersOK, NEW w \in Workers, Since(w), DelAttr(w), SeenNext
  PROVE  \E p \in Paths, n \in AttrNames : Whole!Removexattr(p, n)
<1>0. PICK p, i, last : p = job[w].p /\ i = mem[w].i /\ last = copy[w].xattr_num + 1
  OBVIOUS
<1>1. at[w] = "DelAttr" /\ AttrWriterSince(w) /\ AttrWriterOK(w) /\ stats = Seen(1)
  BY DEF DelAttr, Since, WorkersOK, WorkerOK
<1>2. job[w].op = "removexattr" /\ copy[w].xattr_num \in Int
  BY <1>1 DEF AttrWriterOK, WorkersOK, LocalsOK, Header
<1>3. PICK n \in AttrNames : job[w].arg = <<p, n>> /\ i \in StopsIn(Seen(2), Seen(5), p, n)
  BY <1>0, <1>1, <1>2 DEF AttrWriterSince
<1>4. /\ p \in Paths /\ p \in DOMAIN Seen(2)
      /\ hdr = [Seen(2) EXCEPT ![p].xattr_num = copy[w].xattr_num]
      /\ child = Seen(3) /\ data = Seen(4)
      /\ xattr = CacheSet(Seen(5), <<p, i>>, [AttrIn(Seen(5), p, last) EXCEPT !.parent_index = i])
      /\ Seen(2)[p].xattr_num = last
  BY <1>0, <1>1, <1>2 DEF AttrWriterSince
<1>5. copy[w].xattr_num = Seen(2)[p].xattr_num - 1
  BY <1>0, <1>2, <1>4
<1>6. /\ Ends(w, "ok") /\ stats' = stats /\ hdr' = hdr /\ child' = child /\ data' = data
      /\ xattr' = CacheDelete(xattr, {<<p, last>>})
  BY <1>0 DEF DelAttr
<1>7. mounted /\ mounted' = mounted /\ Whole!Reply("removexattr", <<p, n>>, "ok")
  BY <1>2, <1>3, <1>6 DEF Ends, Reply, Whole!Reply, TreeOK, StoresOK
<1>8. Whole!AttrAt(p, last) = AttrIn(Seen(5), p, last) /\ i \in Whole!Stops(p, n)
  BY <1>3 DEF Whole!AttrAt, AttrIn, Whole!Stops, Whole!MayMatch, Whole!MustMatch, StopsIn
<1>9. Seen(5)' = Whole!AttrsWithout(p, i)
  BY <1>4, <1>5, <1>6, <1>8, WholeOps DEF SeenNext, Whole!AttrsWithout
<1>10. /\ Seen(2)' = [Seen(2) EXCEPT ![p].xattr_num = @ - 1]
       /\ Seen(1)' = Seen(1) /\ Seen(3)' = Seen(3) /\ Seen(4)' = Seen(4)
  BY <1>1, <1>4, <1>5, <1>6 DEF SeenNext
<1>11. Whole!Exists(p)
  BY <1>4, WholeOps
<1>12. Whole!Removexattr(p, n)
  BY <1>7, <1>8, <1>9, <1>10, <1>11 DEF Whole!Removexattr
<1> QED
  BY <1>3, <1>4, <1>12

------------------------------------------------------------------------------
(* The theorem on handlers that run alone.                                  *)

\* What CacheFS, on what is seen, allows a step to do.
WholeStep ==
  \/ UNCHANGED Whole!vars
  \/ \E p \in Paths :
       \/ Whole!Mkdir(p) \/ Whole!Create(p) \/ Whole!Rmdir(p) \/ Whole!Unlink(p)
       \/ \E n \in 0 .. MaxBuckets : Whole!Write(p, n)
       \/ \E n \in AttrNames : Whole!Removexattr(p, n)
       \/ \E n \in AttrNames, v \in AttrVals : Whole!Setxattr(p, n, v)

\* What is shown of every step.
StepAlone == AloneInv' /\ (~overlapped /\ ~overlapped' => WholeStep)

LEMMA StartsAlone ==
  ASSUME StepsInv, AloneInv, NEW w \in Workers, NEW op, NEW p, NEW arg, NEW next, next # "idle",
         Start(w, op, p, arg, next),
         ~overlapped' => Alone' /\ ~clashed' /\ OnlyOne(w)' /\ Since(w)'
  PROVE  StepAlone
<1>1. AloneInv'
  BY DEF AloneInv
<1>2. ASSUME ~overlapped, ~overlapped' PROVE WholeStep
  <2>1. AllIdle /\ mounted' = mounted /\ ret' = ret
    BY <1>2 DEF Start
  <2>2. ~Alone
    BY <1>2, <2>1 DEF AloneInv, OnlyOne, AllIdle
  <2>3. SeenNow /\ Finds
    BY <1>2, <2>2, NotAlone, StartAlone DEF StepsInv, LockInv
  <2>4. SeenSame
    BY <2>3 DEF SeenNow, Finds, SeenSame
  <2> QED
    BY <2>1, <2>4, WholeSame DEF WholeStep
<1> QED
  BY <1>1, <1>2 DEF StepAlone

LEMMA GoesAlone ==
  ASSUME StepsInv, AloneInv, NEW w \in Workers, Busy(w), NEW next, next # "idle", Goes(w, next),
         TreeOK /\ WorkersOK /\ ~clashed /\ Since(w) /\ OnlyOne(w)
           /\ SeenSame /\ at'[w] = next /\ job' = job => ~clashed' /\ Since(w)'
  PROVE  StepAlone
<1>1. overlapped' = overlapped
  BY DEF Goes
<1>2. CASE overlapped
  BY <1>1, <1>2 DEF StepAlone, AloneInv
<1>3. CASE ~overlapped
  <2>1. /\ Alone /\ ~clashed /\ Since(w) /\ OnlyOne(w) /\ Alone' /\ OnlyOne(w)'
        /\ SeenSame /\ at'[w] = next /\ job' = job /\ mounted' = mounted /\ ret' = ret
    BY <1>3, AloneGoes DEF StepsInv, LockInv
  <2>2. ~clashed' /\ Since(w)'
    BY <2>1 DEF StepsInv
  <2>3. AloneInv'
    BY <2>1, <2>2 DEF AloneInv
  <2>4. WholeStep
    BY <2>1, WholeSame DEF WholeStep
  <2> QED
    BY <2>3, <2>4 DEF StepAlone
<1> QED
  BY <1>2, <1>3

LEMMA EndsAlone ==
  ASSUME StepsInv, AloneInv, NEW w \in Workers, Busy(w), NEW val, Ends(w, val),
         TreeOK /\ WorkersOK /\ Since(w) /\ SeenNext => WholeStep
  PROVE  StepAlone
<1>1. ~Alone' /\ SeenNext
  BY LastSeen DEF Ends
<1>2. ~overlapped => ~clashed /\ OnlyOne(w) /\ Since(w)
  BY OneAtWork
<1>3. at'[w] = "idle" /\ \A v \in Workers : v # w => at'[v] = at[v]
  BY DEF StepsInv, LockInv, Shape, Ends
<1>4. ~overlapped' => \A v \in Workers : v # w => ~Busy(v)
  BY <1>2 DEF Ends, OnlyOne
<1>5. ~overlapped' => AllIdle'
  BY <1>3, <1>4 DEF AllIdle, Busy
<1>6. AloneInv'
  BY <1>1, <1>5 DEF AloneInv
<1>7. ~overlapped => WholeStep
  BY <1>1, <1>2 DEF StepsInv
<1> QED
  BY <1>6, <1>7 DEF StepAlone

LEMMA HandlerAlone ==
  ASSUME StepsInv, AloneInv, NEW w \in Workers, Handler(w)
  PROVE  StepAlone
<1>0. ~clashed => LockInv /\ TreeOK /\ WorkersOK
  BY DEF StepsInv
<1>1. ASSUME NEW p \in Paths, NEW op \in {"mkdir", "create"}, MakeStart(w, op, p)
      PROVE  StepAlone
  <2>1. Start(w, op, p, p, "SetCount") /\ ~clashed
    BY <1>1 DEF MakeStart, Start
  <2>2. ~overlapped' => Alone' /\ ~clashed' /\ OnlyOne(w)' /\ Since(w)'
    BY <1>0, <1>1, <2>1, MakeStartSince
  <2> QED
    BY <2>1, <2>2, StartsAlone
<1>2. ASSUME NEW p \in Paths, NEW op \in {"rmdir", "unlink"}, RemoveStart(w, op, p)
      PROVE  StepAlone
  <2>1. Start(w, op, p, p, "GetCount") /\ ~clashed
    BY <1>2 DEF RemoveStart, Start
  <2>2. ~overlapped' => Alone' /\ ~clashed' /\ OnlyOne(w)' /\ Since(w)'
    BY <1>0, <1>2, <2>1, RemoveStartSince
  <2> QED
    BY <2>1, <2>2, StartsAlone
<1>3. ASSUME NEW p \in Paths, NEW n \in 0 .. MaxBuckets, WriteStart(w, p, n)
      PROVE  StepAlone
  <2>1. Start(w, "write", p, p, "SetBucket") /\ ~clashed
    BY <1>3 DEF WriteStart, Start
  <2>2. ~overlapped' => Alone' /\ ~clashed' /\ OnlyOne(w)' /\ Since(w)'
    BY <1>0, <1>3, <2>1, WriteStartSince
  <2> QED
    BY <2>1, <2>2, StartsAlone
<1>4. ASSUME NEW p \in Paths, NEW n \in AttrNames, RemovexattrStart(w, p, n)
      PROVE  StepAlone
  <2>1. Start(w, "removexattr", p, <<p, n>>, "SetNum") /\ ~clashed
    BY <1>4 DEF RemovexattrStart, Start
  <2>2. ~overlapped' => Alone' /\ ~clashed' /\ OnlyOne(w)' /\ Since(w)'
    BY <1>0, <1>4, <2>1, RemovexattrStartSince
  <2> QED
    BY <2>1, <2>2, StartsAlone
<1>5. ASSUME NEW p \in Paths, NEW n \in AttrNames, NEW v \in AttrVals, SetxattrStart(w, p, n, v)
      PROVE  StepAlone
  <2>1. Start(w, "setxattr", p, <<p, n>>, "SetNum") /\ ~clashed
    BY <1>5 DEF SetxattrStart, Start
  <2>2. ~overlapped' => Alone' /\ ~clashed' /\ OnlyOne(w)' /\ Since(w)'
    BY <1>0, <1>5, <2>1, SetxattrStartSince
  <2> QED
    BY <2>1, <2>2, StartsAlone
<1>6. CASE SetCount(w)
  <2>1. Busy(w) /\ Goes(w, "SetEntry") /\ \E p, h : PutHeader(w, p, h)
    BY <1>6 DEF SetCount, Busy
  <2>2. OnlyOne(w) /\ ~clashed => ~clashed'
    BY <2>1, AloneClashes
  <2>3. TreeOK /\ WorkersOK /\ ~clashed /\ Since(w) /\ OnlyOne(w)
          /\ SeenSame /\ at'[w] = "SetEntry" /\ job' = job => ~clashed' /\ Since(w)'
    BY <1>6, <2>2, SetCountSince
  <2> QED
    BY <2>1, <2>3, GoesAlone
<1>7. CASE SetEntry(w)
  <2>1. Busy(w) /\ Goes(w, "SetHeader") /\ clashed' = clashed
    BY <1>7 DEF SetEntry, Busy
  <2>2. TreeOK /\ WorkersOK /\ ~clashed /\ Since(w) /\ OnlyOne(w)
          /\ SeenSame /\ at'[w] = "SetHeader" /\ job' = job => ~clashed' /\ Since(w)'
    BY <1>7, <2>1, SetEntrySince
  <2> QED
    BY <2>1, <2>2, GoesAlone
<1>8. CASE GetCount(w)
  <2>1. Busy(w) /\ Goes(w, "SetLess") /\ clashed' = clashed
    BY <1>8 DEF GetCount, Busy
  <2>2. TreeOK /\ WorkersOK /\ ~clashed /\ Since(w) /\ OnlyOne(w)
          /\ SeenSame /\ at'[w] = "SetLess" /\ job' = job => ~clashed' /\ Since(w)'
    BY <1>8, <2>1, GetCountSince
  <2> QED
    BY <2>1, <2>2, GoesAlone
<1>9. CASE SetLess(w)
  <2>1. Busy(w) /\ Goes(w, "SetSlot") /\ \E p, h : PutHeader(w, p, h)
    BY <1>9 DEF SetLess, Busy
  <2>2. OnlyOne(w) /\ ~clashed => ~clashed'
    BY <2>1, AloneClashes
  <2>3. TreeOK /\ WorkersOK /\ ~clashed /\ Since(w) /\ OnlyOne(w)
          /\ SeenSame /\ at'[w] = "SetSlot" /\ job' = job => ~clashed' /\ Since(w)'
    BY <1>9, <2>2, SetLessSince
  <2> QED
    BY <2>1, <2>3, GoesAlone
<1>10. CASE SetSlot(w)
  <2>1. Busy(w) /\ Goes(w, "GetTenant") /\ clashed' = clashed
    BY <1>10 DEF SetSlot, Busy
  <2>2. TreeOK /\ WorkersOK /\ ~clashed /\ Since(w) /\ OnlyOne(w)
          /\ SeenSame /\ at'[w] = "GetTenant" /\ job' = job => ~clashed' /\ Since(w)'
    BY <1>10, <2>1, SetSlotSince
  <2> QED
    BY <2>1, <2>2, GoesAlone
<1>11. CASE GetTenant(w)
  <2>1. Busy(w) /\ Goes(w, "SetTenant") /\ clashed' = clashed
    BY <1>11 DEF GetTenant, Busy
  <2>2. TreeOK /\ WorkersOK /\ ~clashed /\ Since(w) /\ OnlyOne(w)
          /\ SeenSame /\ at'[w] = "SetTenant" /\ job' = job => ~clashed' /\ Since(w)'
    BY <1>11, <2>1, GetTenantSince
  <2> QED
    BY <2>1, <2>2, GoesAlone
<1>12. CASE SetTenant(w)
  <2>1. Busy(w) /\ Goes(w, "DelLast") /\ \E p, h : PutHeader(w, p, h)
    BY <1>12 DEF SetTenant, Busy
  <2>2. OnlyOne(w) /\ ~clashed => ~clashed'
    BY <2>1, AloneClashes
  <2>3. TreeOK /\ WorkersOK /\ ~clashed /\ Since(w) /\ OnlyOne(w)
          /\ SeenSame /\ at'[w] = "DelLast" /\ job' = job => ~clashed' /\ Since(w)'
    BY <1>12, <2>2, SetTenantSince
  <2> QED
    BY <2>1, <2>3, GoesAlone
<1>13. CASE DelLast(w)
  <2>1. Busy(w) /\ Goes(w, "DelHeader") /\ clashed' = clashed
    BY <1>13 DEF DelLast, Busy
  <2>2. TreeOK /\ WorkersOK /\ ~clashed /\ Since(w) /\ OnlyOne(w)
          /\ SeenSame /\ at'[w] = "DelHeader" /\ job' = job => ~clashed' /\ Since(w)'
    BY <1>13, <2>1, DelLastSince
  <2> QED
    BY <2>1, <2>2, GoesAlone
<1>14. CASE DelKeys(w)
  <2>1. Busy(w) /\ Goes(w, "DelKeys") /\ clashed' = clashed
    BY <1>14 DEF DelKeys, Busy
  <2>2. TreeOK /\ WorkersOK /\ ~clashed /\ Since(w) /\ OnlyOne(w)
          /\ SeenSame /\ at'[w] = "DelKeys" /\ job' = job => ~clashed' /\ Since(w)'
    BY <1>14, <2>1, DelKeysSince
  <2> QED
    BY <2>1, <2>2, GoesAlone
<1>15. CASE SetBucket(w)
  <2>1. Busy(w) /\ Goes(w, "SetBucket") /\ clashed' = clashed
    BY <1>15 DEF SetBucket, Busy
  <2>2. TreeOK /\ WorkersOK /\ ~clashed /\ Since(w) /\ OnlyOne(w)
          /\ SeenSame /\ at'[w] = "SetBucket" /\ job' = job => ~clashed' /\ Since(w)'
    BY <1>15, <2>1, SetBucketSince
  <2> QED
    BY <2>1, <2>2, GoesAlone
<1>16. CASE MoveAttr(w)
  <2>1. Busy(w) /\ Goes(w, "DelAttr") /\ clashed' = clashed
    BY <1>16 DEF MoveAttr, Busy
  <2>2. TreeOK /\ WorkersOK /\ ~clashed /\ Since(w) /\ OnlyOne(w)
          /\ SeenSame /\ at'[w] = "DelAttr" /\ job' = job => ~clashed' /\ Since(w)'
    BY <1>16, <2>1, MoveAttrSince
  <2> QED
    BY <2>1, <2>2, GoesAlone
<1>17. CASE SetNum(w)
  <2>0. PICK next \in {"SetAttr", "MoveAttr"} : Goes(w, next)
    BY <1>17 DEF SetNum
  <2>1. Busy(w) /\ \E p, h : PutHeader(w, p, h)
    BY <1>17 DEF SetNum, Busy
  <2>2. OnlyOne(w) /\ ~clashed => ~clashed'
    BY <2>1, AloneClashes
  <2>3. TreeOK /\ WorkersOK /\ ~clashed /\ Since(w) /\ OnlyOne(w)
          /\ SeenSame /\ at'[w] = next /\ job' = job => ~clashed' /\ Since(w)'
    BY <1>17, <2>0, <2>2, SetNumSince
  <2> QED
    BY <2>0, <2>1, <2>3, GoesAlone
<1>18. CASE DelHeader(w) /\ job[w].op # "rmdir"
  <2>1. Busy(w) /\ Goes(w, "DelKeys") /\ clashed' = clashed
    BY <1>18 DEF DelHeader, Busy
  <2>2. TreeOK /\ WorkersOK /\ ~clashed /\ Since(w) /\ OnlyOne(w)
          /\ SeenSame /\ at'[w] = "DelKeys" /\ job' = job => ~clashed' /\ Since(w)'
    BY <1>18, <2>1, DelHeaderSince
  <2> QED
    BY <2>1, <2>2, GoesAlone
<1>19. CASE DelHeader(w) /\ job[w].op = "rmdir"
  <2>1. Busy(w) /\ Ends(w, "ok")
    BY <1>19 DEF DelHeader, Busy
  <2>2. TreeOK /\ WorkersOK /\ Since(w) /\ SeenNext => WholeStep
    BY <1>19, DelHeaderRemoves DEF WholeStep
  <2> QED
    BY <2>1, <2>2, EndsAlone
<1>20. CASE SetHeader(w)
  <2>1. Busy(w) /\ Ends(w, "ok")
    BY <1>20 DEF SetHeader, Busy
  <2>2. TreeOK /\ WorkersOK /\ Since(w) /\ SeenNext => WholeStep
    BY <1>20, SetHeaderMakes DEF WholeStep
  <2> QED
    BY <2>1, <2>2, EndsAlone
<1>21. CASE UnlinkEnds(w)
  <2>1. Busy(w) /\ Ends(w, "ok")
    BY <1>21 DEF UnlinkEnds, Busy
  <2>2. TreeOK /\ WorkersOK /\ Since(w) /\ SeenNext => WholeStep
    BY <1>21, UnlinkEndsRemoves DEF WholeStep
  <2> QED
    BY <2>1, <2>2, EndsAlone
<1>22. CASE WriteEnds(w)
  <2>1. Busy(w) /\ Ends(w, "ok")
    BY <1>22 DEF WriteEnds, Busy
  <2>2. TreeOK /\ WorkersOK /\ Since(w) /\ SeenNext => WholeStep
    BY <1>22, WriteEndsWrites DEF WholeStep
  <2> QED
    BY <2>1, <2>2, EndsAlone
<1>23. CASE SetAttr(w)
  <2>1. Busy(w) /\ Ends(w, "ok")
    BY <1>23 DEF SetAttr, Busy
  <2>2. TreeOK /\ WorkersOK /\ Since(w) /\ SeenNext => WholeStep
    BY <1>23, SetAttrSets DEF WholeStep
  <2> QED
    BY <2>1, <2>2, EndsAlone
<1>24. CASE DelAttr(w)
  <2>1. Busy(w) /\ Ends(w, "ok")
    BY <1>24 DEF DelAttr, Busy
  <2>2. TreeOK /\ WorkersOK /\ Since(w) /\ SeenNext => WholeStep
    BY <1>24, DelAttrRemoves DEF WholeStep
  <2> QED
    BY <2>1, <2>2, EndsAlone
<1> QED
  BY <1>1, <1>2, <1>3, <1>4, <1>5, <1>6, <1>7, <1>8, <1>9, <1>10, <1>11, <1>12, <1>13, <1>14,
     <1>15, <1>16, <1>17, <1>18, <1>19, <1>20, <1>21, <1>22, <1>23, <1>24 DEF Handler

LEMMA StutterAlone ==
  ASSUME AloneInv, UNCHANGED stepVars
  PROVE  StepAlone
<1>1. /\ stores' = stores /\ mounted' = mounted /\ ret' = ret /\ clashed' = clashed
      /\ at' = at /\ job' = job /\ copy' = copy /\ mem' = mem
      /\ overlapped' = overlapped /\ before' = before
  BY DEF stepVars, vars, locals, history
<1>2. stats' = stats /\ hdr' = hdr /\ child' = child /\ data' = data /\ xattr' = xattr
  BY <1>1 DEF stores
<1>3. SeenSame /\ (Alone' <=> Alone)
  BY <1>1 DEF SeenSame, Seen, Alone
<1>4. ASSUME NEW w \in Workers, OnlyOne(w), Since(w) PROVE OnlyOne(w)' /\ Since(w)'
  <2>1. OnlyOne(w)'
    BY <1>1, <1>4 DEF OnlyOne, Busy
  <2>2. MakerSince(w) => MakerSince(w)'
    BY <1>1, <1>2, <1>3, SMTT(60) DEF MakerSince, SeenSame
  <2>3. RemoverSince(w) => RemoverSince(w)'
    BY <1>1, <1>2, <1>3, ZenonT(60) DEF RemoverSince, SeenSame
  <2>4. WriterSince(w) => WriterSince(w)'
    BY <1>1, <1>2, <1>3 DEF WriterSince, SeenSame
  <2>5. AttrWriterSince(w) => AttrWriterSince(w)'
    BY <1>1, <1>2, <1>3 DEF AttrWriterSince, SeenSame
  <2> QED
    BY <1>1, <1>2, <1>3, <1>4, <2>1, <2>2, <2>3, <2>4, <2>5 DEF Since, SeenSame
<1>5. AllIdle => AllIdle'
  BY <1>1 DEF AllIdle, Busy
<1>6. AloneInv'
  BY <1>1, <1>3, <1>4, <1>5 DEF AloneInv
<1>7. WholeStep
  BY <1>1, <1>3, WholeSame DEF WholeStep
<1> QED
  BY <1>6, <1>7 DEF StepAlone

\* A handler that no other overlaps is, however many requests it makes, one
\* step of CacheFS with the same answer: what CacheFSProofs proves of handlers
\* in one piece holds of the code's as long as calls come one at a time.
THEOREM HandlersAtomic == StepsSpec => Atomic
<1>1. StepsInit => AloneInv
  BY DEF StepsInit, AloneInv, Alone, AllIdle, Busy
<1>2. StepsInv /\ AloneInv /\ [StepsNext]_stepVars => StepAlone
  BY HandlerAlone, StutterAlone DEF StepsNext, Rest
<1>3. StepsInv /\ AloneInv /\ [StepsNext]_stepVars => AloneInv'
  BY <1>2 DEF StepAlone
<1>4. StepsInv /\ AloneInv /\ [StepsNext]_stepVars =>
        [~overlapped /\ ~overlapped' =>
           \/ UNCHANGED Whole!vars
           \/ \E p \in Paths :
                \/ Whole!Mkdir(p) \/ Whole!Create(p) \/ Whole!Rmdir(p) \/ Whole!Unlink(p)
                \/ \E n \in 0 .. MaxBuckets : Whole!Write(p, n)
                \/ \E n \in AttrNames : Whole!Removexattr(p, n)
                \/ \E n \in AttrNames, v \in AttrVals : Whole!Setxattr(p, n, v)]_stepVars
  BY <1>2 DEF StepAlone, WholeStep
<1> QED
  BY <1>1, <1>3, <1>4, StepsInvHolds, PTL DEF StepsSpec, Atomic
==============================================================================
