------------------------------- MODULE CacheFS -------------------------------
(****************************************************************************)
(* The namespace and the extended attributes of cachedfs/main.c over        *)
(* memcached.  One action per FUSE handler, the whole handler at once: the  *)
(* daemon serves one request at a time and every cache_* call succeeds.     *)
(*                                                                          *)
(* The keys of the server fall into families told apart by their prefix;    *)
(* each family is a store of its own here:                                  *)
(*   "stats"          stats   the MAX_BUCKET_SIZE it was formatted with     *)
(*   "<path>"         hdr     struct header_struct of a file or directory   *)
(*   "<i><path>"      child   path of the i-th child of a directory         *)
(*   "&<i><path>"     data    the i-th data bucket of a file (keys only)    *)
(*   "$<i><path>"     xattr   the i-th extended attribute of a path         *)
(* data_len and the bytes in the buckets are the business of FileIO.        *)
(****************************************************************************)
EXTENDS Memcached, SequencesExt

CONSTANTS
  Names,       \* names a path is made of
  MaxDepth,    \* bound: components in the longest path
  AttrNames,   \* names of extended attributes
  AttrVals,    \* their values
  Uninit,      \* ints the xattr_num that hello_mkdir leaves unset may hold
  BlockSizes,  \* values of MAX_BUCKET_SIZE the daemon is built with
  MaxBuckets,  \* bound: data buckets of a file
  MaxAttrs,    \* bound: xattr_num of a path
  Junk,        \* content of a buffer that no cache_get filled
  NoStats      \* "stats" is not in the server

ASSUME CacheFSAssumption ==
  /\ MaxDepth \in Nat /\ MaxBuckets \in Nat /\ MaxAttrs \in Nat
  /\ Uninit \subseteq Int
  /\ NoStats \notin BlockSizes
  /\ Junk \notin AttrNames

VARIABLES stats, hdr, child, data, xattr,
          mounted,  \* the daemon runs
          ret       \* the last answer: handler, path, result, names

stores == <<stats, hdr, child, data, xattr>>
vars == <<stores, mounted, ret>>

Root == <<>>
Paths == SeqOf(Names, MaxDepth)
Parent(p) == Front(p)   \* the path without its last component

Header == [is_dir: {0, 1}, num_buckets: Nat, parent_index: Nat, xattr_num: Int]
Attr == [name: AttrNames \cup {Junk}, val: AttrVals \cup {Junk}, parent_index: Int]
Keys == Paths \X (Nat \ {0})
AttrKeys == Paths \X Int   \* a directory's xattr_num may start anywhere

Exists(p) == p \in DOMAIN hdr
IsDir(p) == Exists(p) /\ hdr[p].is_dir = 1
IsFile(p) == Exists(p) /\ hdr[p].is_dir = 0

Reply(op, p, val) == ret' = [op |-> op, arg |-> p, val |-> val, names |-> <<>>]
ReplyNames(op, p, names) == ret' = [op |-> op, arg |-> p, val |-> "ok", names |-> names]

Init ==
  /\ stats = NoStats
  /\ hdr = EmptyStore /\ child = EmptyStore /\ xattr = EmptyStore
  /\ data = {}
  /\ mounted = FALSE
  /\ ret = [op |-> "none", arg |-> Root, val |-> "ok", names |-> <<>>]

------------------------------------------------------------------------------
(* The daemon's start and end.                                              *)

NewDirHeader(index, garbage) ==
  [is_dir |-> 1, num_buckets |-> 0, parent_index |-> index, xattr_num |-> garbage]

NewFileHeader(index) ==
  [is_dir |-> 0, num_buckets |-> 0, parent_index |-> index, xattr_num |-> 0]

\* hello_init when init_check finds "stats" written with this block size.
Reuse(b) ==
  /\ ~mounted /\ stats = b
  /\ mounted' = TRUE /\ Reply("init", Root, "ok")
  /\ UNCHANGED stores

\* hello_init otherwise: flush_all, write "stats", hello_mkdir("/").
Format(b) ==
  /\ ~mounted /\ stats # b
  /\ mounted' = TRUE /\ Reply("init", Root, "ok")
  /\ stats' = b
  /\ \E g \in Uninit : hdr' = CacheSet(EmptyStore, Root, NewDirHeader(0, g))
  /\ child' = EmptyStore /\ xattr' = EmptyStore /\ data' = {}

\* The daemon ends; it has no state of its own to save.
Unmount ==
  /\ mounted /\ mounted' = FALSE
  /\ UNCHANGED <<stores, ret>>

\* memcached restarts between two mounts: it keeps nothing on disk.
ServerRestart ==
  /\ ~mounted /\ stats # NoStats
  /\ stats' = NoStats
  /\ hdr' = EmptyStore /\ child' = EmptyStore /\ xattr' = EmptyStore /\ data' = {}
  /\ UNCHANGED <<mounted, ret>>

------------------------------------------------------------------------------
(* Making and removing paths.  The kernel has looked the path up before it  *)
(* calls a handler: it makes only what is not there, below a directory, and *)
(* sends rmdir for directories and unlink for the rest.                     *)

\* Mutant: the old count is handed out as the index.
NextIndexOld(d) == hdr[d].num_buckets

\* increaseChildrensNum: the index the new child gets.
NextIndex(d) == hdr[d].num_buckets + 1

\* addToParent, and the header the caller writes for the new path.
HeadersWith(p, header) ==
  CacheSet([hdr EXCEPT ![Parent(p)].num_buckets = NextIndex(Parent(p))], p, header)

EntriesWith(p) == CacheSet(child, <<Parent(p), NextIndex(Parent(p))>>, p)

Absent(p) == p # Root /\ ~Exists(p) /\ IsDir(Parent(p))

Mkdir(p) ==
  /\ mounted /\ Absent(p)
  /\ \E g \in Uninit : hdr' = HeadersWith(p, NewDirHeader(NextIndex(Parent(p)), g))
  /\ child' = EntriesWith(p)
  /\ Reply("mkdir", p, "ok")
  /\ UNCHANGED <<stats, data, xattr, mounted>>

Create(p) ==
  /\ mounted /\ Absent(p)
  /\ hdr' = HeadersWith(p, NewFileHeader(NextIndex(Parent(p))))
  /\ child' = EntriesWith(p)
  /\ Reply("create", p, "ok")
  /\ UNCHANGED <<stats, data, xattr, mounted>>

\* The slot of p and the last slot of its directory, and who sits there.
SlotOf(p) == hdr[p].parent_index
LastSlot(p) == hdr[Parent(p)].num_buckets
Tenant(p) == child[<<Parent(p), LastSlot(p)>>]

\* Mutant: the tenant that moves keeps its old parent_index.
HeadersWithoutUntold(p) ==
  CacheDelete([hdr EXCEPT ![Parent(p)].num_buckets = LastSlot(p) - 1], {p})

\* decreaseChildrensNum, then the tenant of the last slot is told its new
\* index, then the path's own header is deleted.
HeadersWithout(p) ==
  LET fewer == [hdr EXCEPT ![Parent(p)].num_buckets = LastSlot(p) - 1]
      told == [fewer EXCEPT ![Tenant(p)].parent_index = SlotOf(p)]
  IN  CacheDelete(told, {p})

\* The tenant of the last slot moves into the slot of p.
EntriesWithout(p) ==
  CacheDelete(CacheSet(child, <<Parent(p), SlotOf(p)>>, Tenant(p)),
              {<<Parent(p), LastSlot(p)>>})

RemoveEntry(p) ==
  /\ hdr' = HeadersWithout(p)
  /\ child' = EntriesWithout(p)

NothingRemoved == UNCHANGED <<hdr, child, data, xattr>>

\* hello_rmdir leaves the extended attributes of the directory behind.
Rmdir(p) ==
  /\ mounted /\ (Exists(p) => IsDir(p))
  /\ \/ p = Root /\ Reply("rmdir", p, "EPERM") /\ NothingRemoved
     \/ p # Root /\ ~Exists(p) /\ Reply("rmdir", p, "ENOTDIR") /\ NothingRemoved
     \/ /\ p # Root /\ Exists(p) /\ hdr[p].num_buckets > 0
        /\ Reply("rmdir", p, "ENOTEMPTY") /\ NothingRemoved
     \/ /\ p # Root /\ Exists(p) /\ hdr[p].num_buckets <= 0
        /\ RemoveEntry(p) /\ Reply("rmdir", p, "ok")
        /\ UNCHANGED <<data, xattr>>
  /\ UNCHANGED <<stats, mounted>>

\* Mutant: the loop over the buckets stops one short.
DataKeysButLast(p) == {<<p, i>> : i \in 1 .. hdr[p].num_buckets - 1}

\* The keys hello_unlink deletes beside the header: as many as it counts.
AttrKeysOf(p) == {<<p, i>> : i \in 1 .. hdr[p].xattr_num}
DataKeysOf(p) == {<<p, i>> : i \in 1 .. hdr[p].num_buckets}

Unlink(p) ==
  /\ mounted /\ (IsDir(p) => p = Root)
  /\ \/ p = Root /\ Reply("unlink", p, "EPERM") /\ NothingRemoved
     \/ p # Root /\ ~Exists(p) /\ Reply("unlink", p, "ENOENT") /\ NothingRemoved
     \/ /\ p # Root /\ Exists(p)
        /\ RemoveEntry(p) /\ Reply("unlink", p, "ok")
        /\ xattr' = CacheDelete(xattr, AttrKeysOf(p))
        /\ data' = data \ DataKeysOf(p)
  /\ UNCHANGED <<stats, mounted>>

\* hello_write as far as keys go: a write that starts within the data the file
\* has adds n buckets at its end.  FileIO has the loop and the bytes.
Write(p, n) ==
  /\ mounted /\ IsFile(p)
  /\ hdr[p].num_buckets + n <= MaxBuckets
  /\ data' = data \cup {<<p, hdr[p].num_buckets + i>> : i \in 1 .. n}
  /\ hdr' = [hdr EXCEPT ![p].num_buckets = @ + n]
  /\ Reply("write", p, "ok")
  /\ UNCHANGED <<stats, child, xattr, mounted>>

------------------------------------------------------------------------------
(* Extended attributes.  A bucket below xattr_num that is not in the server *)
(* leaves the handler's buffer unset: its name may compare equal to any.    *)

MustMatch(p, i, n) == <<p, i>> \in DOMAIN xattr /\ xattr[<<p, i>>].name = n
MayMatch(p, i, n) == <<p, i>> \in DOMAIN xattr => xattr[<<p, i>>].name \in {n, Junk}

\* Where the search loop for n may stop, and whether it may run to its end.
Stops(p, n) == {i \in 1 .. hdr[p].xattr_num :
                  MayMatch(p, i, n) /\ \A j \in 1 .. i - 1 : ~MustMatch(p, j, n)}
MayMiss(p, n) == \A i \in 1 .. hdr[p].xattr_num : ~MustMatch(p, i, n)

AttrAt(p, i) == IF <<p, i>> \in DOMAIN xattr
                THEN xattr[<<p, i>>]
                ELSE [name |-> Junk, val |-> Junk, parent_index |-> i]

\* hello_setxattr appends, whatever names are there already.
Setxattr(p, n, v) ==
  LET i == hdr[p].xattr_num + 1
  IN  /\ mounted /\ Exists(p) /\ i <= MaxAttrs
      /\ hdr' = [hdr EXCEPT ![p].xattr_num = i]
      /\ xattr' = CacheSet(xattr, <<p, i>>, [name |-> n, val |-> v, parent_index |-> i])
      /\ Reply("setxattr", <<p, n>>, "ok")
      /\ UNCHANGED <<stats, child, data, mounted>>

Getxattr(p, n) ==
  /\ mounted /\ Exists(p)
  /\ \/ \E i \in Stops(p, n) : Reply("getxattr", <<p, n>>, AttrAt(p, i).val)
     \/ MayMiss(p, n) /\ Reply("getxattr", <<p, n>>, -1)
  /\ UNCHANGED <<stores, mounted>>

\* Whether the names fit the caller's buffer or not: with size 0, or one too
\* small, the answer is the number of attributes.
Listxattr(p) ==
  /\ mounted /\ Exists(p)
  /\ \/ Reply("listxattr", p, hdr[p].xattr_num)
     \/ ReplyNames("listxattr", p, [i \in 1 .. hdr[p].xattr_num |-> AttrAt(p, i).name])
  /\ UNCHANGED <<stores, mounted>>

\* Mutant: the removed attribute's own key is deleted, nothing is moved.
AttrsWithoutUnmoved(p, i) == CacheDelete(xattr, {<<p, i>>})

\* Mutant: the last attribute is deleted, but was never copied down.
AttrsWithoutCopy(p, i) == CacheDelete(xattr, {<<p, hdr[p].xattr_num>>})

\* The last attribute moves into the slot of the removed one.
AttrsWithout(p, i) ==
  LET last == hdr[p].xattr_num
  IN  CacheDelete(CacheSet(xattr, <<p, i>>, [AttrAt(p, last) EXCEPT !.parent_index = i]),
                  {<<p, last>>})

Removexattr(p, n) ==
  /\ mounted /\ Exists(p)
  /\ \/ \E i \in Stops(p, n) :
          /\ hdr' = [hdr EXCEPT ![p].xattr_num = @ - 1]
          /\ xattr' = AttrsWithout(p, i)
          /\ Reply("removexattr", <<p, n>>, "ok")
     \/ MayMiss(p, n) /\ Reply("removexattr", <<p, n>>, -1) /\ UNCHANGED <<hdr, xattr>>
  /\ UNCHANGED <<stats, child, data, mounted>>

------------------------------------------------------------------------------
(* Handlers that only look.                                                 *)

Getattr(p) ==
  /\ mounted
  /\ Reply("getattr", p, IF ~Exists(p) THEN "ENOENT" ELSE IF IsDir(p) THEN "dir" ELSE "file")
  /\ UNCHANGED <<stores, mounted>>

Access(p) ==
  /\ mounted
  /\ Reply("access", p, IF Exists(p) THEN "ok" ELSE "ENOENT")
  /\ UNCHANGED <<stores, mounted>>

\* Mutant: the loop over the children stops one short.
ListingButLast(d) == [i \in 1 .. hdr[d].num_buckets - 1 |-> Last(child[<<d, i>>])]

\* The names readdir fills in: the text after the last "/" of each child.
Listing(d) == [i \in 1 .. hdr[d].num_buckets |-> Last(child[<<d, i>>])]

Readdir(p) ==
  /\ mounted /\ ~IsFile(p)
  /\ IF Exists(p) THEN ReplyNames("readdir", p, Listing(p)) ELSE Reply("readdir", p, "ENOENT")
  /\ UNCHANGED <<stores, mounted>>

Next ==
  \/ \E b \in BlockSizes : Reuse(b) \/ Format(b)
  \/ Unmount \/ ServerRestart
  \/ \E p \in Paths :
       \/ Mkdir(p) \/ Create(p) \/ Rmdir(p) \/ Unlink(p)
       \/ Getattr(p) \/ Access(p) \/ Readdir(p) \/ Listxattr(p)
       \/ \E n \in 0 .. MaxBuckets : Write(p, n)
       \/ \E n \in AttrNames : Getxattr(p, n) \/ Removexattr(p, n)
       \/ \E n \in AttrNames, v \in AttrVals : Setxattr(p, n, v)

Spec == Init /\ [][Next]_vars

------------------------------------------------------------------------------
(* Correctness.                                                             *)

\* Every store maps keys of its family to values of its family; no count of
\* children or buckets and no parent_index is negative.
TypeOK ==
  /\ stats \in BlockSizes \cup {NoStats}
  /\ IsStore(hdr, Paths, Header)
  /\ IsStore(child, Keys, Paths)
  /\ data \subseteq Keys
  /\ IsStore(xattr, AttrKeys, Attr)
  /\ mounted \in BOOLEAN
  /\ DOMAIN ret = {"op", "arg", "val", "names"}

\* A server with "stats" holds a root directory; one without holds nothing,
\* and is never the server of a running daemon.
RootOK ==
  /\ stats = NoStats => hdr = EmptyStore /\ child = EmptyStore
  /\ stats # NoStats => IsDir(Root)
  /\ mounted => stats # NoStats

\* The child keys of a directory are numbered 1 to num_buckets without a
\* hole, and nothing but a directory has any.
SlotsOK ==
  /\ \A k \in DOMAIN child : IsDir(k[1]) /\ k[2] <= hdr[k[1]].num_buckets
  /\ \A d \in DOMAIN hdr : IsDir(d) =>
        \A i \in 1 .. hdr[d].num_buckets : <<d, i>> \in DOMAIN child

\* A child key leads to an existing path of that directory, whose header
\* says which slot it sits in.
EntriesOK ==
  \A k \in DOMAIN child :
     /\ Exists(child[k]) /\ child[k] # Root
     /\ Parent(child[k]) = k[1] /\ SlotOf(child[k]) = k[2]

\* Every path but the root sits in the slot its header names, in a directory.
BackPointersOK ==
  \A p \in DOMAIN hdr \ {Root} :
     /\ IsDir(Parent(p))
     /\ <<Parent(p), SlotOf(p)>> \in DOMAIN child
     /\ child[<<Parent(p), SlotOf(p)>>] = p

\* The numbered child keys and the headers' num_buckets and parent_index,
\* which no request updates together, describe one and the same tree after
\* every handler: removal moves the last child into the hole and tells it so.
DirectoryIndexOK == RootOK /\ SlotsOK /\ EntriesOK /\ BackPointersOK

\* The data buckets in the server are those numbered 1 to num_buckets of the
\* files that exist: hello_unlink leaves none behind.
DataBucketsOK ==
  /\ \A k \in data : IsFile(k[1]) /\ k[2] <= hdr[k[1]].num_buckets
  /\ \A p \in DOMAIN hdr : IsFile(p) => DataKeysOf(p) \subseteq data

\* The attributes a file counts are in the server, named, and each knows its
\* own index; also when an earlier directory of that path left keys behind.
FileXattrsOK ==
  \A p \in DOMAIN hdr : IsFile(p) =>
     /\ hdr[p].xattr_num >= 0
     /\ \A i \in 1 .. hdr[p].xattr_num :
          /\ <<p, i>> \in DOMAIN xattr
          /\ xattr[<<p, i>>].name # Junk /\ xattr[<<p, i>>].parent_index = i

\* How many attributes of p have name n and value v.
AttrCount(p, n, v) ==
  Cardinality({i \in 1 .. hdr[p].xattr_num : AttrAt(p, i).name = n /\ AttrAt(p, i).val = v})

\* An attribute of a file comes only by a setxattr of its name and goes only
\* by a removexattr of its name, one at a time: moving the last attribute
\* into the hole neither loses nor duplicates any.
AttrsKept ==
  [][\A p \in DOMAIN hdr : IsFile(p) /\ IsFile(p)' =>
       LET changed == {nv \in AttrNames \X AttrVals :
                         AttrCount(p, nv[1], nv[2])' # AttrCount(p, nv[1], nv[2])}
       IN  \/ changed = {}
           \/ \E n \in AttrNames, v \in AttrVals :
                /\ changed = {<<n, v>>} /\ ret'.arg = <<p, n>>
                /\ AttrCount(p, n, v)' - AttrCount(p, n, v) =
                     CASE ret'.op = "setxattr" -> 1 [] ret'.op = "removexattr" -> -1]_vars

\* The tree a caller sees: CacheFS implements FileTree.
Tree == INSTANCE FileTree WITH
  kind <- [p \in DOMAIN hdr |-> IF IsDir(p) THEN "dir" ELSE "file"], ret <- ret

\* Through slots, swaps and headers a caller sees a plain tree: a path appears
\* below a directory and disappears alone, rmdir refuses exactly the
\* directories with children, and a listing names every child once.
TreeRefined == Tree!TreeSpec
==============================================================================
