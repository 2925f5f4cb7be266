----------------------------- MODULE CacheFSSteps ----------------------------
(****************************************************************************)
(* The handlers of cachedfs/main.c that change something, request by        *)
(* request: FUSE serves the file system on several threads, and between two *)
(* requests of one handler anything of another may come.  Each request is   *)
(* one step on the stores of CacheFS; MemcacheClient says when that is so.  *)
(*                                                                          *)
(* What keeps handlers apart is not in this code but in the kernel: it holds *)
(* the locks of the inodes a call changes while the call is served.  A key  *)
(* that only the holder of a lock writes is read in one step with the       *)
(* request that follows; the headers are not such keys.                     *)
(****************************************************************************)
EXTENDS CacheFS

CONSTANTS Workers,  \* threads that serve requests
          MaxCalls  \* bound: handlers called from the start on

\* A path is a memcached key, and keys are of bounded length.
ASSUME StepsAssumption == IsFiniteSet(Names)

VARIABLES
  at,    \* each worker's next request, "idle" between handlers
  job,   \* its handler, the path and the handler's argument
  copy,  \* the header it read and will write back
  mem,   \* its other locals: own header, index, tenant
  calls,
  clashed,     \* history: a header was written that another worker holds a copy of
  overlapped,  \* history: another handler started before all had ended
  before       \* history: the stores when a handler started that runs alone

locals == <<at, job, copy, mem>>
history == <<clashed, overlapped, before>>
stepVars == <<vars, locals, calls, history>>

NoJob == [op |-> "none", p |-> Root, arg |-> 0]
NoHeader == NewFileHeader(0)
NoMem == [own |-> NoHeader, i |-> 0, who |-> Root]

Busy(w) == at[w] # "idle"

------------------------------------------------------------------------------
(* The kernel's locks.                                                      *)

\* Mutant: removals lock the removed inode only.
LocksOfSelf(op, p) ==
  CASE op \in {"mkdir", "create"} -> {Parent(p)} [] OTHER -> {p}

\* What the kernel has locked while it waits for a handler.
Locks(op, p) ==
  CASE op \in {"mkdir", "create"} -> {Parent(p)}
    [] op \in {"rmdir", "unlink"} -> {Parent(p), p}
    [] OTHER -> {p}

Holds(w) == IF Busy(w) THEN Locks(job[w].op, job[w].p) ELSE {}

\* The paths of which w holds a copy of the header that it will write back.
Pending(w) ==
  CASE at[w] \in {"SetCount", "SetLess"} -> {Parent(job[w].p)}
    [] at[w] = "SetTenant" -> {mem[w].who}
    [] at[w] \in {"SetBucket", "SetNum"} -> {job[w].p}
    [] OTHER -> {}

------------------------------------------------------------------------------
(* Starting, going on and ending.                                           *)

AllIdle == \A w \in Workers : ~Busy(w)

\* A handler is called.  Nothing is started after a clash: what that leaves in
\* the server is no tree, and nobody promises anything about it.
Start(w, op, p, arg, next) ==
  /\ ~Busy(w) /\ calls < MaxCalls /\ ~clashed
  /\ \A v \in Workers : Holds(v) \cap Locks(op, p) = {}
  /\ at' = [at EXCEPT ![w] = next]
  /\ job' = [job EXCEPT ![w] = [op |-> op, p |-> p, arg |-> arg]]
  /\ calls' = calls + 1
  /\ overlapped' = ~AllIdle
  /\ before' = IF AllIdle THEN stores ELSE <<>>
  /\ UNCHANGED <<stores, mounted, ret, clashed>>

Goes(w, next) ==
  /\ at' = [at EXCEPT ![w] = next]
  /\ UNCHANGED <<job, mounted, ret, calls, overlapped, before>>

Ends(w, val) ==
  /\ at' = [at EXCEPT ![w] = "idle"]
  /\ job' = [job EXCEPT ![w] = NoJob]
  /\ copy' = [copy EXCEPT ![w] = NoHeader]
  /\ mem' = [mem EXCEPT ![w] = NoMem]
  /\ Reply(job[w].op, job[w].arg, val)
  /\ overlapped' = (overlapped /\ \E v \in Workers \ {w} : Busy(v))
  /\ before' = <<>>
  /\ UNCHANGED <<mounted, calls>>

\* cache_set of a header; another worker's copy of it is then out of date.
PutHeader(w, p, h) ==
  /\ hdr' = CacheSet(hdr, p, h)
  /\ clashed' = (clashed \/ \E v \in Workers \ {w} : p \in Pending(v))
  /\ UNCHANGED <<stats, child, data, xattr>>

------------------------------------------------------------------------------
(* hello_mkdir and hello_create: count, slot, header.                       *)

MakeStart(w, op, p) ==
  /\ mounted /\ Absent(p)
  /\ Start(w, op, p, p, "SetCount")
  /\ copy' = [copy EXCEPT ![w] = hdr[Parent(p)]]
  /\ UNCHANGED mem

\* increaseChildrensNum writes the header back, one child up.
SetCount(w) ==
  LET n == copy[w].num_buckets + 1
  IN  /\ at[w] = "SetCount"
      /\ PutHeader(w, Parent(job[w].p), [copy[w] EXCEPT !.num_buckets = n])
      /\ mem' = [mem EXCEPT ![w].i = n]
      /\ Goes(w, "SetEntry")
      /\ UNCHANGED copy

SetEntry(w) ==
  /\ at[w] = "SetEntry"
  /\ child' = CacheSet(child, <<Parent(job[w].p), mem[w].i>>, job[w].p)
  /\ Goes(w, "SetHeader")
  /\ UNCHANGED <<stats, hdr, data, xattr, copy, mem, clashed>>

SetHeader(w) ==
  /\ at[w] = "SetHeader"
  /\ IF job[w].op = "mkdir"
     THEN \E g \in Uninit : PutHeader(w, job[w].p, NewDirHeader(mem[w].i, g))
     ELSE PutHeader(w, job[w].p, NewFileHeader(mem[w].i))
  /\ Ends(w, "ok")

------------------------------------------------------------------------------
(* hello_rmdir and hello_unlink.                                            *)

\* The path's own header is read and looked at; a directory with children is
\* refused, which is no change and CacheFS's business.
RemoveStart(w, op, p) ==
  /\ mounted /\ p # Root
  /\ \/ op = "rmdir" /\ IsDir(p) /\ hdr[p].num_buckets <= 0
     \/ op = "unlink" /\ IsFile(p)
  /\ Start(w, op, p, p, "GetCount")
  /\ mem' = [mem EXCEPT ![w].own = hdr[p]]
  /\ UNCHANGED copy

\* decreaseChildrensNum reads the directory's header ...
GetCount(w) ==
  /\ at[w] = "GetCount"
  /\ copy' = [copy EXCEPT ![w] = hdr[Parent(job[w].p)]]
  /\ Goes(w, "SetLess")
  /\ UNCHANGED <<stores, mem, clashed>>

\* Mutant: the count after the decrement is taken for the last slot.
SetLessOff(w) ==
  LET n == copy[w].num_buckets - 1
  IN  /\ at[w] = "SetLess"
      /\ PutHeader(w, Parent(job[w].p), [copy[w] EXCEPT !.num_buckets = n])
      /\ mem' = [mem EXCEPT ![w].i = IF n = 0 THEN 1 ELSE n]
      /\ Goes(w, "SetSlot")
      /\ UNCHANGED copy

\* ... and writes it back, one child down.
SetLess(w) ==
  LET n == copy[w].num_buckets
  IN  /\ at[w] = "SetLess"
      /\ PutHeader(w, Parent(job[w].p), [copy[w] EXCEPT !.num_buckets = n - 1])
      /\ mem' = [mem EXCEPT ![w].i = n]
      /\ Goes(w, "SetSlot")
      /\ UNCHANGED copy

\* Mutant: the child of the last slot is read but never copied.
SetSlotNot(w) ==
  /\ at[w] = "SetSlot"
  /\ mem' = [mem EXCEPT ![w].who = child[<<Parent(job[w].p), mem[w].i>>]]
  /\ Goes(w, "GetTenant")
  /\ UNCHANGED <<stores, copy, clashed>>

\* The child of the last slot is copied into the slot of the removed path.
SetSlot(w) ==
  LET d == Parent(job[w].p)
      last == child[<<d, mem[w].i>>]
  IN  /\ at[w] = "SetSlot"
      /\ child' = CacheSet(child, <<d, mem[w].own.parent_index>>, last)
      /\ mem' = [mem EXCEPT ![w].who = last]
      /\ Goes(w, "GetTenant")
      /\ UNCHANGED <<stats, hdr, data, xattr, copy, clashed>>

GetTenant(w) ==
  /\ at[w] = "GetTenant"
  /\ copy' = [copy EXCEPT ![w] = hdr[mem[w].who]]
  /\ Goes(w, "SetTenant")
  /\ UNCHANGED <<stores, mem, clashed>>

\* Mutant: the tenant is told the slot it comes from.
SetTenantOld(w) ==
  /\ at[w] = "SetTenant"
  /\ PutHeader(w, mem[w].who, [copy[w] EXCEPT !.parent_index = mem[w].i])
  /\ Goes(w, "DelLast")
  /\ UNCHANGED <<copy, mem>>

\* Its whole header is written back, with the new index.
SetTenant(w) ==
  /\ at[w] = "SetTenant"
  /\ PutHeader(w, mem[w].who, [copy[w] EXCEPT !.parent_index = mem[w].own.parent_index])
  /\ Goes(w, "DelLast")
  /\ UNCHANGED <<copy, mem>>

DelLast(w) ==
  /\ at[w] = "DelLast"
  /\ child' = CacheDelete(child, {<<Parent(job[w].p), mem[w].i>>})
  /\ Goes(w, "DelHeader")
  /\ UNCHANGED <<stats, hdr, data, xattr, copy, mem, clashed>>

\* hello_rmdir is done; hello_unlink goes on with the attributes and buckets.
DelHeader(w) ==
  /\ at[w] = "DelHeader"
  /\ hdr' = CacheDelete(hdr, {job[w].p})
  /\ IF job[w].op = "rmdir"
     THEN Ends(w, "ok")
     ELSE Goes(w, "DelKeys") /\ mem' = [mem EXCEPT ![w].i = 1] /\ UNCHANGED copy
  /\ UNCHANGED <<stats, child, data, xattr, clashed>>

\* One turn of the two loops: the attributes 1, 2, ..., then the buckets.
DelKeys(w) ==
  LET p == job[w].p
      attrs == mem[w].own.xattr_num
      i == mem[w].i
  IN  /\ at[w] = "DelKeys" /\ i <= attrs + mem[w].own.num_buckets
      /\ IF i <= attrs
         THEN xattr' = CacheDelete(xattr, {<<p, i>>}) /\ data' = data
         ELSE data' = data \ {<<p, i - attrs>>} /\ xattr' = xattr
      /\ mem' = [mem EXCEPT ![w].i = i + 1]
      /\ Goes(w, "DelKeys")
      /\ UNCHANGED <<stats, hdr, child, copy, clashed>>

UnlinkEnds(w) ==
  /\ at[w] = "DelKeys" /\ mem[w].i > mem[w].own.xattr_num + mem[w].own.num_buckets
  /\ Ends(w, "ok")
  /\ UNCHANGED <<stores, clashed>>

------------------------------------------------------------------------------
(* hello_write, as far as keys go: n new buckets, then the header that was  *)
(* read before them.                                                        *)

WriteStart(w, p, n) ==
  /\ mounted /\ IsFile(p) /\ hdr[p].num_buckets + n <= MaxBuckets
  /\ Start(w, "write", p, p, "SetBucket")
  /\ copy' = [copy EXCEPT ![w] = hdr[p]]
  /\ mem' = [mem EXCEPT ![w].i = n]

SetBucket(w) ==
  LET n == copy[w].num_buckets + 1
  IN  /\ at[w] = "SetBucket" /\ mem[w].i > 0
      /\ data' = data \cup {<<job[w].p, n>>}
      /\ copy' = [copy EXCEPT ![w].num_buckets = n]
      /\ mem' = [mem EXCEPT ![w].i = @ - 1]
      /\ Goes(w, "SetBucket")
      /\ UNCHANGED <<stats, hdr, child, xattr, clashed>>

WriteEnds(w) ==
  /\ at[w] = "SetBucket" /\ mem[w].i = 0
  /\ PutHeader(w, job[w].p, copy[w])
  /\ Ends(w, "ok")

------------------------------------------------------------------------------
(* hello_setxattr and hello_removexattr: the count, then the keys.          *)

SetxattrStart(w, p, n, v) ==
  /\ mounted /\ Exists(p) /\ hdr[p].xattr_num < MaxAttrs
  /\ Start(w, "setxattr", p, <<p, n>>, "SetNum")
  /\ copy' = [copy EXCEPT ![w] = [hdr[p] EXCEPT !.xattr_num = @ + 1]]
  /\ mem' = [mem EXCEPT ![w].who = <<n, v>>]

\* The loop that looks for the attribute is part of the start: only the
\* holder of p's lock writes these keys.
RemovexattrStart(w, p, n) ==
  /\ mounted /\ Exists(p)
  /\ Start(w, "removexattr", p, <<p, n>>, "SetNum")
  /\ copy' = [copy EXCEPT ![w] = [hdr[p] EXCEPT !.xattr_num = @ - 1]]
  /\ \E i \in Stops(p, n) : mem' = [mem EXCEPT ![w].i = i]

SetNum(w) ==
  /\ at[w] = "SetNum"
  /\ PutHeader(w, job[w].p, copy[w])
  /\ Goes(w, IF job[w].op = "setxattr" THEN "SetAttr" ELSE "MoveAttr")
  /\ UNCHANGED <<copy, mem>>

SetAttr(w) ==
  LET i == copy[w].xattr_num
  IN  /\ at[w] = "SetAttr"
      /\ xattr' = CacheSet(xattr, <<job[w].p, i>>,
                    [name |-> mem[w].who[1], val |-> mem[w].who[2], parent_index |-> i])
      /\ Ends(w, "ok")
      /\ UNCHANGED <<stats, hdr, child, data, clashed>>

MoveAttr(w) ==
  LET last == AttrAt(job[w].p, copy[w].xattr_num + 1)
  IN  /\ at[w] = "MoveAttr"
      /\ xattr' = CacheSet(xattr, <<job[w].p, mem[w].i>>,
                           [last EXCEPT !.parent_index = mem[w].i])
      /\ Goes(w, "DelAttr")
      /\ UNCHANGED <<stats, hdr, child, data, copy, mem, clashed>>

DelAttr(w) ==
  /\ at[w] = "DelAttr"
  /\ xattr' = CacheDelete(xattr, {<<job[w].p, copy[w].xattr_num + 1>>})
  /\ Ends(w, "ok")
  /\ UNCHANGED <<stats, hdr, child, data, clashed>>

------------------------------------------------------------------------------
(* Any tree, with nothing going on: what handlers that ran one at a time    *)
(* leave (CacheFSProofs).  Bounds: its files are all empty or all full, and *)
(* the deepest paths are files.                                             *)

Kinds == {k \in [Paths -> {"none", "dir", "file"}] :
            /\ k[Root] = "dir" /\ \A p \in Paths : Len(p) = MaxDepth => k[p] # "dir"
            /\ \A p \in Paths \ {Root} : k[p] # "none" => k[Parent(p)] = "dir"}

Kids(k, d) == {p \in Paths \ {Root} : k[p] # "none" /\ Parent(p) = d}

\* The orders in which the children of each directory may sit in their slots.
Orders(k) ==
  LET dirs == {d \in Paths : k[d] = "dir"}
      Order(d) == Bijection(1 .. Cardinality(Kids(k, d)), Kids(k, d))
  IN  {o \in [dirs -> UNION {Order(d) : d \in dirs}] : \A d \in dirs : o[d] \in Order(d)}

SlotIn(o, p) == IF p = Root THEN 0 ELSE CHOOSE i \in DOMAIN o[Parent(p)] : o[Parent(p)][i] = p

StepsInit ==
  /\ stats \in BlockSizes /\ mounted = TRUE
  /\ ret = [op |-> "init", arg |-> Root, val |-> "ok", names |-> <<>>]
  /\ \E k \in Kinds, full \in BOOLEAN : \E o \in Orders(k) :
       LET files == {p \in Paths : k[p] = "file"}
           attrs == IF full THEN files \X (1 .. MaxAttrs) ELSE {}
           fill == IF full THEN MaxBuckets ELSE 0
       IN  /\ hdr = [p \in {q \in Paths : k[q] # "none"} |->
                       IF k[p] = "dir"
                       THEN [NewDirHeader(SlotIn(o, p), 0) EXCEPT
                               !.num_buckets = Cardinality(Kids(k, p))]
                       ELSE [NewFileHeader(SlotIn(o, p)) EXCEPT
                               !.num_buckets = fill,
                               !.xattr_num = IF full THEN MaxAttrs ELSE 0]]
           /\ child = [s \in UNION {{d} \X DOMAIN o[d] : d \in DOMAIN o} |-> o[s[1]][s[2]]]
           /\ data = files \X (1 .. fill)
           /\ \E n \in AttrNames, v \in AttrVals :
                xattr = [s \in attrs |-> [name |-> n, val |-> v, parent_index |-> s[2]]]
  /\ at = [w \in Workers |-> "idle"] /\ job = [w \in Workers |-> NoJob]
  /\ copy = [w \in Workers |-> NoHeader] /\ mem = [w \in Workers |-> NoMem]
  /\ calls = 0 /\ clashed = FALSE /\ overlapped = FALSE /\ before = <<>>

Handler(w) ==
  \/ \E p \in Paths :
       \/ \E op \in {"mkdir", "create"} : MakeStart(w, op, p)
       \/ \E op \in {"rmdir", "unlink"} : RemoveStart(w, op, p)
       \/ \E n \in 0 .. MaxBuckets : WriteStart(w, p, n)
       \/ \E n \in AttrNames : RemovexattrStart(w, p, n)
       \/ \E n \in AttrNames, v \in AttrVals : SetxattrStart(w, p, n, v)
  \/ SetCount(w) \/ SetEntry(w) \/ SetHeader(w)
  \/ GetCount(w) \/ SetLess(w) \/ SetSlot(w) \/ GetTenant(w) \/ SetTenant(w)
  \/ DelLast(w) \/ DelHeader(w) \/ DelKeys(w) \/ UnlinkEnds(w)
  \/ SetBucket(w) \/ WriteEnds(w)
  \/ SetNum(w) \/ SetAttr(w) \/ MoveAttr(w) \/ DelAttr(w)

\* Nobody calls any more.
Rest == AllIdle /\ (calls = MaxCalls \/ clashed) /\ UNCHANGED stepVars

StepsNext == Rest \/ \E w \in Workers : Handler(w)

StepsSpec == StepsInit /\ [][StepsNext]_stepVars

------------------------------------------------------------------------------
(* Correctness.                                                             *)

\* The kernel's locks keep all read-modify-writes of headers apart but one:
\* a removal that tells its tenant, whose lock nobody holds for it.
OnlyTenantsClash ==
  \A v, w \in Workers :
     v # w /\ Pending(v) \cap Pending(w) # {} => "SetTenant" \in {at[v], at[w]}

\* However handlers overlap, as long as no header was written back over
\* another worker's, the index is one tree and no bucket or attribute is
\* lost or left when all have ended.
QuietOK ==
  AllIdle /\ ~clashed => DirectoryIndexOK /\ DataBucketsOK /\ FileXattrsOK

Listed(p) == \E i \in 1 .. hdr[Parent(p)].num_buckets :
               <<Parent(p), i>> \in DOMAIN child /\ child[<<Parent(p), i>>] = p

\* The paths that removals in progress may have taken out of their
\* directory: the path itself, and until it has its new slot the tenant.
Unlisted ==
  UNION {{job[w].p} \cup IF at[w] = "SetSlot" THEN {child[<<Parent(job[w].p), mem[w].i>>]} ELSE {}
           : w \in {v \in Workers : job[v].op \in {"rmdir", "unlink"}}}

\* The slots that are counted but not yet filled.
Promised ==
  {<<Parent(job[w].p), mem[w].i>> : w \in {v \in Workers : at[v] \in {"SetEntry", "SetHeader"}}}

\* The daemon may be killed between any two requests.  What it leaves then is
\* damaged only where a handler was at work: every other path is in its
\* directory's listing, every other slot leads to a path of that directory,
\* no path is listed twice, and every bucket and attribute that the header of
\* a file counts is there.
KillLeaves ==
  ~clashed =>
    /\ \A p \in DOMAIN hdr \ ({Root} \cup Unlisted) : Exists(Parent(p)) /\ Listed(p)
    /\ \A d \in DOMAIN hdr : IsDir(d) =>
         /\ \A i \in 1 .. hdr[d].num_buckets : <<d, i>> \notin Promised =>
              /\ <<d, i>> \in DOMAIN child /\ Exists(child[<<d, i>>])
              /\ Parent(child[<<d, i>>]) = d
         /\ \A i, j \in {k \in 1 .. hdr[d].num_buckets : <<d, k>> \in DOMAIN child} :
              child[<<d, i>>] = child[<<d, j>>] => i = j
    /\ \A p \in DOMAIN hdr : IsFile(p) =>
         /\ DataKeysOf(p) \subseteq data
         /\ AttrKeysOf(p) \subseteq DOMAIN xattr \/ \E w \in Workers : at[w] = "SetAttr" /\ job[w].p = p

\* What a caller sees while one handler runs: the stores as it found them.
Alone == before # <<>>
Seen(n) == IF Alone THEN before[n] ELSE stores[n]

Whole == INSTANCE CacheFS WITH
  stats <- Seen(1), hdr <- Seen(2), child <- Seen(3), data <- Seen(4), xattr <- Seen(5)

\* A handler that no other overlaps is, from its first request to its last,
\* one step of CacheFS, with the same answer.
Atomic ==
  [][~overlapped /\ ~overlapped' =>
       \/ UNCHANGED Whole!vars
       \/ \E p \in Paths :
            \/ Whole!Mkdir(p) \/ Whole!Create(p) \/ Whole!Rmdir(p) \/ Whole!Unlink(p)
            \/ \E n \in 0 .. MaxBuckets : Whole!Write(p, n)
            \/ \E n \in AttrNames : Whole!Removexattr(p, n)
            \/ \E n \in AttrNames, v \in AttrVals : Whole!Setxattr(p, n, v)]_stepVars
==============================================================================
