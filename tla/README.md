# cachedfs, specified and verified

TLA+ specifications of the programs in this repository: what they keep, what
each operation does to it, and what must hold whatever order things happen in.
TLC checks the specifications on small instances; TLAPS proves the central
invariants for every instance.

The repository's main program is **cachedfs**, a FUSE file system that keeps
everything as key-value pairs in memcached. Beside it are four course
exercises: a heap allocator (`malloc-master`), the work queue and HTTP helpers
of a web server (`hw2`), a shell (`hw1`), and warm-ups (`hw0`, `hw3`).

## Inventory

### cachedfs/memcache.c - the memcached client
*State:* one socket (`sockfd`), opened once by `cache_init`. *Operations:*
`cache_get`, `cache_set`, `cache_msg` (used for `delete` and `flush_all`): send a
request, take what the next `read` returns for its reply.
*Hard:* FUSE serves requests on several threads and nothing locks the socket;
`FAST_MODE` leaves replies unread; a long reply may come in pieces; a broken
connection is noticed by `send` only.
*Correct when:* each call returns the answer to its own request, and nothing is
left in the stream for the next one.

### cachedfs/main.c - the namespace
*State, all in memcached:* `"stats"`; a header per path; `"<i><dir>"`, the path
of a directory's i-th child. A header holds `num_buckets` (children or data
buckets), `parent_index` (its slot in its directory), `xattr_num`.
*Operations:* init, mkdir, create, rmdir, unlink, readdir, getattr, access.
*Hard:* a removal moves the last child into the hole and must tell that child;
slots, counts and back pointers live under different keys and are written by
separate requests; handlers run on several threads, and what keeps them apart is
the kernel's inode locks, not this code; the daemon may be killed between two
requests; daemon and server restart independently.
*Correct when:* the three describe one tree, callers see a plain tree, and a
handler that is cut short damages only the paths it was at work on.

### cachedfs/main.c - extended attributes
*State:* `"$<i><path>"`, name and value, counted by `xattr_num`.
*Operations:* setxattr (always appends), getxattr and removexattr (linear
search), listxattr. *Hard:* the swap on removal; duplicates; the keys `rmdir`
leaves behind; the count `mkdir` leaves unset.
*Correct when:* attributes of a file come and go one at a time, by name.

### cachedfs/main.c - file contents
*State:* `"&<i><path>"`, buckets of at most `MAX_BUCKET_SIZE` bytes; `data_len`
and `num_buckets` in the header. *Operations:* write, read. *Hard:* a call is
many requests and may be cut short by a crash; a write beyond the end calls
itself; offsets, bucket edges and two notions of length must fit together.
*Correct when:* reads give back what was written, and a crash damages nothing
but the bytes being written.

### hw2/wq.c - the work queue
*State:* `wq_t` (`size`, `head`), a doubly linked list of allocated items, one
mutex, one condition variable. *Operations:* `wq_init`, `wq_push`, `wq_pop`.
*Hard:* the signal and the wake-up are two moments, and another worker may come
between them; wake-ups nobody asked for; counter, head and links are one fact in
three places; an item is freed outside the mutex.
*Correct when:* callers see a first-in first-out queue, every accepted socket is
served by one worker, and no item leaks or is freed while it can be reached.

### hw1/shell.c - jobs
*State:* `numBack`; the children, in the kernel; the terminal's foreground
process group. *Operations:* launching a program in the foreground or with `&`,
`wait`, `exit`. *Hard:* children end, stop and go on at any moment; handing over
the terminal races with the child's `setpgid`; `wait` takes any child.
*Correct when:* the shell has the terminal when it reads, `numBack` counts the
background children, and the prompt always comes back.

### hw1/tokenizer.c and the child's arguments
*State:* the line; the word being built, in a buffer of `n_max` bytes. *Operations:*
`tokenize`, and in `main` the loop over the words that makes the child's arguments
and redirections. *Hard:* quotes, backslashes and the end of the line in every
combination; a redirection takes the word after it along.
*Correct when:* the words are those that the quotes and backslashes mean, and each
word is an argument, a redirection or its file, never two of these.

### malloc-master/mm_alloc.c - the heap
*State:* the break; a doubly linked list of blocks, its records among the bytes
callers hold. *Operations:* `mm_malloc` (first fit, split, extend), `mm_free`
(merge on both sides), `mm_realloc` (free, allocate, copy).
*Hard:* what one call gets wrong shows many calls later; a merged block's record
stays where it was, and pointers into it with it.
*Correct when:* the list partitions the heap, and nobody but the caller changes a
byte it holds.

### hw2/libhttp.c - request parsing
*State:* none; the text of one `read`. *Operation:* `http_request_parse`.
*Correct when:* it takes what the grammar in its comments derives, and of a text cut
short the same or nothing.

### The rest
The half of `libhttp.c` that prints a response; `hw3`, the unfinished allocator;
`hw0`, printing exercises. The web server itself and the sources of the other
exercises are not in the repository.

## Modules

| module | models | abstraction |
|---|---|---|
| `Memcached` | one request with its reply | a store is a function on the keys present |
| `CacheFS` | namespace, attributes, init, restarts | a handler is one step; a path is a sequence of names; buckets are keys without bytes |
| `FileTree` | what the namespace promises | existing paths and their kinds |
| `FileIO` | `hello_write`, `hello_read` | one file; one step per bucket; bytes are model values |
| `CacheFSSteps` | the handlers that change something, on several threads | one step per request; the kernel's inode locks |
| `MemcacheClient` | the socket and its threads | a request is a record; a reply is one or two pieces |
| `MCCacheFS`, `MCCacheFSSteps` | instances of `CacheFS` and `CacheFSSteps` | symmetry, leftover ints |
| `CacheFSProofs` | proofs about `CacheFS`: types, the index, that it implements `FileTree`, buckets and attributes; about `CacheFSSteps`: locks, the invariant, and the first half of its steps | |
| `CacheFSStepsProofs` | proofs about `CacheFSSteps`: the other steps, quiet trees, kills, and that a handler that runs alone is one of `CacheFS` | |
| `FileIOProofs` | proofs about `FileIO` | |
| `MemcacheClientProofs` | proofs about `MemcacheClient` | |
| `Fifo` | what the work queue promises | a sequence, and each worker's socket |
| `WorkQueue` | `wq.c` and the two list macros it uses | one step per pthread call and per statement; addresses are model values |
| `WorkQueueProofs` | proofs about `WorkQueue` | |
| `ShellJobs` | launching, waiting and the terminal in `shell.c` | one step per system call; what a program does is end, stop or go on |
| `ShellJobsProofs` | proofs about `ShellJobs` | |
| `ShellLine` | `tokenize` and the child's arguments | a line is a sequence of characters; one turn per character |
| `HttpRequest` | `http_request_parse` | a text is a sequence of characters |
| `MCText` | every short line and text, for the two above | a character is added per step |
| `MCTextProofs` | proof about `HttpRequest` | |
| `MMAlloc` | `mm_malloc`, `mm_free`, `mm_realloc` | the heap is an array of cells, a record takes two; a call is one step |
| `MMAllocProofs` | proofs about `MMAlloc` | |

How they fit together: `MemcacheClient` shows when a `cache_*` call is one
atomic step on a store, namely when calls do not overlap. `CacheFS`, `FileIO` and
`CacheFSSteps` build on that step (`Memcached`). `CacheFSSteps` shows when a handler
is one step on the stores, namely when no other handler overlaps it: then it
implements `CacheFS` (`Atomic`). `CacheFS` implements `FileTree`. `FileIO` is the
inside of `CacheFS`'s `Write`. `WorkQueue`, which implements `Fifo`, `ShellJobs`,
`ShellLine`, `HttpRequest` and `MMAlloc` stand alone, as the programs they model do.

### Memcached, CacheFS and FileTree
memcached's keys fall into families told apart by prefix, and no key of one is a
key of another, because a path starts with `/`. Each family is a variable:
`stats`, `hdr`, `child`, `data`, `xattr`. The action of a handler has its name
(`Mkdir` is `hello_mkdir`, ...). `HeadersWith` and `EntriesWith` are `addToParent`
with `increaseChildrensNum`; `HeadersWithout` and `EntriesWithout` are the half of
`hello_rmdir` and `hello_unlink` that swaps. `ret` is the last answer.

The kernel looks a path up before it calls a handler, so `Mkdir` and `Create` get
paths that do not exist below directories that do, `Rmdir` gets directories and
`Unlink` the rest, and attribute, read and write calls get existing paths. The
handlers' own checks (`EPERM`, `ENOTDIR`, `ENOENT`, `ENOTEMPTY`) are modelled.
Not reached under this, and left out: `-EFAULT` of `hello_mkdir` and the path on
which `hello_create` returns nothing at all (`main.c:483-497`), both for a parent
whose header is gone.

`Write` of `CacheFS` is a write that starts within the stored data; one beyond it
leaves buckets that the header does not count, and that is `FileIO`'s subject.

An attribute key below `xattr_num` that is not in the server leaves a fresh
buffer unset; its content is `Junk`, which may compare equal to any name.
`Uninit` is what `xattr_num` of a new directory may hold.

### FileIO
`stack` holds the frames of `hello_write`, the innermost first: the call for the
zeros and the call that made it, each with its own copy of the header. `want` and
`before` are the contents the file should have after and before the write at
hand; `gapped` turns true with the first write that starts beyond the stored bytes
or beyond `data_len`, `crashed` with the first write that is killed.
A bucket that is not in the server leaves a buffer on the stack as it was:
`Residue`, at least one byte and at most a bucket.

### CacheFSSteps
The stores are those of `CacheFS`, which it extends. `at` is each worker's next
request, named for what it does (`SetCount`, `SetSlot`, `SetTenant`, ...), `job` the
handler it is in, `copy` the header it has read and will write back, `mem` its other
locals. FUSE's kernel side holds the lock of the inodes a call changes: the parent of
a path that is made, parent and path of one that is removed, the path of a write or an
attribute call (`Locks`, external). A `child`, `data` or `xattr` key is written under
one lock, so its read is part of the step of the request that follows; headers are
written under different locks, so every read of a header that precedes its being
written back is a step of its own, unless the handler begins with it. Handlers that
only read are not split.

`clashed` turns true when a header is written while another worker holds a copy that
it will write back. That happens: a removal re-indexes the child it moved, whose lock
nobody holds for it. Nothing is promised after that, and nothing is started.
`OnlyTenantsClash` says that nothing else clashes, `QuietOK` that all handlers
together leave a tree as long as nothing did, `KillLeaves` what is there if the daemon
dies at this very moment. `overlapped` and `before` are what `Atomic` needs: while a
handler runs alone, a caller sees the stores as it found them.

A run starts from any tree (`StepsInit`): every kind of each path, every order of
children in their slots, files all empty or all full. Those are states that handlers
leave which ran one at a time, by the theorems about `CacheFS`.

### MemcacheClient
`requests`, `wire` and `inbox` are the stream to the server, from it, and the part
of it that has arrived. A thread sends, then reads whatever is there. The server
is external: it answers a connection's requests in order. `served` is what it
answered to each thread's call; `clean` says that so far no two calls overlapped,
none was let go by `FAST_MODE`, no reply came in pieces, and the connection stood.

### WorkQueue and Fifo
`pc` is where each thread is, `owner` who holds `lock`, `node` the allocated
items by address, `item` and `fd` the two locals of each thread. An action is one
statement: `PushCall` (with `calloc`), `Lock`, `AppendItem`, `Count`, `Signal`,
`PushReturn` for `wq_push`; `PopCall`, `Lock`, `Wait` or `Proceed`, `Take`,
`DeleteItem`, `Unlock`, `PopReturn` for `wq_pop`. `DL_APPEND` and `DL_DELETE` are
one step each (`Link`, `UnlinkHead`), since only the mutex's holder looks at the
list. `pthread_cond_wait` gives the mutex away and sleeps in one step, and comes
back through `Lock` to the loop's condition. `line` is a history variable, the
addresses in the order they were appended: the pointers must string up the same
items (`PointersOK`), and `Fifo`'s queue is read off it. The callers are external:
acceptors push a socket each, workers pop again and again. `calloc` is taken to
find an address; an address is given out again once it is freed.

### ShellJobs
`pc` is where `main` is, `child` what each process is up to: not there, `born`
(forked, no group of its own yet), `running`, `stopped` and not yet reported,
`parked` (stopped and reported by `waitpid`), `zombie`. `behind` holds the
children launched with `&`, `tty` the terminal's foreground group. A program may
end or fail to start (`Exit`), be stopped for reading from the background
(`ReadStops`) or by ^Z (`Suspend`), and be continued or killed from elsewhere
(`Signalled`). A `fork` that fails gives -1 to the parent's branch, so `waitpid`
waits for any child. A blank line ends the shell like `exit` does, because the
last word is looked at although there is none (`shell.c:206`).
The words of the command are `ShellLine`'s subject.
Two things make `numBack` wrong, and `Settled` says that neither has happened: a
fork that failed, and a stopped foreground job that ended later (`strayed`).

### ShellLine, HttpRequest and MCText
`Tokens` folds `Turn`, one turn of `tokenize`'s loop, over the line; `Meaning` is the
reference: which characters stand for themselves and which gaps end words, said of
the line as a whole. `ChildArgs` folds `Arg`, one turn of the child's loop. `Typed` is
the other direction, a line that must tokenize to given words. `Parse` is
`http_request_parse`; `Derives` is the grammar in its comments, with the three places
it divides a text at. `MCText` adds a character per step, so its states are all the
lines and texts there are.

### MMAlloc
`mem.cell` says for each cell of the heap what it holds: a byte, or half of a record.
A record takes two cells, since the free mark must be told from the pointers, and is
read where its second cell is intact. The list, `Blocks`, is the least set that holds the
first block and with each block its next. A call is computed on `mem` as a value, built
of the stores and assignments of the code (`Clear`, `PutRecord`, `SetRecord`, `SetNext`,
`SetPrev`, `SetFree`), so `Realloc` is `Freed`, then `Allocated`, then the copy, as in the
code. `memcpy` between overlapping ranges is taken as a move.

`held` is what callers know: pointers, and what they last put there. `wild` is true
once a caller's byte has been taken for a record, or a copy has run over one. What
follows depends on what the caller wrote, so the model ends there, which is why its
run does not check for deadlock.

## Runs

| run | question | bounds |
|---|---|---|
| `namespace` | is the index one tree, and do callers see a tree? | 2 names, 2 levels: 6 paths, directories with 2 children, removal of first and last |
| `attributes` | do attributes and buckets survive swaps and leftovers? | 1 path and the root, 2 names, 2 attributes, leftover counts -1, 0, 1, two block sizes, 2 buckets |
| `fileio` | are bytes where they belong, at every moment? | buckets of 2 bytes with a struct of 1, writes up to 3 bytes in the first 5, 2 byte values |
| `steps` | what if handlers overlap, or are killed? | 2 names, 2 levels, any tree of files empty or full; 2 workers, 2 handlers; 1 bucket, 1 attribute |
| `client` | does each call get its own reply? | 2 threads, 1 key, 2 values, FAST_MODE on and off, 2 requests or pieces on the way |
| `num_buckets` | README: `num_buckets` is the number of buckets | as `fileio`; violated |
| `workqueue` | is `wq.c` a queue that loses nothing and serves all? | 2 acceptors, 2 workers, 3 sockets, memory for 3 items, 1 wake-up without a signal |
| `shelljobs` | terminal, `numBack`, the prompt | 3 children at a time, 1 fork that fails |
| `heap` | does the list stay a partition, and bytes what they were? | heap of 9 cells, requests of 0 to 4, one value besides zero |
| `text` | words, arguments, requests | lines of 6 characters of 8 kinds, a word buffer of 5; texts of 7 characters of 5 kinds |
| `wait_all` | shell.c: "waits for all background processes" | 2 children, no failure; violated |
| `cache_get_miss` | memcache.c: -1 on error | as `client`; violated |

Why the bounds are enough: with two children every case of a removal occurs
(the last child, another child, the only child), with two levels a moved child
may be a directory with children of its own. With two attributes removal moves
one. Writes of three bytes over buckets of two start and end inside, at and across
edges, and leave holes within and between buckets. Two workers are what it takes
for one to take the item another was woken for; three sockets make a list with
a first, a middle and a last item, and three addresses are used again. Three
children are a stopped foreground job, a background one and a third in the
foreground; pids are used again. Two handlers from any tree are every pair of
handlers in every interleaving; each clash is between two. Nine cells are three
blocks, so that one is split, merged on either side, or left unmerged between two. Six
characters are two quotations of either kind with a backslash, or two redirections
with their words; seven are a request with one character to spare for every mistake.

Fairness: `FileIO` assumes that the daemon's loops go on (`WF_vars(Step)`), for
every request is answered; a crash is never forced. `MemcacheClient` assumes that
the server serves, the stream delivers, and a thread takes what has come.
`WorkQueue` assumes that every thread keeps running (weak fairness per thread);
no fairness of the mutex or of `pthread_cond_signal` is needed, because the load is
finite. `ShellJobs` assumes that the shell goes on when it can, that a forked child
gets to its `setpgid`, and that a program that runs again and again ends (strong
fairness: it may be stopped and continued in between). A stopped program need
never go on, so `WaitReturns` allows `wait` to be held up by one.

`CacheFSSteps`, `MMAlloc` and `MCText` state no liveness and no fairness: a handler is
a bounded row of requests, and the others' operations are one step each.

### What the violated runs show
* A write beyond the end keeps the header it read before it filled the hole
  (`main.c:547-557`) and stores a count that misses buckets.
* Two threads read each other's replies (`memcache.c:30`).
* `wait` takes the end of a foreground job that was stopped earlier for one of
  the background jobs it counts (`shell.c:102-107`).

### Seen while modelling
What the models hold that a maintainer would want to know. No run is about these
alone; the properties are stated around them.

*cachedfs*
* `hello_mkdir` does not set `xattr_num` (`main.c:226-232`; the repository's
  `README.md:32` calls it the number of attributes). `Uninit` in `CacheFS`.
* `hello_write` adds the size of `bucket_struct` to `data_len` per bucket
  (`main.c:574`; "length of real data", `README.md:29`), so `st_size` and reads go
  beyond the data. `LayoutOK` states the relation that does hold.
* While `rmdir` or `unlink` of one path re-indexes the last child, a `write` to that
  child may store the header it read before (`main.c:602`): its `parent_index` is then
  the old slot. The other order loses the write's count. `clashed` in `CacheFSSteps`.
* A daemon killed inside `removexattr` may lose the last attribute as well, killed
  inside a removal leaves the last child out of the listing, killed inside `mkdir` or
  `create` leaves a slot that is counted and empty. `KillLeaves` allows just these.

*mm_alloc.c*
* `mm_free` merges a block into the one before it without telling the one after
  (`mm_alloc.c:149-153`), whose `prev` then leads into the merged block. A later free
  reads a record there: zeros, an old record or a caller's bytes. `wild`.
* `mm_realloc` clears the new block before it copies. When the block stays in place its
  contents are gone, and when it moves within the free block it has become part of,
  those that the clearing reached; `man 3 malloc`, which `mm_alloc.h:4` refers to, says
  they are kept. A block made smaller copies its old size over what follows.
* Free blocks may stay unmerged next to each other.

*shell.c and libhttp.c*
* `params` has no room for its `NULL` when every word is an argument (`shell.c:216`).
* `getDirectory` appends to a buffer it has not initialised (`shell.c:163`).
* `http_request_parse` reads once, does not look at a `read` that fails, and leaks
  what it has copied when it gives up.

## Proofs

`CacheFSProofs` proves for any constants that satisfy `CacheFSAssumption`:

* `TypeCorrect`: `Spec => []TypeOK`
* `IndexCorrect`: `Spec => []DirectoryIndexOK`
* `TreeImplemented`: `Spec => TreeRefined`

Neither of the first two is inductive alone: that `num_buckets` stays natural needs that
a removed path sits in a slot of its parent, and the index is only meaningful on typed
stores. `IndInv` is their conjunction. `AddKeepsIndex` and `RemoveKeepsIndex` carry
the argument for the handlers that change the tree: an added child takes the
first free slot; a removed one's slot goes to the tenant of the last, which no
other path names as its own. `TouchKeepsIndex` covers changes of a header that
the index does not look at. Paths are sequences of names; the index needs of them
only that a parent is a path other than its child, the tree that a path is its parent
and its last name (`PathFromParts`).

`TreeImplemented` shows that the stores implement the plain tree. Every handler's
step is `FileTree`'s step of the same name, or none; `readdir` needs the index (each
slot up to `num_buckets` names a different child, and every child has one) to answer
with exactly the children.

It also proves `BucketsCounted` and `AttributesThere`, `Spec => []P` for
`DataBucketsOK` and `FileXattrsOK`. Their conjunction `KeysInv` is inductive together
with `IndInv`: a handler that makes or removes a path writes headers of others, of its
directory and of the child that moves, and the index is what says that those writes
leave the counts of files alone (`SameFile`).

Its last theorem is about steps, `AttributesKept`: `Spec => AttrsKept`. The attributes
that have a name and a value are a set of indexes (`AttrsLike`), and a step changes its
size only as `AttrsKept` allows: `setxattr` adds the index after the last; `removexattr`
takes one index out of the set of the name it was asked for, and of every other set at
most swaps the last index for that of the hole. `FileXattrsOK` is needed for the keys
that the two read to be there.

`CacheFSProofs` also proves, and `CacheFSStepsProofs` with it, for any number of workers
and calls, and any constants that satisfy `CacheFSAssumption` and `StepsAssumption`
(names are finitely many, since a path is a memcached key and keys are of bounded
length):

* `LocksSerialise`: `StepsSpec => []OnlyTenantsClash`
* `QuietCorrect`: `StepsSpec => []QuietOK`
* `KillsLeave`: `StepsSpec => []KillLeaves`

`LockInv` says that the locks of busy workers are disjoint (`HoldersApart`) and which
handlers get to which request (`StageOK`); a header that will be written back is then one
its worker has locked (`PendingHeld`), but for a tenant's.

For the other two, `StepsInv` adds to it that as long as nothing clashed the stores are a
tree but for what handlers have yet to do (`TreeOK`), and how far each handler is
(`WorkersOK`). `TreeOK` is the index and the keys of files, with an exception for each
kind of unfinished work: `Uncounts` is a slot that is there but counted no more, `Counts`
one that is counted and not yet there, `Bears` one whose path has no header yet, `Moves`
one whose tenant is not told or not yet taken from its old slot, `Drops` a path that has
lost its slot, `Spares` a bucket that no header counts yet or any more, `Adds` an
attribute that is counted and not yet there. A request changes only what its handler has
locked, a tenant's `parent_index` apart (`Footprint`), and so disturbs what no other
handler relies on (`OthersKeep`); that leaves, per request, the tree and the handler's
own progress to show. When all are idle no exception is left, which is `QuietOK`; each
exception `KillLeaves` makes is one of these. That the stores of `StepsInit` are a tree
is proved as well (`InitTree`).

`CacheFSStepsProofs` also proves `HandlersAtomic`: `StepsSpec => Atomic`. A handler that no
other overlaps is one step of `CacheFS`, so that what is proved of `CacheFS` holds of the
handlers' requests as long as calls come one at a time. `AloneInv` says for each request
how the stores differ from those the handler found (`Since`), for instance that `unlink`
on its k-th turn has deleted the first k - 1 keys. Each request leads from one such
difference to the next and changes nothing a caller sees; the last one's difference is
what `CacheFS` makes of the stores in one step. `StepsInv` says that what is read on the
way is there, and that the header written back is the one in the server.

`FileIOProofs` proves for any bucket size, size of the struct, bounds and bytes that
satisfy `FileIOAssumption`: `FileTypes`, `LayoutSafe`, `WritesLand`, `KillsSafe` and
`ReadsBack`, `Spec => []P` for `TypeOK`, `LayoutOK`, `WriteLands`, `KillSafe` and
`ReadBack`. `IndInv` is `TypeOK` and, as long as no write has started beyond the end,
`ContentInv`. Between two calls (`AtRest`) the file is what was written, and `data_len`
counts the bytes in the buckets (`Held`) and one struct each (`Counted`). While a write
runs (`InWrite`), the bytes up to where its loop has come are those the file should have
and the others those it had; the buckets are laid out as its own copy of the header says
(`LaidOut`), which may count more of them than the header in the server. `InRead` is the
same for a read's buffer. `TurnOf` says what one turn of the write's loop does, and is
shown of a bucket that is counted, which is patched and may grow if it is the last
(`OldBucketTurn`), and of the next one (`NewBucketTurn`); `TurnKeeps` is then the step.
Nothing is proved of a file after a write beyond its end: the count is wrong then (run
`num_buckets`).

`MemcacheClientProofs` proves for any threads, keys and values that satisfy
`MemcacheClientAssumption`: `ClientTypesCorrect`, `AnswersOwn` and `StreamEmptied`,
`Spec => []P` for `TypeOK`, `OwnAnswers` and `NothingLeftOver`. `OwnAnswers` is about
calls that have returned; the inductive `OneAtATime` says where the one message is
before that: as long as `clean`, it is the request of the one call in progress, or the
whole of its reply on its way, or the reply arrived, and the stream is otherwise empty.

`WorkQueueProofs` proves for any constants that satisfy `WorkQueueAssumption`:

* `QueueTypes`, `ListCorrect`, `HeadCorrect`, `WakeupsKept`: `Spec => []P` for
  `TypeOK`, `ListOK`, `HeadThere`, `NoLostWakeup`
* `FifoCorrect`: `Spec => FifoImplemented`

`IndInv` adds to `ListOK` which thread holds the mutex at which statement, and
that the holder alone may be between two updates of counter and links. Then a
head that is about to be taken is there, because `size` was not zero when the
mutex was last taken. `NoLostWakeup` counts: each step that adds an item or lets
a worker sleep is weighed against the threads on their way. The refinement reads
the queue off `line` and the items' sockets.

`ShellJobsProofs` proves for any constants that satisfy `ShellJobsAssumption`:
`JobTypes`, `TerminalKept`, `NumBackCounts`, `ForegroundEnds`, `Spec => []P` for
`TypeOK`, `TerminalOK`, `NumBackOK`, `ForegroundOK`. `NumBackOK` needs to know, when
`wait` takes a child, that it is a background one; that is `OthersOK`, the stronger
form of `ForegroundOK`. `CountOK` extends the count to the moment between `fork` and
`numBack++`.

`MMAllocProofs` proves for a heap and requests of any size, from `MMAllocAssumption`
(sizes are natural, callers write numbers and not zero):

* `HeapSafe`, `HeldKept`: `Spec => []P` for `HeapOK`, `ContentsKept`
* `ReallocCopies`: `Spec => ReallocKeeps`

The invariant, `HeapInv`, is a `Memory` whose blocks are a `List` that is `Owned` by the
callers. A memory has a record exactly where a cell says so. A list starts at the first
cell, each block has room before its next, none is passed over, and only the last has no
next. `ListIsBlocks` turns this around: any set of addresses that is linked so is what
the loop of `mm_malloc` walks, so each lemma about a call names the blocks that it leaves.
`PrevOK`, part of `HeapOK`, is not inductive: a `prev` that lies in the block before could
lead `mm_free` to a stale record that says free, and it would merge the wrong bytes.
`Behind` excludes it: `mm_free` leaves a stale `prev` only when it merges a block back into
a free one, and the record of that block, which no store reaches except one that ends it,
says that it is in use until then. `Owned` says of held bytes that none is half a record.

On the list there are five operations, each on any heap: a change that leaves the links
alone (`ListSame`), a block split (`ListSplit`), merged (`ListMerge`), added at the end
(`ListExtend`), and a store inside a held block (`OwnedStored`). `Took` says what
`mm_malloc` leaves, in each of the ways it finds a block (`AllocatedTakes`), and `Gave`
what `mm_free` leaves (`FreedGives`); `mm_realloc` is one after the other and a store
(`ReallocTakes`, `ReallocStores`). A copy longer than the new block is allowed, as in the
code: it stays before the next record (`Apart`), or the model ends.

`MCTextProofs` proves for texts of any length and any characters, from
`HttpRequestAssumption` (a capital letter is no space, newline or NUL), `RequestParsed`:
`Spec => []RequestOK`. A loop of `http_request_parse` stops at the first of the
characters that it looks for (`StopStops`), and no other place fits the description
(`StopIs`). So the places where the three loops stop divide the text as the grammar asks
(`ParsedDerives`), and any division that the grammar allows is at those places
(`DerivedParses`): the grammar derives one request at most. What it derives from a part
of a text it derives from the whole, hence `PartParsed`.

Only model-checked:
* `TokensOK`, `ArgsOK`: folds over a line, compared with a reference for every line. That
  is induction over data, which the prover does not do here.
* All liveness (`CallsReturn`, `Served`, `PromptAgain`, `WaitReturns`), which the prover
  does not handle.

## Not modelled
* Keys that memcached evicts when it is full: a header that goes takes its subtree
  along, handlers judge buffers that no `cache_get` filled, and nothing is promised.
* What happens after a clash (see `CacheFSSteps`), and handlers that only read while
  others write: they may see any of the states that `KillLeaves` describes.
* Sizes beyond 2 GB and the wrap of `int`.
* Paths longer than the fixed buffers, names that contain what the protocol
  cannot carry.
* `calloc` failing in `wq_push`; the shell's `PATH` lookup, `cd`, `pwd` and help, and
  a shell whose input is not a terminal: single calls of the system.
* The response half of `libhttp.c`, which prints; `hw0`, `hw3`: no state.

## Plan
1. Done: the modules above, for every component that keeps state.
2. Done: proofs of every safety property of `CacheFS`, `CacheFSSteps`, `FileIO`,
   `MemcacheClient`, `WorkQueue`, `ShellJobs`, `MMAlloc` and `HttpRequest`, and of the
   refinements.
3. Not planned: `TokensOK` and `ArgsOK` for lines of any length, see above.
