------------------------------ MODULE WorkQueue ------------------------------
(****************************************************************************)
(* The work queue of hw2/wq.c: a doubly linked list under one mutex and one *)
(* condition variable.  Acceptors call wq_push for each socket, workers     *)
(* call wq_pop again and again.  One step per call into pthreads and per    *)
(* statement between them; the two list macros are one step each, for no    *)
(* other thread may look while they run.                                    *)
(****************************************************************************)
EXTENDS Integers, Sequences, FiniteSets

CONSTANTS
  Acceptors, Workers,  \* the threads
  Sockets,             \* bound: the sockets accepted, each once
  Addrs,               \* addresses calloc may return
  MaxSpurious,         \* bound: wake-ups without a signal
  NoThread, NoSocket, NULL

ASSUME WorkQueueAssumption ==
  /\ Acceptors \cap Workers = {}
  /\ NoThread \notin Acceptors \cup Workers
  /\ NoSocket \notin Sockets /\ NULL \notin Addrs
  /\ MaxSpurious \in Nat
  /\ IsFiniteSet(Acceptors \cup Workers)

VARIABLES
  pc,        \* where each thread is; an acceptor and a worker start at "idle"
  owner,     \* the thread that holds lock
  head, size,  \* wq_t
  node,      \* the allocated wq_item_t, by address
  item, fd,  \* each thread's wq_item and client_socket_fd
  todo,      \* sockets not accepted yet
  done,      \* sockets wq_pop has returned
  spurious,  \* wake-ups without a signal so far
  line       \* history: addresses in the list, first to last

locals == <<item, fd>>
list == <<head, size, node, line>>
vars == <<pc, owner, list, locals, todo, done, spurious>>

Threads == Acceptors \cup Workers
Item == [client_socket_fd: Sockets, next: Addrs \cup {NULL}, prev: Addrs \cup {NULL}]

At(t, here) == pc[t] = here
GoTo(t, here, there) == pc[t] = here /\ pc' = [pc EXCEPT ![t] = there]
Asleep == {w \in Workers : pc[w] = "asleep"}

\* wq_init.
Init ==
  /\ pc = [t \in Threads |-> "idle"] /\ owner = NoThread
  /\ head = NULL /\ size = 0 /\ line = <<>>
  /\ node = [a \in {} |-> a]
  /\ item = [t \in Threads |-> NULL] /\ fd = [t \in Threads |-> NoSocket]
  /\ todo = Sockets /\ done = {} /\ spurious = 0

------------------------------------------------------------------------------
(* The mutex.                                                               *)

\* Mutant: the mutex is held by none and by everyone.
MutexOpen == TRUE

MutexFree == owner = NoThread

Lock(t, here, there) ==
  /\ GoTo(t, here, there) /\ MutexFree /\ owner' = t
  /\ UNCHANGED <<list, locals, todo, done, spurious>>

Unlock(t, there) ==
  /\ GoTo(t, "unlock", there) /\ owner' = NoThread
  /\ UNCHANGED <<list, locals, todo, done, spurious>>

------------------------------------------------------------------------------
(* wq_push.                                                                 *)

Calloc(t, s) ==
  \E a \in Addrs \ DOMAIN node :
    /\ node' = [b \in DOMAIN node \cup {a} |->
                  IF b = a THEN [client_socket_fd |-> s, next |-> NULL, prev |-> NULL]
                           ELSE node[b]]
    /\ item' = [item EXCEPT ![t] = a]

\* An accepted socket is given to wq_push.
PushCall(t, s) ==
  /\ GoTo(t, "idle", "lock") /\ s \in todo
  /\ Calloc(t, s) /\ todo' = todo \ {s}
  /\ UNCHANGED <<owner, head, size, line, fd, done, spurious>>

\* Mutant: DL_PREPEND.
LinkFirst(a) ==
  /\ head' = a
  /\ node' = IF head = NULL THEN [node EXCEPT ![a].prev = a]
             ELSE [node EXCEPT ![a].next = head, ![a].prev = node[head].prev, ![head].prev = a]

\* DL_APPEND: the prev of the head is the last item.
Link(a) ==
  IF head = NULL
  THEN head' = a /\ node' = [node EXCEPT ![a].prev = a, ![a].next = NULL]
  ELSE LET last == node[head].prev
       IN  /\ node' = [[node EXCEPT ![last].next = a]
                        EXCEPT ![a].prev = last, ![a].next = NULL, ![head].prev = a]
           /\ UNCHANGED head

AppendItem(t) ==
  /\ GoTo(t, "append", "count")
  /\ Link(item[t]) /\ line' = Append(line, item[t])
  /\ UNCHANGED <<owner, size, locals, todo, done, spurious>>

Count(t) ==
  /\ GoTo(t, "count", "signal") /\ size' = size + 1
  /\ UNCHANGED <<owner, head, node, line, locals, todo, done, spurious>>

\* Mutant: the signal is sent only for the first item.
WakeOneIfFirst ==
  IF Asleep = {} \/ size > 1 THEN {{}} ELSE {{w} : w \in Asleep}

\* Mutant: the signal is not sent.
WakeNone == {{}}

\* Whom pthread_cond_signal may wake.
WakeOne == IF Asleep = {} THEN {{}} ELSE {{w} : w \in Asleep}

Signal(t) ==
  /\ At(t, "signal")
  /\ \E woken \in WakeOne :
       pc' = [u \in Threads |-> IF u = t THEN "unlock" ELSE
                                IF u \in woken THEN "relock" ELSE pc[u]]
  /\ UNCHANGED <<owner, list, locals, todo, done, spurious>>

\* wq_push returns.
PushReturn(t) ==
  /\ GoTo(t, "unlock", "idle") /\ owner' = NoThread
  /\ item' = [item EXCEPT ![t] = NULL]
  /\ UNCHANGED <<list, fd, todo, done, spurious>>

------------------------------------------------------------------------------
(* wq_pop.                                                                  *)

PopCall(t) ==
  /\ GoTo(t, "idle", "lock")
  /\ UNCHANGED <<owner, list, locals, todo, done, spurious>>

\* The while loop: pthread_cond_wait lets the mutex go and sleeps in one.
Wait(t) ==
  /\ GoTo(t, "test", "asleep") /\ size = 0
  /\ owner' = NoThread
  /\ UNCHANGED <<list, locals, todo, done, spurious>>

Proceed(t) ==
  /\ GoTo(t, "test", "take") /\ size # 0
  /\ UNCHANGED <<owner, list, locals, todo, done, spurious>>

\* pthread_cond_wait may return without a signal.
WakeUnasked(t) ==
  /\ GoTo(t, "asleep", "relock") /\ spurious < MaxSpurious
  /\ spurious' = spurious + 1
  /\ UNCHANGED <<owner, list, locals, todo, done>>

\* Mutant: if instead of while.
AfterWaitIf == "take"

\* pthread_cond_wait returns to the loop's condition.
AfterWait == "test"

\* A NULL head would stop the program here.
Take(t) ==
  /\ GoTo(t, "take", "delete") /\ head \in DOMAIN node
  /\ item' = [item EXCEPT ![t] = head]
  /\ fd' = [fd EXCEPT ![t] = node[head].client_socket_fd]
  /\ size' = size - 1
  /\ UNCHANGED <<owner, head, node, line, todo, done, spurious>>

\* Mutant: the new head does not learn which item is the last.
UnlinkHeadUntold ==
  head' = (IF node[head].prev = head THEN NULL ELSE node[head].next) /\ UNCHANGED node

\* DL_DELETE of the head.
UnlinkHead ==
  IF node[head].prev = head
  THEN head' = NULL /\ UNCHANGED node
  ELSE LET next == node[head].next
       IN  /\ head' = next
           /\ node' = [node EXCEPT ![next].prev = node[head].prev]

DeleteItem(t) ==
  /\ GoTo(t, "delete", "unlock") /\ head \in DOMAIN node
  /\ UnlinkHead /\ line' = Tail(line)
  /\ UNCHANGED <<owner, size, locals, todo, done, spurious>>

\* free, and wq_pop returns.
PopReturn(t) ==
  /\ GoTo(t, "free", "idle")
  /\ node' = [a \in DOMAIN node \ {item[t]} |-> node[a]]
  /\ item' = [item EXCEPT ![t] = NULL] /\ fd' = [fd EXCEPT ![t] = NoSocket]
  /\ done' = done \cup {fd[t]}
  /\ UNCHANGED <<owner, head, size, line, todo, spurious>>

------------------------------------------------------------------------------
Push(t) ==
  \/ \E s \in Sockets : PushCall(t, s)
  \/ Lock(t, "lock", "append") \/ AppendItem(t) \/ Count(t) \/ Signal(t) \/ PushReturn(t)

Pop(t) ==
  \/ PopCall(t) \/ Lock(t, "lock", "test") \/ Wait(t) \/ Lock(t, "relock", AfterWait)
  \/ Proceed(t) \/ Take(t) \/ DeleteItem(t) \/ Unlock(t, "free") \/ PopReturn(t)

Next ==
  \/ \E t \in Acceptors : Push(t)
  \/ \E t \in Workers : Pop(t) \/ WakeUnasked(t)

Spec == Init /\ [][Next]_vars

\* Every thread keeps running.  With so many sockets and unasked wake-ups the
\* mutex cannot be busy for ever, so no fairness of the mutex is assumed.
FairSpec ==
  Spec /\ (\A t \in Acceptors : WF_vars(Push(t))) /\ (\A t \in Workers : WF_vars(Pop(t)))

------------------------------------------------------------------------------
(* Correctness.                                                             *)

\* The item counter is never negative, and locals and items are of their type.
TypeOK ==
  /\ pc \in [Threads -> {"idle", "lock", "append", "count", "signal", "unlock", "test",
                         "asleep", "relock", "take", "delete", "free"}]
  /\ owner \in Threads \cup {NoThread}
  /\ head \in Addrs \cup {NULL} /\ size \in Nat /\ line \in Seq(Addrs)
  /\ DOMAIN node \subseteq Addrs /\ node \in [DOMAIN node -> Item]
  /\ item \in [Threads -> Addrs \cup {NULL}] /\ fd \in [Threads -> Sockets \cup {NoSocket}]
  /\ todo \subseteq Sockets /\ done \subseteq Sockets /\ spurious \in 0 .. MaxSpurious

\* The pointers string the items up in the order they were appended; the
\* first item's prev is the last one.
PointersOK ==
  /\ head = IF line = <<>> THEN NULL ELSE line[1]
  /\ \A i \in DOMAIN line :
       /\ line[i] \in DOMAIN node
       /\ node[line[i]].next = IF i = Len(line) THEN NULL ELSE line[i + 1]
       /\ node[line[i]].prev = IF i = 1 THEN line[Len(line)] ELSE line[i - 1]

\* Whoever changes the list has not counted yet, or has counted already.
Uncounted == {t \in Threads : pc[t] \in {"count", "delete"}}
SizeOK == size = Len(line) - Cardinality(Uncounted)

\* An allocated item is in the list, once, or in the hands of one thread that
\* is about to append or to free it: none leaks, none is freed twice or while
\* it can still be reached.
InHand == {t \in Threads : pc[t] \in {"free"} \/ (pc[t] = "unlock" /\ t \in Workers)
                           \/ (pc[t] \in {"lock", "append"} /\ t \in Acceptors)}
ItemsOK ==
  /\ \A i, j \in DOMAIN line : line[i] = line[j] => i = j
  /\ \A t, u \in InHand : item[t] = item[u] => t = u
  /\ \A t \in InHand : \A i \in DOMAIN line : item[t] # line[i]
  /\ DOMAIN node = {line[i] : i \in DOMAIN line} \cup {item[t] : t \in InHand}

\* The list, its length and the heap agree whatever the threads do.
ListOK == PointersOK /\ SizeOK /\ ItemsOK

\* wq_pop never looks into an empty queue, though between a signal and the
\* moment the woken worker has the mutex another may have taken the item.
HeadThere == \A t \in Workers : pc[t] \in {"take", "delete"} => head # NULL

\* While a worker sleeps, every item in the queue has a worker on its way to
\* it, or a signal about to be sent: no wake-up is lost.
OnTheirWay == {t \in Workers : pc[t] \in {"lock", "relock", "test", "take"}}
                \cup {t \in Acceptors : pc[t] = "signal"}
NoLostWakeup == Asleep # {} => size <= Cardinality(OnTheirWay)

\* A worker's socket, once it is off the list and until wq_pop returns.
Queue == INSTANCE Fifo WITH
  queue <- [i \in DOMAIN line |-> node[line[i]].client_socket_fd],
  hand <- [w \in Workers |-> IF pc[w] \in {"unlock", "free"} THEN fd[w] ELSE NoSocket]

\* Callers see a first-in first-out queue that gives each socket to one worker.
FifoImplemented == Queue!FifoSpec

\* Every socket accepted is returned by a wq_pop in the end.
Served == \A s \in Sockets : (s \notin todo) ~> (s \in done)
==============================================================================
