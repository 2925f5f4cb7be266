--------------------------- MODULE WorkQueueProofs ---------------------------
(****************************************************************************)
(* Proofs about WorkQueue, for any threads, sockets and addresses.          *)
(****************************************************************************)
EXTENDS WorkQueue, SequenceTheorems, FiniteSetTheorems, TLAPS

AcceptorLabels == {"idle", "lock", "append", "count", "signal", "unlock"}
WorkerLabels == {"idle", "lock", "test", "asleep", "relock", "take", "delete", "unlock", "free"}
Locked == {"append", "count", "signal", "test", "take", "delete", "unlock"}

\* Acceptors run wq_push only, workers wq_pop.
RolesOK ==
  /\ \A t \in Acceptors : pc[t] \in AcceptorLabels
  /\ \A t \in Workers : pc[t] \in WorkerLabels

\* The mutex is with the one thread between its lock and its unlock.
MutexOK == \A t \in Threads : pc[t] \in Locked <=> owner = t

\* Between the two statements that change them, size and list differ by one.
Behind == IF \E t \in Threads : pc[t] \in {"count", "delete"} THEN 1 ELSE 0
CountOK == size = Len(line) - Behind

\* What a worker in the middle of wq_pop knows of the list.
WorkerOK ==
  \A t \in Workers :
    /\ pc[t] \in {"take", "delete"} => line # <<>>
    /\ pc[t] = "delete" => item[t] = head /\ fd[t] = node[head].client_socket_fd
    /\ pc[t] \in {"unlock", "free"} => fd[t] \in Sockets

IndInv ==
  TypeOK /\ RolesOK /\ MutexOK /\ PointersOK /\ CountOK /\ ItemsOK /\ WorkerOK

LEMMA InitIndInv == Init => IndInv
<1> SUFFICES ASSUME Init PROVE IndInv
  OBVIOUS
<1> USE DEF Init
<1>1. TypeOK
  BY WorkQueueAssumption DEF TypeOK, Item, Threads
<1>2. RolesOK /\ MutexOK
  BY WorkQueueAssumption DEF RolesOK, MutexOK, Threads, AcceptorLabels, WorkerLabels, Locked
<1>3. PointersOK /\ CountOK /\ ItemsOK /\ WorkerOK
  BY DEF PointersOK, CountOK, Behind, ItemsOK, InHand, WorkerOK, Threads
<1> QED
  BY <1>1, <1>2, <1>3 DEF IndInv

------------------------------------------------------------------------------
(* Steps that move a thread on and leave list and locals alone.             *)

LEMMA MoveKeeps ==
  ASSUME IndInv, UNCHANGED <<list, locals>>, TypeOK', RolesOK', MutexOK', WorkerOK',
         InHand' = InHand, Behind' = Behind
  PROVE  IndInv'
BY DEF IndInv, list, locals, PointersOK, CountOK, ItemsOK

LEMMA LockKeeps ==
  ASSUME IndInv, NEW t \in Threads, NEW here, NEW there, Lock(t, here, there),
         \/ t \in Acceptors /\ here = "lock" /\ there = "append"
         \/ t \in Workers /\ here \in {"lock", "relock"} /\ there = "test"
  PROVE  IndInv'
<1> USE WorkQueueAssumption DEF Threads
<1>1. /\ pc[t] = here /\ pc' = [pc EXCEPT ![t] = there] /\ owner = NoThread /\ owner' = t
      /\ UNCHANGED <<list, locals>> /\ UNCHANGED <<head, size, node, line, item, fd, todo, done, spurious>>
      /\ pc \in [Threads -> {"idle", "lock", "append", "count", "signal", "unlock", "test",
                         "asleep", "relock", "take", "delete", "free"}]
  BY DEF Lock, GoTo, MutexFree, IndInv, TypeOK, list, locals
<1>2. TypeOK'
  BY <1>1 DEF IndInv, TypeOK
<1>3. RolesOK'
  BY <1>1 DEF IndInv, RolesOK, AcceptorLabels, WorkerLabels
<1>4. MutexOK'
  BY <1>1 DEF IndInv, MutexOK, Locked
<1>5. WorkerOK'
  BY <1>1 DEF IndInv, WorkerOK
<1>6. InHand' = InHand /\ Behind' = Behind
  BY <1>1 DEF InHand, Behind
<1> QED
  BY <1>1, <1>2, <1>3, <1>4, <1>5, <1>6, MoveKeeps

\* Signal; PopCall, Wait, Proceed, WakeUnasked and Unlock.
LEMMA SignalKeeps ==
  ASSUME IndInv, NEW t \in Acceptors, Signal(t)
  PROVE  IndInv'
<1> USE WorkQueueAssumption DEF Threads
<1>1. PICK woken \in WakeOne :
        pc' = [u \in Threads |-> IF u = t THEN "unlock" ELSE
                                 IF u \in woken THEN "relock" ELSE pc[u]]
  BY DEF Signal
<1>2. /\ pc[t] = "signal" /\ \A u \in woken : u \in Workers /\ pc[u] = "asleep"
      /\ UNCHANGED <<owner, list, locals>>
      /\ UNCHANGED <<owner, head, size, node, line, item, fd, todo, done, spurious>>
  BY <1>1 DEF Signal, At, WakeOne, Asleep, list, locals
<1>3. /\ pc'[t] = "unlock" /\ \A u \in Threads \ {t} : pc'[u] = pc[u] \/ (u \in Workers /\ pc[u] = "asleep" /\ pc'[u] = "relock")
      /\ pc' \in [Threads -> {"idle", "lock", "append", "count", "signal", "unlock", "test",
                         "asleep", "relock", "take", "delete", "free"}]
  BY <1>1, <1>2 DEF IndInv, TypeOK
<1>4. TypeOK'
  BY <1>2, <1>3 DEF IndInv, TypeOK
<1>5. RolesOK'
  BY <1>2, <1>3 DEF IndInv, RolesOK, AcceptorLabels, WorkerLabels
<1>6. MutexOK'
  BY <1>2, <1>3 DEF IndInv, MutexOK, Locked
<1>7. WorkerOK'
  BY <1>2, <1>3 DEF IndInv, WorkerOK
<1>8. InHand' = InHand /\ Behind' = Behind
  BY <1>2, <1>3 DEF InHand, Behind
<1> QED
  BY <1>2, <1>4, <1>5, <1>6, <1>7, <1>8, MoveKeeps

LEMMA WorkerMoveKeeps ==
  ASSUME IndInv, NEW t \in Workers,
         PopCall(t) \/ Wait(t) \/ Proceed(t) \/ WakeUnasked(t) \/ Unlock(t, "free")
  PROVE  IndInv'
<1> USE WorkQueueAssumption DEF Threads
<1>1. PICK here, there :
        /\ pc[t] = here /\ pc' = [pc EXCEPT ![t] = there]
        /\ <<here, there>> \in {<<"idle", "lock">>, <<"test", "asleep">>, <<"test", "take">>,
                                <<"asleep", "relock">>, <<"unlock", "free">>}
  BY DEF PopCall, Wait, Proceed, WakeUnasked, Unlock, GoTo
<1>2. /\ UNCHANGED <<list, locals>> /\ UNCHANGED <<head, size, node, line, item, fd, todo, done>>
      /\ pc \in [Threads -> {"idle", "lock", "append", "count", "signal", "unlock", "test",
                         "asleep", "relock", "take", "delete", "free"}]
      /\ spurious' \in 0 .. MaxSpurious
      /\ owner' = IF <<here, there>> \in {<<"test", "asleep">>, <<"unlock", "free">>}
                  THEN NoThread ELSE owner
      /\ there = "take" => size # 0
  BY <1>1 DEF PopCall, Wait, Proceed, WakeUnasked, Unlock, GoTo, IndInv, TypeOK, list, locals
<1>3. TypeOK'
  BY <1>1, <1>2 DEF IndInv, TypeOK
<1>4. RolesOK'
  BY <1>1, <1>2 DEF IndInv, RolesOK, AcceptorLabels, WorkerLabels
<1>5. MutexOK'
  BY <1>1, <1>2 DEF IndInv, MutexOK, Locked
<1>6. there = "take" => line # <<>>
  BY <1>2 DEF IndInv, TypeOK, CountOK, Behind
<1>7. WorkerOK'
  BY <1>1, <1>2, <1>6 DEF IndInv, WorkerOK
<1>8. InHand' = InHand /\ Behind' = Behind
  BY <1>1, <1>2 DEF InHand, Behind
<1> QED
  BY <1>2, <1>3, <1>4, <1>5, <1>7, <1>8, MoveKeeps

------------------------------------------------------------------------------
(* Steps of wq_push that change the heap, the list or the count.            *)

LEMMA PushCallKeeps ==
  ASSUME IndInv, NEW t \in Acceptors, NEW s \in Sockets, PushCall(t, s)
  PROVE  IndInv'
<1> USE WorkQueueAssumption DEF Threads
<1>0. TypeOK /\ RolesOK /\ MutexOK /\ PointersOK /\ CountOK /\ ItemsOK /\ WorkerOK
  BY DEF IndInv
<1>1. PICK a \in Addrs \ DOMAIN node :
        /\ node' = [b \in DOMAIN node \cup {a} |->
                      IF b = a THEN [client_socket_fd |-> s, next |-> NULL, prev |-> NULL]
                               ELSE node[b]]
        /\ item' = [item EXCEPT ![t] = a]
  BY DEF PushCall, Calloc
<1>2. /\ pc[t] = "idle" /\ pc' = [pc EXCEPT ![t] = "lock"]
      /\ UNCHANGED <<owner, head, size, line, fd, done, spurious>> /\ todo' = todo \ {s}
  BY DEF PushCall, GoTo
<1>3. TypeOK'
  BY <1>0, <1>1, <1>2 DEF TypeOK, Item
<1>4. RolesOK' /\ MutexOK'
  BY <1>0, <1>2 DEF TypeOK, RolesOK, AcceptorLabels, WorkerLabels, MutexOK, Locked
<1>5. DOMAIN node' = DOMAIN node \cup {a} /\ \A b \in DOMAIN node : node'[b] = node[b]
  BY <1>1
<1>6. PointersOK' /\ CountOK'
  BY <1>0, <1>2, <1>5 DEF TypeOK, PointersOK, CountOK, Behind
<1>7. ItemsOK'
  <2>1. InHand' = InHand \cup {t} /\ t \notin InHand
    BY <1>0, <1>2 DEF TypeOK, InHand
  <2>2. /\ item'[t] = a /\ \A u \in InHand : item'[u] = item[u] /\ item[u] \in DOMAIN node
        /\ \A i \in DOMAIN line : line[i] \in DOMAIN node
    BY <1>0, <1>1, <2>1 DEF TypeOK, ItemsOK, PointersOK, InHand
  <2> QED
    BY <1>0, <1>1, <1>2, <1>5, <2>1, <2>2 DEF ItemsOK
<1>8. WorkerOK'
  <2>1. line # <<>> => head \in DOMAIN node
    BY <1>0 DEF PointersOK, TypeOK
  <2>2. \A w \in Workers : pc'[w] = pc[w] /\ item'[w] = item[w]
    BY <1>0, <1>1, <1>2 DEF TypeOK
  <2> QED
    BY <1>0, <1>2, <1>5, <2>1, <2>2 DEF WorkerOK
<1> QED
  BY <1>3, <1>4, <1>6, <1>7, <1>8 DEF IndInv

\* The items keep their sockets.
SameSockets ==
  \A b \in DOMAIN node : node'[b].client_socket_fd = node[b].client_socket_fd

\* No one else is past its lock.
LEMMA Alone ==
  ASSUME IndInv, NEW t \in Threads, pc[t] \in Locked
  PROVE  \A u \in Threads \ {t} : pc[u] \notin Locked
BY WorkQueueAssumption DEF IndInv, MutexOK, Threads

LEMMA AppendKeeps ==
  ASSUME IndInv, NEW t \in Acceptors, AppendItem(t)
  PROVE  IndInv' /\ SameSockets
<1> USE WorkQueueAssumption DEF Threads
<1> DEFINE a == item[t]
           n == Len(line)
<1>0. TypeOK /\ RolesOK /\ MutexOK /\ PointersOK /\ CountOK /\ ItemsOK /\ WorkerOK
  BY DEF IndInv
<1>1. /\ pc[t] = "append" /\ pc' = [pc EXCEPT ![t] = "count"] /\ line' = Append(line, a)
      /\ UNCHANGED <<owner, size, item, fd, todo, done, spurious>>
  BY DEF AppendItem, GoTo, locals
<1>2. \A u \in Threads \ {t} : pc[u] \notin Locked
  BY <1>1, Alone DEF Locked
<1>3. /\ t \in InHand /\ a \in DOMAIN node /\ a \in Addrs /\ a # NULL
      /\ \A i \in DOMAIN line : line[i] # a
  BY <1>0, <1>1 DEF InHand, ItemsOK, TypeOK
<1>4. /\ line \in Seq(Addrs) /\ n \in Nat /\ DOMAIN line = 1 .. n
      /\ Len(line') = n + 1 /\ DOMAIN line' = 1 .. n + 1 /\ line' \in Seq(Addrs)
      /\ \A i \in 1 .. n : line'[i] = line[i] /\ line[i] \in DOMAIN node
      /\ line'[n + 1] = a
  BY <1>0, <1>1, <1>3 DEF TypeOK, PointersOK
<1> HIDE DEF a, n
<1>5. /\ \A i, j \in 1 .. n : line[i] = line[j] => i = j
      /\ \A i \in 1 .. n : line[i] \in Addrs
  BY <1>0, <1>4, SMTT(60) DEF ItemsOK
<1>6. \A i \in 1 .. n :
        /\ node[line[i]].next = IF i = n THEN NULL ELSE line[i + 1]
        /\ node[line[i]].prev = IF i = 1 THEN line[n] ELSE line[i - 1]
  BY <1>0, <1>4 DEF PointersOK, n
<1>7. /\ head' = line'[1] /\ node' \in [DOMAIN node -> Item]
      /\ \A b \in DOMAIN node : node'[b].client_socket_fd = node[b].client_socket_fd
      /\ \A i \in 1 .. n + 1 :
           /\ node'[line'[i]].next = IF i = n + 1 THEN NULL ELSE line'[i + 1]
           /\ node'[line'[i]].prev = IF i = 1 THEN line'[n + 1] ELSE line'[i - 1]
  <2> DEFINE D == DOMAIN node
  <2>0. node \in [D -> Item] /\ a \in D
    BY <1>0, <1>3 DEF TypeOK
  <2> HIDE DEF D
  <2>1. CASE n = 0
    <3> DEFINE m == [node EXCEPT ![a].prev = a]
    <3>1. head' = a /\ node' = [m EXCEPT ![a].next = NULL]
      BY <1>0, <1>4, <2>1 DEF AppendItem, Link, PointersOK, a, n
    <3>2. /\ m \in [D -> Item]
          /\ \A b \in D : /\ m[b].client_socket_fd = node[b].client_socket_fd
                          /\ m[b].prev = IF b = a THEN a ELSE node[b].prev
      BY <1>3, <2>0 DEF Item
    <3> HIDE DEF m
    <3>3. /\ node' \in [D -> Item]
          /\ \A b \in D : /\ node'[b].client_socket_fd = m[b].client_socket_fd
                          /\ node'[b].prev = m[b].prev
                          /\ node'[b].next = IF b = a THEN NULL ELSE m[b].next
      BY <1>3, <2>0, <3>1, <3>2 DEF Item
    <3> QED
      BY <1>3, <1>4, <2>1, <3>1, <3>2, <3>3 DEF D
  <2>2. CASE n # 0
    <3>1. /\ head = line[1] /\ node[head].prev = line[n] /\ head # NULL
          /\ 1 \in 1 .. n /\ n \in 1 .. n
      BY <1>0, <1>4, <1>6, <2>2 DEF PointersOK, TypeOK
    <3> DEFINE m1 == [node EXCEPT ![line[n]].next = a]
               m2 == [m1 EXCEPT ![a].prev = line[n]]
               m3 == [m2 EXCEPT ![a].next = NULL]
    <3>2. head' = head /\ node' = [m3 EXCEPT ![line[1]].prev = a]
      BY <3>1 DEF AppendItem, Link, a
    <3>3. /\ line[n] \in D /\ line[1] \in D /\ line[n] \in Addrs /\ line[1] # a /\ line[n] # a
      BY <1>3, <1>4, <1>5, <3>1 DEF D
    <3>4. /\ m1 \in [D -> Item]
          /\ \A b \in D : /\ m1[b].client_socket_fd = node[b].client_socket_fd
                          /\ m1[b].prev = node[b].prev
                          /\ m1[b].next = IF b = line[n] THEN a ELSE node[b].next
      BY <1>3, <2>0, <3>3 DEF Item
    <3> HIDE DEF m1
    <3>5. /\ m2 \in [D -> Item]
          /\ \A b \in D : /\ m2[b].client_socket_fd = m1[b].client_socket_fd
                          /\ m2[b].next = m1[b].next
                          /\ m2[b].prev = IF b = a THEN line[n] ELSE m1[b].prev
      BY <1>3, <2>0, <3>3, <3>4 DEF Item
    <3> HIDE DEF m2
    <3>6. /\ m3 \in [D -> Item]
          /\ \A b \in D : /\ m3[b].client_socket_fd = m2[b].client_socket_fd
                          /\ m3[b].prev = m2[b].prev
                          /\ m3[b].next = IF b = a THEN NULL ELSE m2[b].next
      BY <1>3, <2>0, <3>5 DEF Item
    <3> HIDE DEF m3
    <3>7. /\ node' \in [D -> Item]
          /\ \A b \in D : /\ node'[b].client_socket_fd = m3[b].client_socket_fd
                          /\ node'[b].next = m3[b].next
                          /\ node'[b].prev = IF b = line[1] THEN a ELSE m3[b].prev
      BY <1>3, <2>0, <3>2, <3>3, <3>6 DEF Item
    <3>8. \A b \in D :
            /\ node'[b].client_socket_fd = node[b].client_socket_fd
            /\ node'[b].next = IF b = a THEN NULL ELSE IF b = line[n] THEN a ELSE node[b].next
            /\ node'[b].prev = IF b = line[1] THEN a ELSE IF b = a THEN line[n] ELSE node[b].prev
      BY <3>4, <3>5, <3>6, <3>7
    <3>9. \A i \in 1 .. n :
           /\ node'[line[i]].next = IF i = n THEN a ELSE line[i + 1]
           /\ node'[line[i]].prev = IF i = 1 THEN a ELSE line[i - 1]
      BY <1>3, <1>4, <1>5, <1>6, <3>1, <3>8, ZenonT(60) DEF D
    <3>10. node'[a].next = NULL /\ node'[a].prev = line[n]
      BY <1>3, <3>3, <3>8 DEF D
    <3>11. ASSUME NEW i \in 1 .. n + 1
           PROVE  /\ node'[line'[i]].next = IF i = n + 1 THEN NULL ELSE line'[i + 1]
                  /\ node'[line'[i]].prev = IF i = 1 THEN line'[n + 1] ELSE line'[i - 1]
      BY <1>4, <2>2, <3>9, <3>10
    <3> QED
      BY <1>4, <3>1, <3>2, <3>7, <3>8, <3>11 DEF D
  <2> QED
    BY <2>1, <2>2
<1>8. TypeOK'
  BY <1>0, <1>1, <1>3, <1>4, <1>7 DEF TypeOK
<1>9. RolesOK' /\ MutexOK'
  BY <1>0, <1>1 DEF TypeOK, RolesOK, AcceptorLabels, WorkerLabels, MutexOK, Locked
<1>10. DOMAIN node' = DOMAIN node
  BY <1>7
<1>11. PointersOK'
  <2>1. line' # <<>>
    BY <1>4
  <2>2. \A i \in 1 .. n + 1 : line'[i] \in DOMAIN node'
    BY <1>3, <1>4, <1>10
  <2> QED
    BY <1>4, <1>7, <2>1, <2>2 DEF PointersOK
<1>12. CountOK'
  <2>1. Behind = 0 /\ Behind' = 1
    BY <1>0, <1>1, <1>2 DEF Behind, Locked, TypeOK
  <2> QED
    BY <1>0, <1>1, <1>4, <2>1 DEF CountOK, n, TypeOK
<1>13. ItemsOK'
  <2>1. InHand' = InHand \ {t} /\ item' = item
    BY <1>0, <1>1 DEF TypeOK, InHand
  <2>2. \A i, j \in 1 .. n + 1 : line'[i] = line'[j] => i = j
    BY <1>3, <1>4, <1>5
  <2>3. \A u \in InHand' : item[u] # a /\ \A i \in 1 .. n : item[u] # line[i]
    BY <1>0, <1>3, <1>4, <2>1 DEF ItemsOK, a
  <2>4. {line'[i] : i \in 1 .. n + 1} = {line[i] : i \in 1 .. n} \cup {a}
    BY <1>4
  <2>5. {item[u] : u \in InHand} = {item[u] : u \in InHand'} \cup {a}
    BY <1>3, <2>1 DEF a
  <2>6. DOMAIN node = {line[i] : i \in 1 .. n} \cup {item[u] : u \in InHand}
    BY <1>0, <1>4 DEF ItemsOK
  <2>7. DOMAIN node' = {line'[i] : i \in 1 .. n + 1} \cup {item[u] : u \in InHand'}
    BY <1>10, <2>4, <2>5, <2>6
  <2>8. \A u, v \in InHand' : item[u] = item[v] => u = v
    BY <1>0, <2>1 DEF ItemsOK
  <2>9. \A u \in InHand', i \in 1 .. n + 1 : item[u] # line'[i]
    BY <1>4, <2>3
  <2> QED
    BY <1>4, <2>1, <2>2, <2>7, <2>8, <2>9 DEF ItemsOK
<1>14. WorkerOK'
  <2>1. \A w \in Workers : pc'[w] = pc[w] /\ pc[w] \notin {"take", "delete"}
    BY <1>0, <1>1, <1>2 DEF TypeOK, Locked
  <2> QED
    BY <1>0, <1>1, <2>1 DEF WorkerOK
<1> QED
  BY <1>7, <1>8, <1>9, <1>11, <1>12, <1>13, <1>14 DEF IndInv, SameSockets

LEMMA CountKeeps ==
  ASSUME IndInv, NEW t \in Acceptors, Count(t) \/ PushReturn(t)
  PROVE  IndInv'
<1> USE WorkQueueAssumption DEF Threads
<1>0. TypeOK /\ RolesOK /\ MutexOK /\ PointersOK /\ CountOK /\ ItemsOK /\ WorkerOK
  BY DEF IndInv
<1>1. CASE Count(t)
  <2>1. /\ pc[t] = "count" /\ pc' = [pc EXCEPT ![t] = "signal"] /\ size' = size + 1
        /\ UNCHANGED <<owner, head, node, line, item, fd, todo, done, spurious>>
    BY <1>1 DEF Count, GoTo, locals
  <2>2. \A u \in Threads \ {t} : pc[u] \notin Locked
    BY <2>1, Alone DEF Locked
  <2>3. TypeOK' /\ RolesOK' /\ MutexOK'
    BY <1>0, <2>1 DEF TypeOK, RolesOK, AcceptorLabels, WorkerLabels, MutexOK, Locked
  <2>4. CountOK'
    <3>1. Behind = 1 /\ Behind' = 0
      BY <1>0, <2>1, <2>2 DEF Behind, Locked, TypeOK
    <3> QED
      BY <1>0, <2>1, <3>1 DEF CountOK, TypeOK
  <2>5. PointersOK' /\ ItemsOK'
    <3>1. InHand' = InHand
      BY <1>0, <2>1 DEF TypeOK, InHand
    <3> QED
      BY <1>0, <2>1, <3>1 DEF PointersOK, ItemsOK
  <2>6. WorkerOK'
    BY <1>0, <2>1 DEF TypeOK, WorkerOK
  <2> QED
    BY <2>3, <2>4, <2>5, <2>6 DEF IndInv
<1>2. CASE PushReturn(t)
  <2>1. /\ pc[t] = "unlock" /\ pc' = [pc EXCEPT ![t] = "idle"] /\ owner' = NoThread
        /\ item' = [item EXCEPT ![t] = NULL]
        /\ UNCHANGED <<head, size, node, line, fd, todo, done, spurious>>
    BY <1>2 DEF PushReturn, GoTo, list
  <2>2. TypeOK' /\ RolesOK' /\ MutexOK'
    BY <1>0, <2>1 DEF TypeOK, RolesOK, AcceptorLabels, WorkerLabels, MutexOK, Locked
  <2>3. CountOK' /\ PointersOK'
    BY <1>0, <2>1 DEF CountOK, PointersOK, Behind, TypeOK
  <2>4. ItemsOK'
    <3>1. InHand' = InHand /\ t \notin InHand /\ \A u \in InHand : item'[u] = item[u]
      BY <1>0, <2>1 DEF TypeOK, InHand
    <3> QED
      BY <1>0, <2>1, <3>1 DEF ItemsOK
  <2>5. WorkerOK'
    BY <1>0, <2>1 DEF TypeOK, WorkerOK
  <2> QED
    BY <2>2, <2>3, <2>4, <2>5 DEF IndInv
<1> QED
  BY <1>1, <1>2

------------------------------------------------------------------------------
(* Steps of wq_pop that change the heap, the list or the count.             *)

LEMMA TakeKeeps ==
  ASSUME IndInv, NEW t \in Workers, Take(t)
  PROVE  IndInv'
<1> USE WorkQueueAssumption DEF Threads
<1>0. TypeOK /\ RolesOK /\ MutexOK /\ PointersOK /\ CountOK /\ ItemsOK /\ WorkerOK
  BY DEF IndInv
<1>1. /\ pc[t] = "take" /\ pc' = [pc EXCEPT ![t] = "delete"] /\ size' = size - 1
      /\ item' = [item EXCEPT ![t] = head] /\ head \in DOMAIN node
      /\ fd' = [fd EXCEPT ![t] = node[head].client_socket_fd]
      /\ UNCHANGED <<owner, head, node, line, todo, done, spurious>>
  BY DEF Take, GoTo
<1>2. \A u \in Threads \ {t} : pc[u] \notin Locked
  BY <1>1, Alone DEF Locked
<1>3. Behind = 0 /\ Behind' = 1
  BY <1>0, <1>1, <1>2 DEF Behind, Locked, TypeOK
<1>4. line # <<>>
  BY <1>0, <1>1 DEF WorkerOK
<1>5. size - 1 \in Nat
  BY <1>0, <1>3, <1>4 DEF CountOK, TypeOK
<1>6. node[head].client_socket_fd \in Sockets
  BY <1>0, <1>1 DEF TypeOK, Item
<1>7. TypeOK'
  BY <1>0, <1>1, <1>5, <1>6 DEF TypeOK
<1>8. RolesOK' /\ MutexOK'
  BY <1>0, <1>1 DEF TypeOK, RolesOK, AcceptorLabels, WorkerLabels, MutexOK, Locked
<1>9. CountOK' /\ PointersOK'
  BY <1>0, <1>1, <1>3 DEF CountOK, PointersOK, TypeOK
<1>10. ItemsOK'
  <2>1. InHand' = InHand /\ t \notin InHand /\ \A u \in InHand : item'[u] = item[u]
    BY <1>0, <1>1 DEF TypeOK, InHand
  <2> QED
    BY <1>0, <1>1, <2>1 DEF ItemsOK
<1>11. WorkerOK'
  BY <1>0, <1>1, <1>4 DEF TypeOK, WorkerOK
<1> QED
  BY <1>7, <1>8, <1>9, <1>10, <1>11 DEF IndInv

LEMMA DeleteKeeps ==
  ASSUME IndInv, NEW t \in Workers, DeleteItem(t)
  PROVE  IndInv' /\ SameSockets
<1> USE WorkQueueAssumption DEF Threads
<1> DEFINE n == Len(line)
           D == DOMAIN node
<1>0. TypeOK /\ RolesOK /\ MutexOK /\ PointersOK /\ CountOK /\ ItemsOK /\ WorkerOK
  BY DEF IndInv
<1>1. /\ pc[t] = "delete" /\ pc' = [pc EXCEPT ![t] = "unlock"] /\ line' = Tail(line)
      /\ UNCHANGED <<owner, size, item, fd, todo, done, spurious>>
  BY DEF DeleteItem, GoTo, locals
<1>2. \A u \in Threads \ {t} : pc[u] \notin Locked
  BY <1>1, Alone DEF Locked
<1>3. /\ line # <<>> /\ item[t] = head /\ fd[t] = node[head].client_socket_fd
  BY <1>0, <1>1 DEF WorkerOK
<1>4. /\ line \in Seq(Addrs) /\ n \in Nat \ {0} /\ DOMAIN line = 1 .. n
      /\ Len(line') = n - 1 /\ DOMAIN line' = 1 .. n - 1 /\ line' \in Seq(Addrs)
      /\ \A i \in 1 .. n : line[i] \in D /\ line[i] \in Addrs
      /\ \A i \in 1 .. n - 1 : line'[i] = line[i + 1]
  BY <1>0, <1>1, <1>3 DEF TypeOK, PointersOK
<1>5. \A i, j \in 1 .. n : line[i] = line[j] => i = j
  BY <1>0, <1>4, SMTT(60) DEF ItemsOK
<1>6. /\ head = line[1]
      /\ \A i \in 1 .. n :
           /\ node[line[i]].next = IF i = n THEN NULL ELSE line[i + 1]
           /\ node[line[i]].prev = IF i = 1 THEN line[n] ELSE line[i - 1]
  BY <1>0, <1>3, <1>4 DEF PointersOK, n
<1>7. node \in [D -> Item]
  BY <1>0 DEF TypeOK
<1> HIDE DEF n, D
<1>8. /\ head' = (IF n = 1 THEN NULL ELSE line[2]) /\ node' \in [D -> Item]
      /\ \A b \in D :
           /\ node'[b].client_socket_fd = node[b].client_socket_fd
           /\ node'[b].next = node[b].next
           /\ node'[b].prev = IF n > 1 /\ b = line[2] THEN line[n] ELSE node[b].prev
  <2>1. node[head].prev = line[n] /\ (line[n] = head <=> n = 1)
    BY <1>4, <1>5, <1>6
  <2>2. CASE n = 1
    BY <1>7, <2>1, <2>2 DEF DeleteItem, UnlinkHead
  <2>3. CASE n # 1
    <3>1. 2 \in 1 .. n /\ 1 \in 1 .. n /\ n \in 1 .. n /\ n > 1
      BY <1>4, <2>3
    <3>2. node[head].next = line[2] /\ node[head].prev = line[n]
      BY <1>6, <2>3, <3>1
    <3>3. head' = line[2] /\ node' = [node EXCEPT ![line[2]].prev = line[n]]
      BY <2>1, <2>3, <3>2 DEF DeleteItem, UnlinkHead
    <3> QED
      BY <1>4, <1>7, <2>3, <3>1, <3>3 DEF Item
  <2> QED
    BY <2>2, <2>3
<1>9. TypeOK'
  <2>1. head' \in Addrs \cup {NULL}
    BY <1>4, <1>8
  <2> QED
    BY <1>0, <1>1, <1>4, <1>8, <2>1 DEF TypeOK, D
<1>10. RolesOK' /\ MutexOK'
  BY <1>0, <1>1 DEF TypeOK, RolesOK, AcceptorLabels, WorkerLabels, MutexOK, Locked
<1>11. PointersOK'
  <2>1. line' = <<>> <=> n = 1
    BY <1>4
  <2>2. head' = IF line' = <<>> THEN NULL ELSE line'[1]
    BY <1>4, <1>8, <2>1
  <2>3. ASSUME NEW i \in 1 .. n - 1
        PROVE  /\ line'[i] \in D
               /\ node'[line'[i]].next = IF i = n - 1 THEN NULL ELSE line'[i + 1]
               /\ node'[line'[i]].prev = IF i = 1 THEN line'[n - 1] ELSE line'[i - 1]
    <3>1. /\ i + 1 \in 1 .. n /\ line'[i] = line[i + 1] /\ line[i + 1] \in D /\ n > 1 /\ 2 \in 1 .. n
          /\ line'[n - 1] = line[n] /\ (i # n - 1 => line'[i + 1] = line[i + 2])
          /\ (i # 1 => line'[i - 1] = line[i])
      BY <1>4
    <3>2. line[i + 1] = line[2] <=> i = 1
      BY <1>4, <1>5, <3>1
    <3> QED
      BY <1>4, <1>6, <1>8, <3>1, <3>2, SMTT(60)
  <2> QED
    BY <1>4, <1>8, <2>2, <2>3 DEF PointersOK
<1>12. CountOK'
  <2>1. Behind = 1 /\ Behind' = 0
    BY <1>0, <1>1, <1>2 DEF Behind, Locked, TypeOK
  <2> QED
    BY <1>0, <1>1, <1>4, <2>1 DEF CountOK, n, TypeOK
<1>13. ItemsOK'
  <2>1. InHand' = InHand \cup {t} /\ t \notin InHand /\ item' = item
    BY <1>0, <1>1 DEF TypeOK, InHand
  <2>2. item[t] = line[1]
    BY <1>3, <1>6
  <2>3. \A i, j \in 1 .. n - 1 : line'[i] = line'[j] => i = j
    BY <1>4, <1>5
  <2>4. \A i \in 1 .. n - 1 : line'[i] # line[1]
    BY <1>4, <1>5
  <2>5. \A u \in InHand : \A i \in 1 .. n : item[u] # line[i]
    BY <1>0, <1>4 DEF ItemsOK
  <2>6. \A u, v \in InHand' : item[u] = item[v] => u = v
    BY <1>0, <1>4, <2>1, <2>2, <2>5 DEF ItemsOK
  <2>7. \A u \in InHand', i \in 1 .. n - 1 : item[u] # line'[i]
    BY <1>4, <2>1, <2>2, <2>4, <2>5
  <2>8. {line[i] : i \in 1 .. n} = {line'[i] : i \in 1 .. n - 1} \cup {line[1]}
    <3>1. ASSUME NEW i \in 1 .. n PROVE line[i] \in {line'[j] : j \in 1 .. n - 1} \cup {line[1]}
      <4>1. CASE i = 1
        BY <4>1
      <4>2. CASE i # 1
        <5>1. i - 1 \in 1 .. n - 1 /\ line'[i - 1] = line[i]
          BY <1>4, <4>2
        <5> QED
          BY <5>1
      <4> QED
        BY <4>1, <4>2
    <3>2. \A i \in 1 .. n - 1 : i + 1 \in 1 .. n /\ line'[i] = line[i + 1]
      BY <1>4
    <3>3. 1 \in 1 .. n
      BY <1>4
    <3> QED
      BY <3>1, <3>2, <3>3
  <2>9. D = {line[i] : i \in 1 .. n} \cup {item[u] : u \in InHand}
    BY <1>0, <1>4 DEF ItemsOK, D
  <2>10. {item[u] : u \in InHand'} = {item[u] : u \in InHand} \cup {line[1]}
    BY <2>1, <2>2
  <2>11. DOMAIN node' = {line'[i] : i \in 1 .. n - 1} \cup {item[u] : u \in InHand'}
    BY <1>8, <2>8, <2>9, <2>10
  <2> QED
    BY <1>4, <2>1, <2>3, <2>6, <2>7, <2>11 DEF ItemsOK
<1>14. WorkerOK'
  <2>1. \A w \in Workers \ {t} : pc'[w] = pc[w] /\ pc[w] \notin {"take", "delete"}
    BY <1>0, <1>1, <1>2 DEF TypeOK, Locked
  <2>2. fd[t] \in Sockets /\ pc'[t] = "unlock"
    BY <1>0, <1>1, <1>3, <1>4, <1>6, <1>7 DEF Item, TypeOK
  <2> QED
    BY <1>0, <1>1, <2>1, <2>2 DEF WorkerOK
<1> QED
  BY <1>8, <1>9, <1>10, <1>11, <1>12, <1>13, <1>14 DEF IndInv, SameSockets, D

LEMMA PopReturnKeeps ==
  ASSUME IndInv, NEW t \in Workers, PopReturn(t)
  PROVE  IndInv'
<1> USE WorkQueueAssumption DEF Threads
<1>0. TypeOK /\ RolesOK /\ MutexOK /\ PointersOK /\ CountOK /\ ItemsOK /\ WorkerOK
  BY DEF IndInv
<1>1. /\ pc[t] = "free" /\ pc' = [pc EXCEPT ![t] = "idle"]
      /\ node' = [b \in DOMAIN node \ {item[t]} |-> node[b]]
      /\ item' = [item EXCEPT ![t] = NULL] /\ fd' = [fd EXCEPT ![t] = NoSocket]
      /\ done' = done \cup {fd[t]}
      /\ UNCHANGED <<owner, head, size, line, todo, spurious>>
  BY DEF PopReturn, GoTo
<1>2. fd[t] \in Sockets
  BY <1>0, <1>1 DEF WorkerOK
<1>3. /\ t \in InHand /\ \A i \in DOMAIN line : line[i] \in DOMAIN node \ {item[t]}
      /\ \A u \in InHand \ {t} : item[u] # item[t]
  BY <1>0, <1>1 DEF InHand, ItemsOK, PointersOK
<1>4. DOMAIN node' = DOMAIN node \ {item[t]} /\ \A b \in DOMAIN node' : node'[b] = node[b]
  BY <1>1
<1>5. TypeOK'
  BY <1>0, <1>1, <1>2, <1>4 DEF TypeOK
<1>6. RolesOK' /\ MutexOK'
  BY <1>0, <1>1 DEF TypeOK, RolesOK, AcceptorLabels, WorkerLabels, MutexOK, Locked
<1>7. PointersOK'
  BY <1>0, <1>1, <1>3, <1>4 DEF PointersOK
<1>8. CountOK'
  BY <1>0, <1>1 DEF CountOK, Behind, TypeOK
<1>9. ItemsOK'
  <2>1. InHand' = InHand \ {t} /\ \A u \in InHand' : item'[u] = item[u]
    BY <1>0, <1>1 DEF TypeOK, InHand
  <2> QED
    BY <1>0, <1>1, <1>3, <1>4, <2>1 DEF ItemsOK
<1>10. WorkerOK'
  <2>1. \A w \in Workers \ {t} : pc'[w] = pc[w] /\ item'[w] = item[w] /\ fd'[w] = fd[w]
    BY <1>0, <1>1 DEF TypeOK
  <2>2. pc'[t] = "idle"
    BY <1>0, <1>1 DEF TypeOK
  <2>3. line # <<>> => head \in DOMAIN node'
    BY <1>0, <1>3, <1>4 DEF PointersOK, TypeOK
  <2> QED
    BY <1>0, <1>1, <1>4, <2>1, <2>2, <2>3 DEF WorkerOK
<1> QED
  BY <1>5, <1>6, <1>7, <1>8, <1>9, <1>10 DEF IndInv

------------------------------------------------------------------------------
LEMMA StepIndInv == IndInv /\ [Next]_vars => IndInv'
<1> SUFFICES ASSUME IndInv, [Next]_vars PROVE IndInv'
  OBVIOUS
<1>1. ASSUME NEW t \in Acceptors, Push(t) PROVE IndInv'
  BY <1>1, PushCallKeeps, LockKeeps, AppendKeeps, CountKeeps, SignalKeeps DEF Push, Threads
<1>2. ASSUME NEW t \in Workers, Pop(t) \/ WakeUnasked(t) PROVE IndInv'
  BY <1>2, LockKeeps, WorkerMoveKeeps, TakeKeeps, DeleteKeeps, PopReturnKeeps
     DEF Pop, Threads, AfterWait
<1>3. CASE UNCHANGED vars
  BY <1>3 DEF vars, list, locals, IndInv, TypeOK, RolesOK, MutexOK, PointersOK, CountOK,
     Behind, ItemsOK, InHand, WorkerOK
<1> QED
  BY <1>1, <1>2, <1>3 DEF Next

LEMMA IndInvHolds == Spec => []IndInv
BY InitIndInv, StepIndInv, PTL DEF Spec

\* Counts, sockets and items keep their types; size is never negative.
THEOREM QueueTypes == Spec => []TypeOK
<1>1. IndInv => TypeOK
  BY DEF IndInv
<1> QED
  BY <1>1, IndInvHolds, PTL

\* List, count and heap agree in every interleaving: no item leaks, none is
\* freed twice or while another thread can reach it.
THEOREM ListCorrect == Spec => []ListOK
<1>1. IndInv => ListOK
  <2> SUFFICES ASSUME IndInv PROVE ListOK
    OBVIOUS
  <2>1. SizeOK
    <3>1. CASE Uncounted = {}
      <4>1. Behind = 0
        BY <3>1 DEF Uncounted, Behind
      <4> QED
        BY <3>1, <4>1, FS_EmptySet DEF SizeOK, IndInv, CountOK
    <3>2. CASE Uncounted # {}
      <4>1. PICK t \in Threads : pc[t] \in {"count", "delete"}
        BY <3>2 DEF Uncounted
      <4>2. Uncounted = {t}
        BY <4>1, Alone DEF Uncounted, Locked
      <4>3. Behind = 1
        BY <4>1 DEF Behind
      <4> QED
        BY <4>2, <4>3, FS_Singleton DEF SizeOK, IndInv, CountOK
    <3> QED
      BY <3>1, <3>2
  <2> QED
    BY <2>1 DEF ListOK, IndInv
<1> QED
  BY <1>1, IndInvHolds, PTL

\* wq_pop never looks into an empty queue.
THEOREM HeadCorrect == Spec => []HeadThere
<1>1. IndInv => HeadThere
  BY WorkQueueAssumption
     DEF IndInv, HeadThere, WorkerOK, PointersOK, TypeOK
<1> QED
  BY <1>1, IndInvHolds, PTL

------------------------------------------------------------------------------
(* No wake-up is lost.                                                      *)

LEMMA WayFinite ==
  /\ IsFiniteSet(OnTheirWay) /\ Cardinality(OnTheirWay) \in Nat
  /\ IsFiniteSet(OnTheirWay') /\ Cardinality(OnTheirWay') \in Nat
<1>1. OnTheirWay \subseteq Threads /\ OnTheirWay' \subseteq Threads
  BY DEF OnTheirWay, Threads
<1> QED
  BY <1>1, WorkQueueAssumption, FS_Subset, FS_CardinalityType DEF Threads

LEMMA StepWay == IndInv /\ NoLostWakeup /\ [Next]_vars => NoLostWakeup'
<1> SUFFICES ASSUME IndInv, NoLostWakeup, [Next]_vars PROVE NoLostWakeup'
  OBVIOUS
<1> USE WorkQueueAssumption, WayFinite
<1> DEFINE c == Cardinality(OnTheirWay)
           d == Cardinality(OnTheirWay')
<1>0. /\ size \in Nat /\ c \in Nat /\ d \in Nat
      /\ pc \in [Threads -> {"idle", "lock", "append", "count", "signal", "unlock", "test",
                             "asleep", "relock", "take", "delete", "free"}]
  BY DEF IndInv, TypeOK
\* It is enough that no one falls asleep and size - d does not grow.
<1>1. ASSUME size' <= size, OnTheirWay \subseteq OnTheirWay', Asleep' \subseteq Asleep, size' \in Nat
      PROVE  NoLostWakeup'
  <2>1. c <= d
    BY <1>1, FS_Subset
  <2> QED
    BY <1>0, <1>1, <2>1 DEF NoLostWakeup
<1>2. ASSUME NEW t \in Acceptors, Push(t) PROVE NoLostWakeup'
  <2>1. CASE Count(t)
    <3>1. /\ pc[t] = "count" /\ pc' = [pc EXCEPT ![t] = "signal"] /\ size' = size + 1
      BY <2>1 DEF Count, GoTo
    <3>2. OnTheirWay' = OnTheirWay \cup {t} /\ t \notin OnTheirWay /\ Asleep' = Asleep
      BY <1>0, <3>1 DEF OnTheirWay, Asleep, Threads
    <3>3. d = c + 1
      BY <3>2, FS_AddElement
    <3> QED
      BY <1>0, <3>1, <3>2, <3>3 DEF NoLostWakeup
  <2>2. CASE Signal(t)
    <3>1. PICK woken \in WakeOne :
            pc' = [u \in Threads |-> IF u = t THEN "unlock" ELSE
                                     IF u \in woken THEN "relock" ELSE pc[u]]
      BY <2>2 DEF Signal
    <3>2. pc[t] = "signal" /\ size' = size
      BY <2>2 DEF Signal, At, list
    <3>3. CASE Asleep = {}
      BY <1>0, <3>1, <3>2, <3>3 DEF WakeOne, Asleep, NoLostWakeup, Threads
    <3>4. CASE Asleep # {}
      <4>1. PICK w \in Asleep : woken = {w}
        BY <3>1, <3>4 DEF WakeOne
      <4>2. w \in Workers /\ pc[w] = "asleep"
        BY DEF Asleep
      <4>3. /\ t \in OnTheirWay /\ w \notin OnTheirWay
            /\ OnTheirWay' = (OnTheirWay \ {t}) \cup {w}
        BY <1>0, <3>1, <3>2, <4>1, <4>2 DEF OnTheirWay, Threads
      <4>4. /\ IsFiniteSet(OnTheirWay \ {t}) /\ Cardinality(OnTheirWay \ {t}) = c - 1
        BY <4>3, FS_RemoveElement
      <4> DEFINE rest == OnTheirWay \ {t}
      <4>5. w \notin rest /\ OnTheirWay' = rest \cup {w}
        BY <4>3
      <4>6. IsFiniteSet(rest) /\ Cardinality(rest) = c - 1
        BY <4>4
      <4> HIDE DEF rest
      <4>7. d = Cardinality(rest) + 1
        BY <4>5, <4>6, FS_AddElement
      <4>8. d = c
        BY <1>0, <4>6, <4>7
      <4> QED
        BY <3>2, <3>4, <4>8 DEF NoLostWakeup
    <3> QED
      BY <3>3, <3>4
  <2>3. CASE \/ \E s \in Sockets : PushCall(t, s)
             \/ Lock(t, "lock", "append") \/ AppendItem(t) \/ PushReturn(t)
    <3>1. /\ size' = size
          /\ \E h, g : /\ pc[t] = h /\ pc' = [pc EXCEPT ![t] = g]
                       /\ h # "signal" /\ g \in {"lock", "append", "count", "idle"}
      BY <2>3 DEF PushCall, Lock, AppendItem, PushReturn, GoTo, list
    <3>2. OnTheirWay' = OnTheirWay /\ Asleep' = Asleep
      BY <1>0, <3>1 DEF OnTheirWay, Asleep, Threads
    <3> QED
      BY <1>0, <1>1, <3>1, <3>2
  <2> QED
    BY <1>2, <2>1, <2>2, <2>3 DEF Push
<1>3. ASSUME NEW t \in Workers, Pop(t) \/ WakeUnasked(t) PROVE NoLostWakeup'
  <2>1. CASE Wait(t)
    <3>1. size' = 0
      BY <2>1 DEF Wait, list
    <3> QED
      BY <1>0, <3>1 DEF NoLostWakeup
  <2>2. CASE Take(t)
    <3>1. /\ pc[t] = "take" /\ pc' = [pc EXCEPT ![t] = "delete"] /\ size' = size - 1
      BY <2>2 DEF Take, GoTo
    <3>2. OnTheirWay' = OnTheirWay \ {t} /\ t \in OnTheirWay /\ Asleep' = Asleep
      BY <1>0, <3>1 DEF OnTheirWay, Asleep, Threads
    <3>3. d = c - 1
      BY <3>2, FS_RemoveElement
    <3> QED
      BY <1>0, <3>1, <3>2, <3>3 DEF NoLostWakeup
  <2>3. CASE \/ PopCall(t) \/ Lock(t, "lock", "test") \/ Lock(t, "relock", AfterWait)
             \/ Proceed(t) \/ DeleteItem(t) \/ Unlock(t, "free") \/ PopReturn(t)
             \/ WakeUnasked(t)
    <3>1. PICK h, g : /\ pc[t] = h /\ pc' = [pc EXCEPT ![t] = g]
                      /\ <<h, g>> \in {<<"idle", "lock">>, <<"lock", "test">>,
                           <<"relock", "test">>, <<"test", "take">>, <<"delete", "unlock">>,
                           <<"unlock", "free">>, <<"free", "idle">>, <<"asleep", "relock">>}
      BY <2>3 DEF PopCall, Lock, Proceed, DeleteItem, Unlock, PopReturn, WakeUnasked, GoTo,
                  AfterWait
    <3>2. size' = size
      BY <2>3 DEF PopCall, Lock, Proceed, DeleteItem, Unlock, PopReturn, WakeUnasked, list
    <3>3. OnTheirWay \subseteq OnTheirWay' /\ Asleep' \subseteq Asleep
      BY <1>0, <3>1 DEF OnTheirWay, Asleep, Threads
    <3> QED
      BY <1>0, <1>1, <3>2, <3>3
  <2> QED
    BY <1>3, <2>1, <2>2, <2>3 DEF Pop
<1>4. CASE UNCHANGED vars
  BY <1>4 DEF vars, list, NoLostWakeup, OnTheirWay, Asleep
<1> QED
  BY <1>2, <1>3, <1>4 DEF Next

\* While a worker sleeps, as many others are on their way as there are items.
THEOREM WakeupsKept == Spec => []NoLostWakeup
<1>1. Init => NoLostWakeup
  BY DEF Init, NoLostWakeup, Asleep, Threads
<1> QED
  BY <1>1, StepWay, IndInvHolds, PTL DEF Spec

------------------------------------------------------------------------------
(* wq.c implements a first-in first-out queue.                              *)

\* The refinement mapping.
Waiting == [i \in DOMAIN line |-> node[line[i]].client_socket_fd]
Hand == [w \in Workers |-> IF pc[w] \in {"unlock", "free"} THEN fd[w] ELSE NoSocket]

WaitingOK ==
  /\ Waiting \in Seq(Sockets) /\ Len(Waiting) = Len(line)
  /\ \A i \in 1 .. Len(line) : Waiting[i] = node[line[i]].client_socket_fd

LEMMA WaitingSeq == IndInv => WaitingOK
<1> SUFFICES ASSUME IndInv PROVE WaitingOK
  OBVIOUS
<1>1. line \in Seq(Addrs) /\ DOMAIN line = 1 .. Len(line) /\ Len(line) \in Nat
  BY DEF IndInv, TypeOK
<1>2. \A i \in 1 .. Len(line) : node[line[i]].client_socket_fd \in Sockets
  BY <1>1 DEF IndInv, TypeOK, PointersOK, Item
<1> QED
  BY <1>1, <1>2 DEF Waiting, WaitingOK

\* The same of the state a step leads to.
LEMMA WaitingSeqAfter == IndInv' => WaitingOK'
BY WaitingSeq, PTL

LEMMA SameWaiting ==
  ASSUME IndInv, line' = line,
         \A i \in DOMAIN line : node'[line[i]].client_socket_fd = node[line[i]].client_socket_fd
  PROVE  Waiting' = Waiting
BY DEF Waiting

LEMMA AppendPuts ==
  ASSUME IndInv, NEW t \in Acceptors, AppendItem(t)
  PROVE  \E s \in Sockets : Queue!Put(s)
<1> USE WorkQueueAssumption DEF Threads
<1> DEFINE s == node[item[t]].client_socket_fd
           n == Len(line)
<1>1. /\ pc[t] = "append" /\ pc' = [pc EXCEPT ![t] = "count"] /\ line' = Append(line, item[t])
      /\ UNCHANGED fd /\ IndInv' /\ SameSockets
  BY AppendKeeps DEF AppendItem, GoTo, locals
<1>2. item[t] \in DOMAIN node /\ item[t] \in Addrs /\ s \in Sockets
  BY <1>1 DEF IndInv, TypeOK, ItemsOK, InHand, Item
<1>3. /\ line \in Seq(Addrs) /\ Len(line') = n + 1 /\ n \in Nat
      /\ \A i \in 1 .. n : line'[i] = line[i] /\ line[i] \in DOMAIN node
      /\ line'[n + 1] = item[t]
  BY <1>1, <1>2 DEF IndInv, TypeOK, PointersOK
<1> HIDE DEF s, n
<1>4. Waiting \in Seq(Sockets) /\ Len(Waiting) = n
  BY WaitingSeq DEF n, WaitingOK
<1>5. /\ Waiting' \in Seq(Sockets) /\ Len(Waiting') = n + 1
      /\ \A i \in 1 .. n + 1 : Waiting'[i] = node'[line'[i]].client_socket_fd
  BY <1>1, <1>3, WaitingSeqAfter DEF WaitingOK
<1>6. \A i \in 1 .. n : Waiting'[i] = Waiting[i]
  BY <1>1, <1>3, <1>5, WaitingSeq DEF SameSockets, WaitingOK, n
<1>7. Waiting'[n + 1] = s
  BY <1>1, <1>2, <1>3, <1>5 DEF SameSockets, s
<1>8. Waiting' = Append(Waiting, s)
  <2>1. /\ Append(Waiting, s) \in Seq(Sockets) /\ Len(Append(Waiting, s)) = n + 1
        /\ \A i \in 1 .. n + 1 :
             Append(Waiting, s)[i] = IF i = n + 1 THEN s ELSE Waiting[i]
    BY <1>2, <1>4
  <2> QED
    BY <1>3, <1>5, <1>6, <1>7, <2>1, SeqEqual
<1>9. Hand' = Hand
  BY <1>1 DEF IndInv, TypeOK, Hand
<1> QED
  BY <1>2, <1>8, <1>9 DEF Queue!Put, Waiting, Hand

LEMMA DeleteGets ==
  ASSUME IndInv, NEW t \in Workers, DeleteItem(t)
  PROVE  Queue!Get(t)
<1> USE WorkQueueAssumption DEF Threads
<1> DEFINE n == Len(line)
<1>1. /\ pc[t] = "delete" /\ pc' = [pc EXCEPT ![t] = "unlock"] /\ line' = Tail(line)
      /\ UNCHANGED fd /\ IndInv' /\ SameSockets
  BY DeleteKeeps DEF DeleteItem, GoTo, locals
<1>2. line # <<>> /\ fd[t] = node[head].client_socket_fd /\ head = line[1]
  BY <1>1 DEF IndInv, WorkerOK, PointersOK
<1>3. /\ line \in Seq(Addrs) /\ n \in Nat \ {0} /\ Len(line') = n - 1
      /\ \A i \in 1 .. n : line[i] \in DOMAIN node
      /\ \A i \in 1 .. n - 1 : line'[i] = line[i + 1]
  BY <1>1, <1>2 DEF IndInv, TypeOK, PointersOK
<1> HIDE DEF n
<1>4. /\ Waiting \in Seq(Sockets) /\ Len(Waiting) = n
      /\ \A i \in 1 .. n : Waiting[i] = node[line[i]].client_socket_fd
  BY WaitingSeq DEF n, WaitingOK
<1>5. /\ Waiting' \in Seq(Sockets) /\ Len(Waiting') = n - 1
      /\ \A i \in 1 .. n - 1 : Waiting'[i] = node'[line'[i]].client_socket_fd
  BY <1>1, <1>3, WaitingSeqAfter DEF WaitingOK
<1>6. ASSUME NEW i \in 1 .. n - 1 PROVE Waiting'[i] = Waiting[i + 1]
  <2>1. i \in 1 .. n /\ i + 1 \in 1 .. n
    BY <1>3
  <2>2. line'[i] = line[i + 1] /\ line[i + 1] \in DOMAIN node
    BY <1>3, <2>1
  <2>3. node'[line'[i]].client_socket_fd = node[line[i + 1]].client_socket_fd
    BY <1>1, <2>2 DEF SameSockets
  <2> QED
    BY <1>4, <1>5, <2>1, <2>3
<1>7. Waiting # <<>> /\ Head(Waiting) = fd[t]
  BY <1>2, <1>3, <1>4
<1>8. Waiting' = Tail(Waiting)
  <2>1. /\ Tail(Waiting) \in Seq(Sockets) /\ Len(Tail(Waiting)) = n - 1
        /\ \A i \in 1 .. n - 1 : Tail(Waiting)[i] = Waiting[i + 1]
    BY <1>3, <1>4, <1>7
  <2> QED
    BY <1>3, <1>5, <1>6, <2>1, SeqEqual
<1>9. Hand[t] = NoSocket /\ Hand' = [Hand EXCEPT ![t] = fd[t]]
  BY <1>1 DEF IndInv, TypeOK, Hand
<1> QED
  BY <1>7, <1>8, <1>9 DEF Queue!Get, Waiting, Hand

LEMMA ReturnIsDone ==
  ASSUME IndInv, NEW t \in Workers, PopReturn(t)
  PROVE  Queue!Done(t)
<1> USE WorkQueueAssumption DEF Threads
<1>1. /\ pc[t] = "free" /\ pc' = [pc EXCEPT ![t] = "idle"] /\ line' = line
      /\ node' = [b \in DOMAIN node \ {item[t]} |-> node[b]]
      /\ fd' = [fd EXCEPT ![t] = NoSocket]
  BY DEF PopReturn, GoTo
<1>2. \A i \in DOMAIN line : line[i] \in DOMAIN node \ {item[t]}
  BY <1>1 DEF IndInv, ItemsOK, PointersOK, InHand
<1>3. Waiting' = Waiting
  BY <1>1, <1>2, SameWaiting
<1>4. fd[t] \in Sockets /\ Hand[t] = fd[t]
  BY <1>1 DEF IndInv, WorkerOK, Hand
<1>5. Hand' = [Hand EXCEPT ![t] = NoSocket]
  BY <1>1 DEF IndInv, TypeOK, Hand
<1> QED
  BY <1>3, <1>4, <1>5 DEF Queue!Done, Waiting, Hand

LEMMA StepMaps == IndInv /\ [Next]_vars => [Queue!FifoNext]_(Queue!fifoVars)
<1> SUFFICES ASSUME IndInv, [Next]_vars PROVE [Queue!FifoNext]_(Queue!fifoVars)
  OBVIOUS
<1> USE WorkQueueAssumption DEF Threads
<1>0. ASSUME Waiting' = Waiting, Hand' = Hand PROVE UNCHANGED Queue!fifoVars
  BY <1>0 DEF Queue!fifoVars, Waiting, Hand
<1>00. pc \in [Threads -> {"idle", "lock", "append", "count", "signal", "unlock", "test",
                           "asleep", "relock", "take", "delete", "free"}]
  BY DEF IndInv, TypeOK
<1>1. ASSUME NEW t \in Acceptors, Push(t) PROVE [Queue!FifoNext]_(Queue!fifoVars)
  <2>1. CASE AppendItem(t)
    BY <2>1, AppendPuts DEF Queue!FifoNext
  <2>2. ASSUME NEW s \in Sockets, PushCall(t, s) PROVE UNCHANGED Queue!fifoVars
    <3>1. PICK a \in Addrs \ DOMAIN node :
            node' = [b \in DOMAIN node \cup {a} |->
                       IF b = a THEN [client_socket_fd |-> s, next |-> NULL, prev |-> NULL]
                                ELSE node[b]]
      BY <2>2 DEF PushCall, Calloc
    <3>2. /\ pc[t] = "idle" /\ pc' = [pc EXCEPT ![t] = "lock"] /\ line' = line /\ fd' = fd
      BY <2>2 DEF PushCall, GoTo
    <3>3. \A i \in DOMAIN line : node'[line[i]] = node[line[i]]
      BY <3>1 DEF IndInv, PointersOK
    <3>4. Waiting' = Waiting
      BY <3>2, <3>3, SameWaiting
    <3>5. Hand' = Hand
      BY <1>00, <3>2 DEF Hand
    <3> QED
      BY <1>0, <3>4, <3>5
  <2>3. CASE Lock(t, "lock", "append") \/ Count(t) \/ PushReturn(t) \/ Signal(t)
    <3>1. UNCHANGED <<line, node, fd>>
      BY <2>3 DEF Lock, Count, PushReturn, Signal, list, locals
    <3>2. \A w \in Workers : \/ pc'[w] = pc[w]
                             \/ pc[w] = "asleep" /\ pc'[w] = "relock"
      BY <1>00, <2>3 DEF Lock, Count, PushReturn, Signal, GoTo, WakeOne, Asleep
    <3>3. Waiting' = Waiting /\ Hand' = Hand
      BY <3>1, <3>2 DEF Waiting, Hand
    <3> QED
      BY <1>0, <3>3
  <2> QED
    BY <1>1, <2>1, <2>2, <2>3 DEF Push
<1>2. ASSUME NEW t \in Workers, Pop(t) \/ WakeUnasked(t)
      PROVE  [Queue!FifoNext]_(Queue!fifoVars)
  <2>1. CASE DeleteItem(t)
    BY <2>1, DeleteGets DEF Queue!FifoNext
  <2>2. CASE PopReturn(t)
    BY <2>2, ReturnIsDone DEF Queue!FifoNext
  <2>3. CASE \/ PopCall(t) \/ Wait(t) \/ Proceed(t) \/ WakeUnasked(t) \/ Unlock(t, "free")
             \/ Lock(t, "lock", "test") \/ Lock(t, "relock", AfterWait) \/ Take(t)
    <3>1. UNCHANGED <<line, node>>
      BY <2>3 DEF PopCall, Wait, Proceed, WakeUnasked, Unlock, Lock, Take, list
    <3>2. PICK h, g : /\ pc[t] = h /\ pc' = [pc EXCEPT ![t] = g]
                      /\ <<h, g>> \in {<<"idle", "lock">>, <<"test", "asleep">>, <<"test", "take">>,
                           <<"asleep", "relock">>, <<"unlock", "free">>, <<"lock", "test">>,
                           <<"relock", "test">>, <<"take", "delete">>}
      BY <2>3 DEF PopCall, Wait, Proceed, WakeUnasked, Unlock, Lock, Take, GoTo, AfterWait
    <3>3. \A w \in Workers : fd'[w] = fd[w] \/ (w = t /\ h = "take")
      BY <2>3, <3>2 DEF PopCall, Wait, Proceed, WakeUnasked, Unlock, Lock, Take, GoTo, locals,
                        IndInv, TypeOK
    <3>4. Waiting' = Waiting
      BY <3>1 DEF Waiting
    <3>5. Hand' = Hand
      BY <1>00, <3>2, <3>3 DEF Hand
    <3> QED
      BY <1>0, <3>4, <3>5
  <2> QED
    BY <1>2, <2>1, <2>2, <2>3 DEF Pop
<1>3. CASE UNCHANGED vars
  BY <1>3 DEF vars, list, locals, Queue!fifoVars
<1> QED
  BY <1>1, <1>2, <1>3 DEF Next

\* Whatever the threads do, callers see sockets come out in the order they
\* went in, each given to one worker.
THEOREM FifoCorrect == Spec => FifoImplemented
<1>1. Init => Queue!FifoInit
  BY DEF Init, Queue!FifoInit, Threads
<1> QED
  BY <1>1, StepMaps, IndInvHolds, PTL DEF Spec, FifoImplemented, Queue!FifoSpec
==============================================================================
