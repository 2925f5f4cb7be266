--------------------------------- MODULE Fifo --------------------------------
(****************************************************************************)
(* What hw2/wq.c promises: sockets come out in the order they went in, each *)
(* to one worker.                                                           *)
(****************************************************************************)
EXTENDS Sequences

CONSTANTS Workers, Sockets,
          NoSocket   \* a worker has none

VARIABLES queue,  \* sockets waiting to be served
          hand    \* the socket a worker was given, until it returns with it

fifoVars == <<queue, hand>>

FifoInit ==
  /\ queue = <<>>
  /\ hand = [w \in Workers |-> NoSocket]

Put(s) == queue' = Append(queue, s) /\ UNCHANGED hand

Get(w) ==
  /\ hand[w] = NoSocket /\ queue # <<>>
  /\ hand' = [hand EXCEPT ![w] = Head(queue)]
  /\ queue' = Tail(queue)

Done(w) ==
  /\ hand[w] # NoSocket
  /\ hand' = [hand EXCEPT ![w] = NoSocket]
  /\ UNCHANGED queue

FifoNext ==
  \/ \E s \in Sockets : Put(s)
  \/ \E w \in Workers : Get(w) \/ Done(w)

FifoSpec == FifoInit /\ [][FifoNext]_fifoVars
==============================================================================
