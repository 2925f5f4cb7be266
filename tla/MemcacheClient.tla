---------------------------- MODULE MemcacheClient ---------------------------
(****************************************************************************)
(* cachedfs/memcache.c: cache_get, cache_set and cache_msg send a request   *)
(* on the one socket of the daemon and take what the next read returns for  *)
(* its reply.  fuse_main starts several threads, and nothing locks sockfd.  *)
(*                                                                          *)
(* Of the server (external) only this is used: it answers the requests of a *)
(* connection in the order they were sent.  Of the stream: its bytes arrive *)
(* in order, a long reply possibly in several pieces.                       *)
(****************************************************************************)
EXTENDS Memcached, SequencesExt

CONSTANTS
  Threads,    \* FUSE's worker threads
  CacheKeys,  \* keys of the server
  Vals,       \* values stored under them
  Junk,       \* bytes of a reply buffer no read filled
  Nothing,    \* no call at hand, or nothing answered yet
  MaxQueue    \* bound: requests and pieces of replies on the way

VARIABLES
  fast,       \* FAST_MODE, fixed when the daemon is built
  store,      \* the server's keys and values
  connected,  \* the connection stands
  requests,   \* sent, not yet served
  wire,       \* pieces of replies the server has written
  inbox,      \* pieces that have reached the socket
  call,       \* the call each thread is in, or Nothing
  result,     \* what the last call of each thread returned
  served,     \* history: what the server answered to that call
  clean       \* history: no two calls overlapped, none was let go early,
              \* and no reply came in pieces or on a broken connection

vars == <<fast, store, connected, requests, wire, inbox, call, result, served, clean>>

Calls == [op: {"get", "delete"}, key: CacheKeys] \cup [op: {"set"}, key: CacheKeys, val: Vals]
Results == {-1, 0, Junk} \cup Vals

ASSUME MemcacheClientAssumption ==
  /\ MaxQueue \in Nat
  /\ Vals \cap {-1, 0, Junk} = {} /\ Nothing \notin Calls

Init ==
  /\ fast \in BOOLEAN
  /\ store = EmptyStore
  /\ connected = TRUE
  /\ requests = <<>> /\ wire = <<>> /\ inbox = <<>>
  /\ call = [t \in Threads |-> Nothing]
  /\ result = [t \in Threads |-> Nothing]
  /\ served = [t \in Threads |-> Nothing]
  /\ clean = TRUE

InCall(t) == call[t] # Nothing
Quiet == \A t \in Threads : ~InCall(t)

Returns(t, r) ==
  /\ result' = [result EXCEPT ![t] = r]
  /\ call' = [call EXCEPT ![t] = Nothing]

------------------------------------------------------------------------------
(* The server and the stream.                                               *)

\* What the server answers to c, in terms of what the call should return.
AnswerTo(c) ==
  IF c.op = "get" /\ c.key \notin DOMAIN store THEN -1
  ELSE IF c.op = "get" THEN store[c.key]
  ELSE 0

\* Mutant: deletes are sent in a form the server does not answer.
PiecesMute(c) ==
  IF c.op = "delete" THEN {<<>>}
  ELSE {<<[first |-> TRUE, last |-> TRUE, says |-> AnswerTo(c)]>>}

\* The reply to c in one piece or, when it carries a value, possibly in two.
Pieces(c) ==
  LET piece(f, l) == [first |-> f, last |-> l, says |-> AnswerTo(c)]
  IN  {<<piece(TRUE, TRUE)>>} \cup
      (IF AnswerTo(c) \in Vals THEN {<<piece(TRUE, FALSE), piece(FALSE, TRUE)>>} ELSE {})

Effect(c) ==
  CASE c.op = "get" -> store
    [] c.op = "set" -> CacheSet(store, c.key, c.val)
    [] c.op = "delete" -> CacheDelete(store, {c.key})

Serve ==
  /\ connected /\ requests # <<>>
  /\ LET c == Head(requests).call
         t == Head(requests).from
     IN  /\ store' = Effect(c)
         /\ served' = [served EXCEPT ![t] = AnswerTo(c)]
         /\ \E reply \in Pieces(c) :
              /\ wire' = wire \o reply
              /\ clean' = (clean /\ Len(reply) <= 1)
  /\ requests' = Tail(requests)
  /\ UNCHANGED <<fast, connected, inbox, call, result>>

Deliver ==
  /\ wire # <<>>
  /\ inbox' = Append(inbox, Head(wire)) /\ wire' = Tail(wire)
  /\ UNCHANGED <<fast, store, connected, requests, call, result, served, clean>>

\* The server ends or drops the connection; there is no reconnecting.
Disconnect ==
  /\ connected /\ connected' = FALSE
  /\ requests' = <<>> /\ wire' = <<>> /\ inbox' = <<>>
  /\ clean' = FALSE
  /\ UNCHANGED <<fast, store, call, result, served>>

------------------------------------------------------------------------------
(* The client.                                                              *)

\* Mutant: cache_set never waits, whatever FAST_MODE is.
AwaitsNoSet(c) == c.op # "set"

\* Whether the call reads a reply: cache_set does not in FAST_MODE.
Awaits(c) == ~(fast /\ c.op = "set")

\* send() succeeds.
Send(t, c) ==
  /\ connected /\ ~InCall(t)
  /\ Len(requests) + Len(wire) + Len(inbox) < MaxQueue
  /\ requests' = Append(requests, [from |-> t, call |-> c])
  /\ IF Awaits(c)
     THEN call' = [call EXCEPT ![t] = c] /\ UNCHANGED result
     ELSE Returns(t, 0)
  /\ served' = [served EXCEPT ![t] = Nothing]
  /\ clean' = (clean /\ Quiet /\ ~(fast /\ c.op = "set"))
  /\ UNCHANGED <<fast, store, connected, wire, inbox>>

\* send() fails: the call returns -1 at once.
SendFails(t, c) ==
  /\ ~connected /\ ~InCall(t)
  /\ Returns(t, -1)
  /\ served' = [served EXCEPT ![t] = Nothing]
  /\ UNCHANGED <<fast, store, connected, requests, wire, inbox, clean>>

\* Mutant: cache_set and cache_msg return what read() did.
OutcomeCount(c, bytes) ==
  IF c.op # "get" THEN Len(bytes)
  ELSE IF bytes[1].says \in Vals THEN bytes[1].says ELSE -1

\* What a call makes of the bytes it read: cache_get looks for "VALUE" at their
\* start and takes as many as the value says it has, cache_set looks for an
\* error the server does not send here, cache_msg looks at nothing.
Outcome(c, bytes) ==
  IF c.op # "get" THEN 0
  ELSE IF ~(bytes[1].first /\ bytes[1].says \in Vals) THEN -1
  ELSE IF bytes[1].last \/ (Len(bytes) > 1 /\ bytes[2].last) THEN bytes[1].says
  ELSE Junk

\* read() returns bytes from the front of what has come, all or less of it.
Read(t) ==
  /\ InCall(t) /\ inbox # <<>>
  /\ \E n \in 1 .. Len(inbox) :
       /\ Returns(t, Outcome(call[t], SubSeq(inbox, 1, n)))
       /\ inbox' = SubSeq(inbox, n + 1, Len(inbox))
  /\ UNCHANGED <<fast, store, connected, requests, wire, served, clean>>

\* read() returns no bytes: the call judges a buffer fresh from malloc, which
\* may even hold the reply of an earlier call.
ReadFails(t) ==
  /\ InCall(t) /\ ~connected
  /\ \E r \in IF call[t].op = "get" THEN {-1, Junk} \cup Vals ELSE {-1, 0} :
       Returns(t, r)
  /\ UNCHANGED <<fast, store, connected, requests, wire, inbox, served, clean>>

Next ==
  \/ Serve \/ Deliver \/ Disconnect
  \/ \E t \in Threads :
       \/ \E c \in Calls : Send(t, c) \/ SendFails(t, c)
       \/ Read(t) \/ ReadFails(t)

\* The server and the stream keep going, and a thread takes what has come.
Spec == Init /\ [][Next]_vars /\ WF_vars(Serve) /\ WF_vars(Deliver)
        /\ \A t \in Threads : WF_vars(Read(t)) /\ WF_vars(ReadFails(t))

------------------------------------------------------------------------------
(* Correctness.                                                             *)

Piece == [first: BOOLEAN, last: BOOLEAN, says: Results]

TypeOK ==
  /\ fast \in BOOLEAN /\ connected \in BOOLEAN /\ clean \in BOOLEAN
  /\ IsStore(store, CacheKeys, Vals)
  /\ requests \in Seq([from: Threads, call: Calls])
  /\ wire \in Seq(Piece) /\ inbox \in Seq(Piece)
  /\ call \in [Threads -> Calls \cup {Nothing}]
  /\ result \in [Threads -> Results \cup {Nothing}]
  /\ served \in [Threads -> Results \cup {Nothing}]

\* Every call returns what the server answered to that very call, by whichever
\* thread it was made: memcache.c tells replies apart by nothing but their
\* order on the socket, so this is what calls one after the other are worth.
OwnAnswers == clean => \A t \in Threads : ~InCall(t) => result[t] = served[t]

\* Between calls the stream is empty: no reply is left for the next call.
NothingLeftOver == clean /\ Quiet => requests = <<>> /\ wire = <<>> /\ inbox = <<>>

\* A call comes back, unless calls of other threads may have read its reply.
CallsReturn == \A t \in Threads : InCall(t) ~> ~InCall(t) \/ ~clean

\* memcache.c:18 of cache_get: "returns -1 on error".  Every send and read
\* succeeds, every call waits for a reply, and the server found the key.
MissIsAnError ==
  connected /\ ~fast => \A t \in Threads :
     result[t] = -1 /\ ~InCall(t) => served[t] \notin Vals
==============================================================================
