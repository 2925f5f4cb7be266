------------------------- MODULE MemcacheClientProofs ------------------------
(****************************************************************************)
(* Proofs about MemcacheClient, for any threads, keys, values and length of *)
(* the stream: as long as the calls come one after the other, each returns  *)
(* what the server answered to it, and leaves nothing in the stream.        *)
(****************************************************************************)
EXTENDS MemcacheClient, SequenceTheorems, TLAPS

Request == [from: Threads, call: Calls]

LEMMA OneItem ==
  ASSUME NEW x
  PROVE  /\ Head(<<x>>) = x /\ Tail(<<x>>) = <<>> /\ Append(<<>>, x) = <<x>>
         /\ Len(<<x>>) = 1 /\ <<x>> # <<>> /\ <<x>>[1] = x
         /\ <<>> \o <<x>> = <<x>>
         /\ SubSeq(<<x>>, 1, 1) = <<x>> /\ SubSeq(<<x>>, 2, 1) = <<>>
<1>1. Len(<<x>>) = 1 /\ <<x>>[1] = x /\ <<x>> # <<>> /\ Head(<<x>>) = x
  OBVIOUS
<1>2. <<x>> \in Seq({x}) /\ <<>> \in Seq({x})
  OBVIOUS
<1>3. Tail(<<x>>) = <<>>
  BY <1>1, <1>2, HeadTailProperties
<1>4. Append(<<>>, x) = <<x>>
  OBVIOUS
<1>5. <<>> \o <<x>> = <<x>>
  BY <1>2, ConcatEmptySeq
<1>6. SubSeq(<<x>>, 1, 1) = <<x>>
  BY <1>1, <1>2, SubSeqFull
<1>7. SubSeq(<<x>>, 2, 1) = <<>>
  BY SubSeqEmpty
<1> QED
  BY <1>1, <1>3, <1>4, <1>5, <1>6, <1>7

------------------------------------------------------------------------------
(* Types.                                                                   *)

LEMMA CallKinds ==
  ASSUME NEW c \in Calls
  PROVE  /\ c.op \in {"get", "set", "delete"} /\ c.key \in CacheKeys
         /\ c.op = "set" => c.val \in Vals
         /\ c # Nothing
<1>1. CASE c \in [op: {"get", "delete"}, key: CacheKeys]
  BY <1>1, MemcacheClientAssumption
<1>2. CASE c \in [op: {"set"}, key: CacheKeys, val: Vals]
  BY <1>2, MemcacheClientAssumption
<1> QED
  BY <1>1, <1>2 DEF Calls

LEMMA AnswerKinds ==
  ASSUME IsStore(store, CacheKeys, Vals), NEW c \in Calls
  PROVE  /\ AnswerTo(c) \in Results
         /\ AnswerTo(c) \in IF c.op = "get" THEN {-1} \cup Vals ELSE {0}
BY DEF AnswerTo, Results, IsStore

LEMMA EffectStore ==
  ASSUME IsStore(store, CacheKeys, Vals), NEW c \in Calls
  PROVE  IsStore(Effect(c), CacheKeys, Vals)
<1>1. CASE c.op = "get"
  BY <1>1 DEF Effect
<1>2. CASE c.op = "set"
  <2>1. Effect(c) = CacheSet(store, c.key, c.val) /\ c.key \in CacheKeys /\ c.val \in Vals
    BY <1>2, CallKinds DEF Effect
  <2> QED
    BY <2>1 DEF IsStore, CacheSet
<1>3. CASE c.op = "delete"
  <2>1. Effect(c) = CacheDelete(store, {c.key})
    BY <1>3 DEF Effect
  <2> QED
    BY <2>1 DEF IsStore, CacheDelete
<1> QED
  BY <1>1, <1>2, <1>3, CallKinds

LEMMA ShortSeqs ==
  ASSUME NEW S, NEW x \in S, NEW y \in S
  PROVE  <<x>> \in Seq(S) /\ <<x, y>> \in Seq(S)
OBVIOUS

LEMMA PiecesTyped ==
  ASSUME IsStore(store, CacheKeys, Vals), NEW c \in Calls, NEW reply \in Pieces(c)
  PROVE  reply \in Seq(Piece)
<1> DEFINE piece(f, l) == [first |-> f, last |-> l, says |-> AnswerTo(c)]
<1>1. AnswerTo(c) \in Results
  BY AnswerKinds
<1>2. \A f, l \in BOOLEAN : piece(f, l) \in Piece
  BY <1>1 DEF Piece
<1>3. reply = <<piece(TRUE, TRUE)>> \/ reply = <<piece(TRUE, FALSE), piece(FALSE, TRUE)>>
  BY DEF Pieces
<1> HIDE DEF piece
<1>4. piece(TRUE, TRUE) \in Piece /\ piece(TRUE, FALSE) \in Piece /\ piece(FALSE, TRUE) \in Piece
  BY <1>2
<1>5. CASE reply = <<piece(TRUE, TRUE)>>
  BY <1>4, <1>5, ShortSeqs, Zenon
<1>6. CASE reply = <<piece(TRUE, FALSE), piece(FALSE, TRUE)>>
  BY <1>4, <1>6, ShortSeqs, Zenon
<1> QED
  BY <1>3, <1>5, <1>6

LEMMA OutcomeKinds ==
  ASSUME NEW c \in Calls, NEW bytes \in Seq(Piece), bytes # <<>>
  PROVE  Outcome(c, bytes) \in Results
<1>1. bytes[1] \in Piece
  BY ElementOfSeq, EmptySeq
<1> QED
  BY <1>1 DEF Outcome, Results, Piece

LEMMA InitTypes == Init => TypeOK
BY EmptySeq DEF Init, TypeOK, IsStore, EmptyStore

LEMMA ServeTypes == TypeOK /\ Serve => TypeOK'
<1> SUFFICES ASSUME TypeOK, Serve PROVE TypeOK'
  OBVIOUS
<1> DEFINE c == Head(requests).call
           t == Head(requests).from
<1>1. c \in Calls /\ t \in Threads /\ Tail(requests) \in Seq(Request)
  <2>1. Head(requests) \in Request /\ Tail(requests) \in Seq(Request)
    BY HeadTailProperties DEF TypeOK, Serve, Request
  <2> QED
    BY <2>1 DEF Request
<1>2. PICK reply \in Pieces(c) : wire' = wire \o reply /\ clean' = (clean /\ Len(reply) <= 1)
  BY DEF Serve
<1>3. /\ store' = Effect(c) /\ served' = [served EXCEPT ![t] = AnswerTo(c)]
      /\ requests' = Tail(requests)
  BY DEF Serve
<1> HIDE DEF c, t
<1>4. IsStore(store', CacheKeys, Vals) /\ AnswerTo(c) \in Results
  BY <1>1, <1>3, EffectStore, AnswerKinds DEF TypeOK
<1>5. wire' \in Seq(Piece)
  BY <1>1, <1>2, PiecesTyped, ConcatProperties DEF TypeOK
<1>6. served' \in [Threads -> Results \cup {Nothing}]
  BY <1>1, <1>3, <1>4 DEF TypeOK
<1>7. clean' \in BOOLEAN
  BY <1>2 DEF TypeOK
<1> QED
  BY <1>1, <1>3, <1>4, <1>5, <1>6, <1>7 DEF Serve, TypeOK, Request

LEMMA ReturnsTypes ==
  ASSUME TypeOK, NEW t \in Threads, NEW r \in Results, Returns(t, r)
  PROVE  /\ call' \in [Threads -> Calls \cup {Nothing}]
         /\ result' \in [Threads -> Results \cup {Nothing}]
BY DEF TypeOK, Returns

LEMMA ClientTypes ==
  ASSUME TypeOK, NEW t \in Threads,
         \/ \E c \in Calls : Send(t, c) \/ SendFails(t, c)
         \/ Read(t) \/ ReadFails(t)
  PROVE  TypeOK'
<1>1. ASSUME NEW c \in Calls, Send(t, c) PROVE TypeOK'
  <2>1. requests' \in Seq(Request)
    <3>1. [from |-> t, call |-> c] \in Request
      BY DEF Request
    <3> QED
      BY <1>1, <3>1, AppendProperties DEF Send, TypeOK, Request
  <2>2. /\ call' \in [Threads -> Calls \cup {Nothing}]
        /\ result' \in [Threads -> Results \cup {Nothing}]
    <3>1. CASE Awaits(c)
      BY <1>1, <3>1 DEF Send, TypeOK
    <3>2. CASE ~Awaits(c)
      BY <1>1, <3>2, ReturnsTypes DEF Send, Results
    <3> QED
      BY <3>1, <3>2
  <2>3. served' \in [Threads -> Results \cup {Nothing}] /\ clean' \in BOOLEAN
    BY <1>1 DEF Send, TypeOK
  <2> QED
    BY <1>1, <2>1, <2>2, <2>3 DEF Send, TypeOK, Request
<1>2. ASSUME NEW c \in Calls, SendFails(t, c) PROVE TypeOK'
  <2>1. /\ call' \in [Threads -> Calls \cup {Nothing}]
        /\ result' \in [Threads -> Results \cup {Nothing}]
    BY <1>2, ReturnsTypes DEF SendFails, Results
  <2> QED
    BY <1>2, <2>1 DEF SendFails, TypeOK
<1>3. CASE Read(t)
  <2>1. PICK n \in 1 .. Len(inbox) :
          /\ Returns(t, Outcome(call[t], SubSeq(inbox, 1, n)))
          /\ inbox' = SubSeq(inbox, n + 1, Len(inbox))
    BY <1>3 DEF Read
  <2>2. inbox \in Seq(Piece) /\ Len(inbox) \in Nat /\ call[t] \in Calls
    BY <1>3, LenProperties DEF TypeOK, Read, InCall
  <2>3. /\ SubSeq(inbox, 1, n) \in Seq(Piece) /\ SubSeq(inbox, 1, n) # <<>>
        /\ inbox' \in Seq(Piece)
    <3>1. \A i \in 1 .. Len(inbox) : inbox[i] \in Piece
      BY <2>2, ElementOfSeq
    <3>2. SubSeq(inbox, 1, n) \in Seq(Piece) /\ Len(SubSeq(inbox, 1, n)) = n
      BY <2>2, <3>1, SubSeqProperties
    <3>3. inbox' \in Seq(Piece)
      BY <2>1, <2>2, <3>1, SubSeqProperties
    <3> QED
      BY <3>2, <3>3, EmptySeq
  <2>4. Outcome(call[t], SubSeq(inbox, 1, n)) \in Results
    BY <2>2, <2>3, OutcomeKinds
  <2>5. /\ call' \in [Threads -> Calls \cup {Nothing}]
        /\ result' \in [Threads -> Results \cup {Nothing}]
    BY <2>1, <2>4, ReturnsTypes
  <2> QED
    BY <1>3, <2>3, <2>5 DEF Read, TypeOK
<1>4. CASE ReadFails(t)
  <2>1. PICK r \in Results : Returns(t, r)
    BY <1>4 DEF ReadFails, Results
  <2>2. /\ call' \in [Threads -> Calls \cup {Nothing}]
        /\ result' \in [Threads -> Results \cup {Nothing}]
    BY <2>1, ReturnsTypes
  <2> QED
    BY <1>4, <2>2 DEF ReadFails, TypeOK
<1> QED
  BY <1>1, <1>2, <1>3, <1>4

LEMMA StepTypes == TypeOK /\ [Next]_vars => TypeOK'
<1> SUFFICES ASSUME TypeOK, [Next]_vars PROVE TypeOK'
  OBVIOUS
<1>1. CASE Serve
  BY <1>1, ServeTypes
<1>2. CASE Deliver
  <2>1. wire' \in Seq(Piece) /\ inbox' \in Seq(Piece)
    BY <1>2, HeadTailProperties, AppendProperties DEF Deliver, TypeOK
  <2> QED
    BY <1>2, <2>1 DEF Deliver, TypeOK
<1>3. CASE Disconnect
  BY <1>3, EmptySeq DEF Disconnect, TypeOK
<1>4. ASSUME NEW t \in Threads,
             \/ \E c \in Calls : Send(t, c) \/ SendFails(t, c)
             \/ Read(t) \/ ReadFails(t)
      PROVE  TypeOK'
  BY <1>4, ClientTypes
<1>5. CASE UNCHANGED vars
  BY <1>5 DEF vars, TypeOK
<1> QED
  BY <1>1, <1>2, <1>3, <1>4, <1>5 DEF Next

LEMMA TypesHold == Spec => []TypeOK
BY InitTypes, StepTypes, PTL DEF Spec

\* Every call returns one of the results it may, and every reply on the way
\* says one.
THEOREM ClientTypesCorrect == Spec => []TypeOK
BY TypesHold

------------------------------------------------------------------------------
(* One call at a time: there is one message, and it is on its way from the  *)
(* call that waits to the server, or back.                                  *)

StreamEmpty == requests = <<>> /\ wire = <<>> /\ inbox = <<>>

\* The whole reply to t's call, and what it says fits the call.
ReplyTo(t) == [first |-> TRUE, last |-> TRUE, says |-> served[t]]
Fits(t) == served[t] \in IF call[t].op = "get" THEN {-1} \cup Vals ELSE {0}
Outward(t) == requests = <<[from |-> t, call |-> call[t]]>> /\ wire = <<>> /\ inbox = <<>>
OnWire(t) == requests = <<>> /\ wire = <<ReplyTo(t)>> /\ inbox = <<>> /\ Fits(t)
Arrived(t) == requests = <<>> /\ wire = <<>> /\ inbox = <<ReplyTo(t)>> /\ Fits(t)

OneAtATime ==
  clean =>
    /\ connected
    /\ \A t, u \in Threads : InCall(t) /\ InCall(u) => t = u
    /\ Quiet => StreamEmpty
    /\ \A t \in Threads : IF InCall(t)
                          THEN Outward(t) \/ OnWire(t) \/ Arrived(t)
                          ELSE result[t] = served[t]

LEMMA InitOne == Init => OneAtATime
BY DEF Init, OneAtATime, InCall, Quiet, StreamEmpty

\* The server answers the one request there is.
LEMMA ServeOne == TypeOK /\ OneAtATime /\ Serve => OneAtATime'
<1> SUFFICES ASSUME TypeOK, OneAtATime, Serve, clean' PROVE OneAtATime'
  BY DEF OneAtATime
<1>1. clean /\ requests # <<>> /\ UNCHANGED <<fast, connected, inbox, call, result>>
  BY DEF Serve
<1>2. PICK t \in Threads : InCall(t)
  BY <1>1 DEF OneAtATime, Quiet, StreamEmpty
<1>3. requests = <<[from |-> t, call |-> call[t]]>> /\ wire = <<>> /\ inbox = <<>>
  BY <1>1, <1>2 DEF OneAtATime, Outward, OnWire, Arrived
<1>4. Head(requests) = [from |-> t, call |-> call[t]] /\ Tail(requests) = <<>>
  BY <1>3, OneItem
<1>5. call[t] \in Calls
  BY <1>2 DEF TypeOK, InCall
<1>6. PICK reply \in Pieces(call[t]) : /\ wire' = <<>> \o reply
                                       /\ clean' = (clean /\ Len(reply) <= 1)
  <2>1. Head(requests).call = call[t]
    BY <1>4
  <2> QED
    BY <1>3, <2>1, Zenon DEF Serve
<1>7. reply = <<[first |-> TRUE, last |-> TRUE, says |-> AnswerTo(call[t])]>>
  <2> DEFINE piece(f, l) == [first |-> f, last |-> l, says |-> AnswerTo(call[t])]
  <2>1. reply = <<piece(TRUE, TRUE)>> \/ reply = <<piece(TRUE, FALSE), piece(FALSE, TRUE)>>
    BY DEF Pieces
  <2>2. Len(reply) <= 1
    BY <1>6, Zenon
  <2>3. Len(<<piece(TRUE, FALSE), piece(FALSE, TRUE)>>) = 2
    OBVIOUS
  <2>4. ASSUME reply = <<piece(TRUE, FALSE), piece(FALSE, TRUE)>> PROVE FALSE
    <3>1. Len(reply) = 2
      BY <2>3, <2>4, Zenon
    <3> QED
      BY <2>2, <3>1
  <2> QED
    BY <2>1, <2>4, Zenon
<1>8. served' = [served EXCEPT ![t] = AnswerTo(call[t])] /\ requests' = <<>>
  <2>1. Head(requests).call = call[t] /\ Head(requests).from = t
    BY <1>4
  <2> QED
    BY <1>4, <2>1, Zenon DEF Serve
<1>9. served'[t] = AnswerTo(call[t])
  BY <1>8 DEF TypeOK
<1>10. OnWire(t)'
  BY <1>1, <1>3, <1>5, <1>6, <1>7, <1>8, <1>9, OneItem, AnswerKinds
     DEF OnWire, ReplyTo, Fits, TypeOK
<1>11. \A u \in Threads : u # t => ~InCall(u) /\ result'[u] = served'[u]
  BY <1>1, <1>2, <1>8 DEF OneAtATime, TypeOK
<1> QED
  BY <1>1, <1>2, <1>10, <1>11 DEF OneAtATime, InCall, Quiet

LEMMA DeliverOne == TypeOK /\ OneAtATime /\ Deliver => OneAtATime'
<1> SUFFICES ASSUME TypeOK, OneAtATime, Deliver, clean' PROVE OneAtATime'
  BY DEF OneAtATime
<1>1. /\ clean /\ wire # <<>> /\ wire' = Tail(wire) /\ inbox' = Append(inbox, Head(wire))
      /\ UNCHANGED <<fast, store, connected, requests, call, result, served>>
  BY DEF Deliver
<1>2. PICK t \in Threads : InCall(t)
  BY <1>1 DEF OneAtATime, Quiet, StreamEmpty
<1>3. OnWire(t)
  BY <1>1, <1>2 DEF OneAtATime, Outward, Arrived
<1>4. Arrived(t)'
  BY <1>1, <1>3, OneItem DEF OnWire, Arrived, ReplyTo, Fits
<1> QED
  BY <1>1, <1>2, <1>4 DEF OneAtATime, InCall, Quiet

\* A call that starts while no other runs finds the stream empty.
LEMMA SendOne ==
  ASSUME TypeOK, OneAtATime, NEW t \in Threads, NEW c \in Calls, Send(t, c)
  PROVE  OneAtATime'
<1> SUFFICES ASSUME clean' PROVE OneAtATime'
  BY DEF OneAtATime
<1>1. /\ clean /\ Quiet /\ Awaits(c) /\ served' = [served EXCEPT ![t] = Nothing]
      /\ requests' = Append(requests, [from |-> t, call |-> c])
      /\ UNCHANGED <<fast, store, connected, wire, inbox>>
  BY DEF Send, Awaits
<1>2. call' = [call EXCEPT ![t] = c] /\ result' = result /\ StreamEmpty
  BY <1>1 DEF Send, OneAtATime
<1>3. call'[t] = c /\ c # Nothing
  BY <1>2, CallKinds DEF TypeOK
<1>4. InCall(t)' /\ Outward(t)'
  BY <1>1, <1>2, <1>3, OneItem DEF StreamEmpty, Outward, InCall
<1>5. \A u \in Threads : u # t => ~InCall(u)' /\ result'[u] = served'[u]
  BY <1>1, <1>2 DEF OneAtATime, TypeOK, Quiet, InCall
<1> QED
  BY <1>1, <1>4, <1>5 DEF OneAtATime, Quiet

\* The one piece that has come is read, and is the whole reply.
LEMMA ReadOne ==
  ASSUME TypeOK, OneAtATime, NEW t \in Threads, Read(t)
  PROVE  OneAtATime'
<1> SUFFICES ASSUME clean' PROVE OneAtATime'
  BY DEF OneAtATime
<1>1. /\ clean /\ InCall(t) /\ inbox # <<>>
      /\ UNCHANGED <<fast, store, connected, requests, wire, served>>
  BY DEF Read
<1>2. Arrived(t)
  BY <1>1 DEF OneAtATime, Outward, OnWire
<1>3. PICK n \in 1 .. Len(inbox) :
        /\ Returns(t, Outcome(call[t], SubSeq(inbox, 1, n)))
        /\ inbox' = SubSeq(inbox, n + 1, Len(inbox))
  BY DEF Read
<1>4. n = 1 /\ Len(inbox) = 1
  BY <1>2, <1>3, OneItem DEF Arrived
<1>5. SubSeq(inbox, 1, n) = <<ReplyTo(t)>> /\ inbox' = <<>>
  BY <1>2, <1>3, <1>4, OneItem DEF Arrived
<1>6. Outcome(call[t], <<ReplyTo(t)>>) = served[t]
  <2> DEFINE bytes == <<ReplyTo(t)>>
  <2>1. bytes[1].first = TRUE /\ bytes[1].last = TRUE /\ bytes[1].says = served[t]
    BY OneItem DEF ReplyTo
  <2>2. Fits(t)
    BY <1>2 DEF Arrived
  <2> HIDE DEF bytes
  <2>3. Outcome(call[t], bytes) = served[t]
    BY <2>1, <2>2, MemcacheClientAssumption DEF Outcome, Fits
  <2> QED
    BY <2>3 DEF bytes
<1>7. Returns(t, served[t])
  BY <1>3, <1>5, <1>6
<1>8. StreamEmpty'
  BY <1>1, <1>2, <1>5 DEF Arrived, StreamEmpty
<1>9. \A u \in Threads : ~InCall(u)' /\ result'[u] = served'[u]
  BY <1>1, <1>7 DEF Returns, OneAtATime, TypeOK, InCall
<1> QED
  BY <1>1, <1>8, <1>9 DEF OneAtATime

LEMMA StepOne == TypeOK /\ OneAtATime /\ [Next]_vars => OneAtATime'
<1> SUFFICES ASSUME TypeOK, OneAtATime, [Next]_vars PROVE OneAtATime'
  OBVIOUS
<1>1. CASE Serve \/ Deliver
  BY <1>1, ServeOne, DeliverOne
<1>2. CASE Disconnect
  BY <1>2 DEF Disconnect, OneAtATime
<1>3. ASSUME NEW t \in Threads, NEW c \in Calls, Send(t, c) PROVE OneAtATime'
  BY <1>3, SendOne
<1>4. ASSUME NEW t \in Threads, Read(t) PROVE OneAtATime'
  BY <1>4, ReadOne
<1>5. ASSUME NEW t \in Threads, ReadFails(t) \/ \E c \in Calls : SendFails(t, c)
      PROVE  OneAtATime'
  BY <1>5 DEF ReadFails, SendFails, OneAtATime
<1>6. CASE UNCHANGED vars
  BY <1>6 DEF vars, OneAtATime, Quiet, InCall, StreamEmpty, Outward, OnWire, Arrived,
              ReplyTo, Fits
<1> QED
  BY <1>1, <1>2, <1>3, <1>4, <1>5, <1>6 DEF Next

LEMMA OneHolds == Spec => []OneAtATime
BY InitTypes, StepTypes, InitOne, StepOne, PTL DEF Spec

\* Calls that come one after the other, over a stream that stands and brings
\* replies whole, each return what the server answered to them.
THEOREM AnswersOwn == Spec => []OwnAnswers
<1>1. OneAtATime => OwnAnswers
  BY DEF OneAtATime, OwnAnswers
<1> QED
  BY <1>1, OneHolds, PTL

\* Between such calls the stream is empty.
THEOREM StreamEmptied == Spec => []NothingLeftOver
<1>1. OneAtATime => NothingLeftOver
  BY DEF OneAtATime, NothingLeftOver, StreamEmpty
<1> QED
  BY <1>1, OneHolds, PTL
==============================================================================
