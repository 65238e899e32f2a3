---------------------------- MODULE StreamProofs ----------------------------
(***************************************************************************)
(* For every size of the queue and of the replay, and whatever breaks and  *)
(* overtakes what: an event broadcast to a live stream has been shown, or  *)
(* what makes the page show it is on its way.                              *)
(***************************************************************************)
EXTENDS EventStream, SequenceTheorems, TLAPS

\* The types with the sequences spelled out.
StreamInv ==
    /\ newest \in 0..MaxEvents /\ breaks \in Nat /\ lost \in Nat
    /\ limbo \subseteq 1..newest /\ taken \subseteq 1..newest
    /\ ready \in Seq(1..newest) /\ queue \in Seq(1..newest) /\ replay \in Seq(1..newest)
    /\ conn \in {"closed", "open", "live"}
    /\ conn # "open" => replay = <<>>
    /\ conn # "live" => queue = <<>>
    /\ conn = "open" => taken = {}
    /\ Len(queue) <= QueueSize /\ Len(replay) <= ReplayLimit
    /\ cursor \in 0..newest /\ view \in 0..newest /\ shown \in 0..newest
    /\ answers \subseteq 0..newest
    /\ view <= shown

LEMMA StreamInvStart == StreamInit => StreamInv
  <1>1. <<>> \in Seq(1..0) /\ Len(<<>>) = 0
    BY EmptySeq
  <1> QED BY <1>1, StreamAssumption DEF StreamInit, StreamInv

\* A new id widens the types of everything that holds ids.
LEMMA Widens ==
    ASSUME StreamInv, newest' = newest + 1, newest < MaxEvents,
           UNCHANGED <<stream, page, breaks, lost>>,
           limbo' \subseteq 1..newest', ready' \in Seq(1..newest')
    PROVE  StreamInv'
  <1> USE StreamAssumption
  <1>1. newest \in Nat /\ newest' \in 0..MaxEvents
    BY DEF StreamInv
  <1>2. 1..newest \subseteq 1..newest' /\ 0..newest \subseteq 0..newest'
    BY <1>1
  <1>3. queue' \in Seq(1..newest') /\ replay' \in Seq(1..newest')
    BY <1>2, SeqMonotonic DEF StreamInv, stream
  <1> QED BY <1>1, <1>2, <1>3 DEF StreamInv, stream, page

\* reload() adds an answer; what the stream holds stays within its types.
LEMMA Fetched ==
    ASSUME StreamInv, Fetch
    PROVE  answers' \subseteq 0..newest /\ newest \in answers'
  BY DEF StreamInv, Fetch

LEMMA ReplayTyped ==
    ASSUME StreamInv, NEW n \in 0..newest
    PROVE  /\ ReplaySince(n) \in Seq(1..newest)
           /\ Len(ReplaySince(n)) <= ReplayLimit
  <1> DEFINE last == IF newest - n < ReplayLimit THEN newest - n ELSE ReplayLimit
             missed == [i \in 1..last |-> n + i]
  <1>1. newest \in Nat /\ last \in Nat /\ last <= ReplayLimit /\ n + last <= newest
    BY StreamAssumption DEF StreamInv
  <1> HIDE DEF last
  <1>2. missed \in [1..last -> 1..newest]
    BY <1>1
  <1>3. missed \in Seq(1..newest) /\ Len(missed) = last
    BY <1>1, <1>2
  <1>4. ReplaySince(n) = missed
    BY DEF ReplaySince, last
  <1> QED BY <1>1, <1>3, <1>4

LEMMA StreamInvStep == StreamInv /\ [StreamNext]_streamVars => StreamInv'
  <1> SUFFICES ASSUME StreamInv, [StreamNext]_streamVars PROVE StreamInv'
    OBVIOUS
  <1> USE StreamAssumption
  <1>1. CASE Emit
    <2>0. newest \in Nat /\ newest' = newest + 1 /\ NewId = newest + 1
      BY <1>1 DEF Emit, NewId, StreamInv
    <2>1. 1..newest \subseteq 1..newest' /\ NewId \in 1..newest'
      BY <2>0
    <2>2. limbo' \subseteq 1..newest' /\ ready \in Seq(1..newest')
      BY <1>1, <2>1, SeqMonotonic DEF Emit, StreamInv
    <2>3. ready' \in Seq(1..newest')
      BY <1>1, <2>1, <2>2 DEF Emit
    <2> QED BY <1>1, <2>2, <2>3, Widens DEF Emit, NewId
  <1>2. CASE Insert
    <2>1. 1..newest \subseteq 1..newest' /\ NewId \in 1..newest'
      BY <1>2 DEF Insert, NewId, StreamInv
    <2>2. limbo' \subseteq 1..newest' /\ ready' \in Seq(1..newest')
      BY <1>2, <2>1, SeqMonotonic DEF Insert, StreamInv
    <2> QED BY <1>2, <2>2, Widens DEF Insert, NewId
  <1>3. ASSUME NEW n \in limbo, Schedule(n) PROVE StreamInv'
    <2>1. ready' \in Seq(1..newest)
      BY <1>3 DEF Schedule, StreamInv
    <2> QED BY <1>3, <2>1 DEF Schedule, StreamInv, stream, page
  <1>4. CASE Broadcast
    <2>1. Head(ready) \in 1..newest /\ Tail(ready) \in Seq(1..newest)
      BY <1>4, HeadTailProperties DEF Broadcast, StreamInv
    <2>2. Enqueue(Head(ready)) \in Seq(1..newest) /\ Len(Enqueue(Head(ready))) <= QueueSize
      <3>1. CASE Len(queue) >= QueueSize
        BY <3>1 DEF Enqueue, StreamInv
      <3>2. CASE ~(Len(queue) >= QueueSize)
        <4>1. /\ Append(queue, Head(ready)) \in Seq(1..newest)
              /\ Len(Append(queue, Head(ready))) = Len(queue) + 1 /\ Len(queue) \in Nat
          BY <2>1, LenProperties DEF StreamInv
        <4> QED BY <3>2, <4>1 DEF Enqueue
      <3> QED BY <3>1, <3>2
    <2> QED BY <1>4, <2>1, <2>2 DEF Broadcast, StreamInv, page
  <1>5. CASE Connect
    <2>1. cursor' \in 0..newest
      BY <1>5 DEF Connect, StreamInv
    <2>2. replay' \in Seq(1..newest) /\ Len(replay') <= ReplayLimit
      <3>1. CASE cursor' = 0
        BY <1>5, <3>1, EmptySeq DEF Connect
      <3>2. CASE cursor' # 0
        BY <1>5, <2>1, <3>2, ReplayTyped DEF Connect
      <3> QED BY <3>1, <3>2
    <2> QED BY <1>5, <2>1, <2>2, Fetched DEF Connect, StreamInv, server
  <1>6. CASE Subscribe
    BY <1>6 DEF Subscribe, StreamInv, server, page
  <1>7. CASE ReplayOne
    <2>1. /\ Head(replay) \in 1..newest /\ Tail(replay) \in Seq(1..newest)
          /\ Len(Tail(replay)) <= ReplayLimit
      BY <1>7, HeadTailProperties DEF ReplayOne, StreamInv
    <2>2. /\ cursor' \in 1..newest /\ answers' \subseteq 0..newest
          /\ replay' = Tail(replay) /\ conn = "open"
          /\ UNCHANGED <<newest, limbo, ready, conn, queue, taken, view, shown, breaks, lost>>
      BY <1>7, <2>1, Fetched DEF ReplayOne, Receives, server
    <2> QED BY <2>1, <2>2 DEF StreamInv
  <1>8. CASE DeliverOne
    <2>1. /\ Head(queue) \in 1..newest /\ Tail(queue) \in Seq(1..newest)
          /\ Len(Tail(queue)) <= QueueSize
      BY <1>8, HeadTailProperties DEF DeliverOne, StreamInv
    <2> QED BY SMTT(20), <1>8, <2>1, Fetched DEF DeliverOne, Receives, StreamInv, server
  <1>9. CASE Break
    <2>1. /\ <<>> \in Seq(1..newest) /\ Len(<<>>) = 0
      BY EmptySeq
    <2>2. limbo' \subseteq 1..newest /\ ready' \in Seq(1..newest)
      BY <1>9, <2>1 DEF Break, StreamInv
    <2>3. /\ conn' = "closed" /\ replay' = <<>> /\ queue' = <<>> /\ breaks' = breaks + 1
          /\ UNCHANGED <<newest, cursor, taken, answers, view, shown, lost>>
      BY <1>9 DEF Break, page
    <2> QED BY SMTT(20), <2>1, <2>2, <2>3 DEF StreamInv
  <1>10. ASSUME NEW v \in answers, Answer(v) \/ FetchFails(v) PROVE StreamInv'
    <2>1. /\ answers' = answers \ {v} /\ v \in 0..newest /\ newest \in Nat
          /\ UNCHANGED <<newest, limbo, ready, conn, replay, queue, cursor, taken, breaks>>
      BY <1>10 DEF Answer, FetchFails, StreamInv, server, stream
    <2>2. /\ view' \in 0..newest /\ shown' \in 0..newest /\ view' <= shown' /\ lost' \in Nat
      <3>1. view \in 0..newest /\ shown \in 0..newest /\ view <= shown /\ lost \in Nat
        BY DEF StreamInv
      <3>2. CASE Answer(v)
        BY <2>1, <3>1, <3>2 DEF Answer
      <3>3. CASE FetchFails(v)
        BY <3>1, <3>3 DEF FetchFails
      <3> QED BY <1>10, <3>2, <3>3
    <2> QED BY <2>1, <2>2 DEF StreamInv
  <1>11. CASE Poll
    BY <1>11, Fetched DEF Poll, StreamInv, server, stream
  <1>12. CASE UNCHANGED streamVars
    BY <1>12 DEF streamVars, server, stream, page, StreamInv
  <1> QED BY <1>1, <1>2, <1>3, <1>4, <1>5, <1>6, <1>7, <1>8, <1>9, <1>10, <1>11, <1>12
          DEF StreamNext, AnswerSome

LEMMA StreamTypes == StreamInv => StreamTypeOK
  <1> SUFFICES ASSUME StreamInv PROVE StreamTypeOK
    OBVIOUS
  <1>1. \A s \in Seq(1..newest) : Range(s) \subseteq 1..newest
    BY ElementOfSeq, LenProperties DEF Range
  <1> QED BY <1>1 DEF StreamInv, StreamTypeOK

\* The variables of the stream and of the page keep their types.
THEOREM StreamTypeCorrect == StreamSpec => []StreamTypeOK
  BY StreamInvStart, StreamInvStep, StreamTypes, PTL DEF StreamSpec

-----------------------------------------------------------------------------

Coming(n) == shown >= n \/ (\E v \in answers : v >= n) \/ queue # <<>>

LEMMA ShownOrComingStep ==
    StreamInv /\ StreamInv' /\ ShownOrComing /\ [StreamNext]_streamVars => ShownOrComing'
  <1> SUFFICES ASSUME StreamInv, StreamInv', ShownOrComing, [StreamNext]_streamVars,
                      conn' = "live", lost' = 0, NEW n \in taken'
               PROVE  Coming(n)'
    BY DEF ShownOrComing, Coming
  <1>1. n \in Nat /\ newest \in Nat /\ newest' \in Nat
    BY DEF StreamInv
  <1> USE StreamAssumption
  \* What was on its way still is when nothing of it is taken away.
  <1>2. ASSUME n \in taken, conn = "live", lost = 0,
               shown' = shown, answers \subseteq answers', queue' # <<>> \/ queue' = queue
        PROVE  Coming(n)'
    BY <1>2 DEF ShownOrComing, Coming
  \* A fetch that starts now carries all that was broadcast.
  <1>3. ASSUME Fetch, newest' = newest PROVE Coming(n)'
    <2>1. newest \in answers' /\ newest >= n
      BY <1>1, <1>3 DEF Fetch, StreamInv
    <2> QED BY <2>1 DEF Coming
  <1>4. CASE Emit \/ Insert \/ \E m \in limbo : Schedule(m)
    BY <1>2, <1>4 DEF Emit, Insert, Schedule, stream, page
  <1>5. CASE Broadcast
    <2>1. Enqueue(Head(ready)) # <<>>
      <3>1. Append(queue, Head(ready)) # <<>>
        <4>1. Head(ready) \in 1..newest
          BY <1>5, HeadTailProperties DEF Broadcast, StreamInv
        <4>2. Len(Append(queue, Head(ready))) = Len(queue) + 1 /\ Len(queue) \in Nat
          BY <4>1, LenProperties DEF StreamInv
        <4> QED BY <4>2
      <3>2. Len(queue) >= QueueSize => queue # <<>>
        BY EmptySeq
      <3> QED BY <3>1, <3>2 DEF Enqueue
    <2> QED BY <1>5, <2>1 DEF Broadcast, Coming
  <1>6. CASE Connect \/ Break
    BY <1>6 DEF Connect, Break
  <1>7. CASE Subscribe
    BY <1>7 DEF Subscribe, StreamInv
  <1>8. CASE ReplayOne
    BY <1>8 DEF ReplayOne
  <1>9. CASE DeliverOne \/ Poll
    BY <1>3, <1>9 DEF DeliverOne, Poll, Receives, server
  <1>10. ASSUME NEW v \in answers, Answer(v) PROVE Coming(n)'
    <2>1. shown' >= v /\ shown' >= shown /\ v \in Nat /\ shown \in Nat /\ shown' \in Nat
      BY <1>1, <1>10 DEF Answer, StreamInv
    <2>2. Coming(n) /\ UNCHANGED queue
      BY <1>10 DEF Answer, stream, ShownOrComing, Coming
    <2>3. CASE shown >= n \/ v >= n
      BY <1>1, <2>1, <2>3 DEF Coming
    <2>4. CASE \E u \in answers : u >= n /\ u # v
      BY <1>10, <2>4 DEF Answer, Coming
    <2>5. CASE queue # <<>>
      BY <2>2, <2>5 DEF Coming
    <2> QED BY <2>2, <2>3, <2>4, <2>5 DEF Coming
  <1>11. ASSUME NEW v \in answers, FetchFails(v) PROVE Coming(n)'
    BY <1>11 DEF FetchFails, StreamInv
  <1>12. CASE UNCHANGED streamVars
    BY <1>2, <1>12 DEF streamVars, server, stream, page
  <1> QED BY <1>4, <1>5, <1>6, <1>7, <1>8, <1>9, <1>10, <1>11, <1>12
          DEF StreamNext, AnswerSome

\* Of every event broadcast to a live stream the page has shown the change, or
\* a fetch that carries it or a message that makes it fetch is on the way: a
\* full queue and threads that overtake each other cost the page nothing.
THEOREM NothingBroadcastIsLost == StreamSpec => []ShownOrComing
  <1>1. StreamInit => ShownOrComing
    BY DEF StreamInit, ShownOrComing
  <1> QED BY <1>1, StreamInvStart, StreamInvStep, ShownOrComingStep, PTL DEF StreamSpec
=============================================================================
