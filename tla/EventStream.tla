---------------------------- MODULE EventStream ----------------------------
(***************************************************************************)
(* How a change in the daemon reaches the dashboard: EventHub (core/hub.py) *)
(* appends it to the events table and hands it to the event loop, which    *)
(* puts it into the queue of a connected stream (GET /stream in            *)
(* api/routes.py); the page (ui/src/App.jsx) refetches on every message.   *)
(* An id stands for an event and for the change it reports.                *)
(*                                                                         *)
(* Events come from the loop and from the threads that serve requests;     *)
(* a stream breaks at any time, its queue can be full, and the answers to  *)
(* two fetches can overtake each other or be lost.                         *)
(***************************************************************************)
EXTENDS Integers, Sequences, FiniteSets, Functions

CONSTANTS
    QueueSize,      \* of a subscriber's queue (1000)
    ReplayLimit,    \* of replay_since (500)
    MaxEvents, MaxBreaks, MaxFetches, MaxLost   \* bounds

ASSUME StreamAssumption ==
    /\ {QueueSize, ReplayLimit} \subseteq Nat \ {0}
    /\ {MaxEvents, MaxBreaks, MaxFetches, MaxLost} \subseteq Nat

VARIABLES
    newest,    \* last id of the events table
    limbo,     \* ids a thread inserted and has not handed to the loop
    ready,     \* ids handed to the loop: _broadcast calls to come
    conn,      \* the stream: "closed" | "open" | "live" (subscribed)
    replay,    \* what is left of replay_since
    queue,     \* the subscriber's queue
    cursor,    \* the id the browser would send as Last-Event-ID, 0: none
    answers,   \* fetches under way: the newest id each has read
    view,      \* the newest id in the state on the page ...
    shown,     \* ... and the newest it ever had
    taken,     \* ids broadcast to the stream since it opened
    breaks, lost

server == <<newest, limbo, ready>>
stream == <<conn, replay, queue, cursor, taken>>
page == <<answers, view, shown>>
streamVars == <<server, stream, page, breaks, lost>>

StreamInit ==
    /\ newest = 0 /\ limbo = {} /\ ready = <<>>
    /\ conn = "closed" /\ replay = <<>> /\ queue = <<>> /\ cursor = 0
    /\ answers = {} /\ view = 0 /\ shown = 0 /\ taken = {}
    /\ breaks = 0 /\ lost = 0

-----------------------------------------------------------------------------
(* EventHub.                                                               *)

NewId == newest + 1

\* emit() on the loop: the callback is behind those already scheduled.  An event
\* whose job is gone meanwhile is kept without it and broadcast all the same.
Emit ==
    /\ newest < MaxEvents
    /\ newest' = NewId
    /\ ready' = Append(ready, NewId)
    /\ UNCHANGED <<limbo, stream, page, breaks, lost>>

\* emit() on another thread: the row first ...
Insert ==
    /\ newest < MaxEvents
    /\ newest' = NewId
    /\ limbo' = limbo \cup {NewId}
    /\ UNCHANGED <<ready, stream, page, breaks, lost>>
\* ... then call_soon_threadsafe, in whatever order the threads get there.
Schedule(n) ==
    /\ n \in limbo
    /\ limbo' = limbo \ {n}
    /\ ready' = Append(ready, n)
    /\ UNCHANGED <<newest, stream, page, breaks, lost>>

\* A full queue drops the event rather than blocking the daemon.  Mutants: it
\* drops what it holds, or takes one more.
MutEnqueueFlush(n) == IF Len(queue) >= QueueSize THEN <<>> ELSE Append(queue, n)
MutEnqueueMore(n) == IF Len(queue) > QueueSize THEN queue ELSE Append(queue, n)
Enqueue(n) == IF Len(queue) >= QueueSize THEN queue ELSE Append(queue, n)

\* _broadcast: nobody is told but a subscriber.
Broadcast ==
    /\ ready # <<>>
    /\ ready' = Tail(ready)
    /\ IF conn = "live"
       THEN /\ queue' = Enqueue(Head(ready))
            /\ taken' = taken \cup {Head(ready)}
       ELSE UNCHANGED <<queue, taken>>
    /\ UNCHANGED <<newest, limbo, conn, replay, cursor, page, breaks, lost>>

-----------------------------------------------------------------------------
(* The stream and the page.                                                *)

\* reload(): the answer carries the state of now or later.
Fetch == answers' = answers \cup {newest}
Fetches == Cardinality(answers) < MaxFetches \/ newest \in answers

\* replay_since: what the table has after n, the first ReplayLimit of it.
ReplaySince(n) ==
    [i \in 1..(IF newest - n < ReplayLimit THEN newest - n ELSE ReplayLimit) |-> n + i]

\* The browser connects again and sends its last id, or the page makes a new
\* source that has none; it reloads as the stream opens.
Connect ==
    /\ conn = "closed" /\ Fetches
    /\ conn' = "open"
    /\ cursor' \in {cursor, 0}
    /\ replay' = IF cursor' = 0 THEN <<>> ELSE ReplaySince(cursor')
    /\ taken' = {}
    /\ Fetch
    /\ UNCHANGED <<server, queue, view, shown, breaks, lost>>

Subscribe ==
    /\ conn = "open" /\ replay = <<>>
    /\ conn' = "live"
    /\ UNCHANGED <<server, replay, queue, cursor, taken, page, breaks, lost>>

\* onmessage: the browser keeps the id, the page reloads.
Receives(n) ==
    /\ Fetches
    /\ cursor' = n
    /\ Fetch
ReplayOne ==
    /\ conn = "open" /\ replay # <<>>
    /\ Receives(Head(replay))
    /\ replay' = Tail(replay)
    /\ UNCHANGED <<server, conn, queue, taken, view, shown, breaks, lost>>
DeliverOne ==
    /\ conn = "live" /\ queue # <<>>
    /\ Receives(Head(queue))
    /\ queue' = Tail(queue)
    /\ UNCHANGED <<server, conn, replay, taken, view, shown, breaks, lost>>

\* The connection drops, or the daemon restarts: the events on the way to the
\* queue and in it are gone, the table is not.
Break ==
    /\ conn # "closed" /\ breaks < MaxBreaks
    /\ breaks' = breaks + 1
    /\ conn' = "closed" /\ replay' = <<>> /\ queue' = <<>>
    /\ \/ UNCHANGED <<limbo, ready>>
       \/ limbo' = {} /\ ready' = <<>>
    /\ UNCHANGED <<newest, cursor, taken, page, lost>>

\* An answer arrives, in any order, and becomes the state of the page; or the
\* fetch fails and the page keeps what it has.
Answer(v) ==
    /\ v \in answers
    /\ answers' = answers \ {v}
    /\ view' = v
    /\ shown' = IF v > shown THEN v ELSE shown
    /\ UNCHANGED <<server, stream, breaks, lost>>
FetchFails(v) ==
    /\ v \in answers /\ lost < MaxLost
    /\ lost' = lost + 1
    /\ answers' = answers \ {v}
    /\ UNCHANGED <<server, stream, view, shown, breaks>>

\* Every thirty seconds the page reloads of its own accord.  Mutant: it does not.
MutPoll ==
    /\ conn = "closed" /\ Fetches
    /\ Fetch
    /\ UNCHANGED <<server, stream, view, shown, breaks, lost>>
Poll ==
    /\ Fetches
    /\ Fetch
    /\ UNCHANGED <<server, stream, view, shown, breaks, lost>>

AnswerSome == \E v \in answers : Answer(v) \/ FetchFails(v)
StreamNext ==
    \/ Emit \/ Insert \/ \E n \in limbo : Schedule(n)
    \/ Broadcast
    \/ Connect \/ Subscribe \/ ReplayOne \/ DeliverOne \/ Break
    \/ AnswerSome \/ Poll

\* A fetch is answered or fails, and the page's timer ticks.
StreamSpec ==
    /\ StreamInit /\ [][StreamNext]_streamVars
    /\ WF_streamVars(Poll)
    /\ \A v \in 0..MaxEvents : WF_streamVars(Answer(v) \/ FetchFails(v))

-----------------------------------------------------------------------------
(* Properties.                                                             *)

Ids == 1..MaxEvents

\* The values the variables take.
StreamTypeOK ==
    /\ newest \in 0..MaxEvents
    /\ limbo \subseteq 1..newest /\ taken \subseteq 1..newest
    /\ Range(ready) \cup Range(queue) \cup Range(replay) \subseteq 1..newest
    /\ conn \in {"closed", "open", "live"}
    /\ conn # "open" => replay = <<>>
    /\ conn # "live" => queue = <<>>
    /\ conn = "open" => taken = {}
    /\ Len(queue) <= QueueSize /\ Len(replay) <= ReplayLimit
    /\ {cursor, view, shown} \cup answers \subseteq 0..newest
    /\ view <= shown

\* A drop costs the page nothing: of every event broadcast to a live stream,
\* also one its full queue dropped and one overtaken by another thread's, the
\* page has shown the change, or a fetch that carries it is under way, or
\* another message that makes it fetch is in the queue.
ShownOrComing ==
    (conn = "live" /\ lost = 0) =>
        \A n \in taken : \/ shown >= n
                         \/ \E v \in answers : v >= n
                         \/ queue # <<>>

\* The page catches up: whatever was dropped, missed between the replay and the
\* subscription, or shown in the wrong order, every change is shown in the end.
CatchesUp == \A n \in Ids : newest >= n ~> view >= n
=============================================================================
