---------------------------- MODULE DesignEvents ----------------------------
(***************************************************************************)
(* designs/events.py and GET /designs/{id}/events, for one design: worker  *)
(* threads publish into asyncio queues, and one coroutine per open stream  *)
(* takes the events out and sends them.  An asyncio.Queue is not meant for *)
(* threads: put_nowait appends and then resolves the getter's future, but  *)
(* from a worker thread that does not wake the event loop's selector, and  *)
(* it may fall between the coroutine's empty() test and the registration   *)
(* of its getter.  What rescues both is the 15 s timeout around get(),     *)
(* there for keep-alive pings.                                             *)
(***************************************************************************)
EXTENDS Naturals, Sequences, FiniteSets

CONSTANTS
    Streams,      \* the event streams browsers may open
    Threads,      \* worker threads saving or deleting the design
    NoStream,
    MaxEvents     \* bound: events published

ASSUME EventsAssumption ==
    NoStream \notin Streams /\ MaxEvents \in Nat

VARIABLES
    subs,         \* DesignEventBus._subs[id]: the queues subscribed
    queue,        \* the events in each queue
    getter,       \* the future its coroutine sleeps on
    at,           \* where the coroutine is
    held,         \* the event it took out and is about to send
    client,       \* the browser's end of the connection
    sent,         \* history: what the browser received
    todo,         \* the queues a publish() has still to reach
    waking,       \* the queue it appended to and has not woken yet
    carries,      \* the event it publishes
    published,    \* history: events published so far
    owed          \* history: events published since each stream subscribed

loopVars == <<subs, getter, at, held, client, sent>>
threadVars == <<todo, waking, carries, published, owed>>
vars == <<subs, queue, getter, at, held, client, sent, todo, waking, carries,
          published, owed>>

Events == 1..MaxEvents
Running == {"check", "get", "register", "asleep", "send"}

TypeOK ==
    /\ subs \subseteq Streams
    /\ queue \in [Streams -> Seq(Events)]
    /\ getter \in [Streams -> {"none", "pending", "resolved"}]
    /\ at \in [Streams -> {"unopened", "subscribed", "finally", "closed"}
                          \cup Running]
    /\ held \in [Streams -> Seq(Events)]
    /\ \A s \in Streams : /\ held[s] # <<>> <=> at[s] = "send"
                          /\ getter[s] # "none" <=> at[s] = "asleep"
    /\ client \in [Streams -> {"away", "connected", "gone"}]
    /\ sent \in [Streams -> Seq(Events)]
    /\ todo \in [Threads -> SUBSET Streams]
    /\ waking \in [Threads -> Streams \cup {NoStream}]
    /\ carries \in [Threads -> 0..MaxEvents]
    /\ published \in 0..MaxEvents
    /\ owed \in [Streams -> SUBSET Events]

Init ==
    /\ subs = {}
    /\ queue = [s \in Streams |-> <<>>]
    /\ getter = [s \in Streams |-> "none"]
    /\ at = [s \in Streams |-> "unopened"]
    /\ held = [s \in Streams |-> <<>>]
    /\ client = [s \in Streams |-> "away"]
    /\ sent = [s \in Streams |-> <<>>]
    /\ todo = [t \in Threads |-> {}]
    /\ waking = [t \in Threads |-> NoStream]
    /\ carries = [t \in Threads |-> 0]
    /\ published = 0
    /\ owed = [s \in Streams |-> {}]

-----------------------------------------------------------------------------
(* publish(), on a worker thread.                                          *)

\* The loop runs over a copy of the subscriber set.
Publish(t) ==
    /\ todo[t] = {} /\ waking[t] = NoStream
    /\ published < MaxEvents
    /\ published' = published + 1
    /\ carries' = [carries EXCEPT ![t] = published + 1]
    /\ todo' = [todo EXCEPT ![t] = subs]
    /\ owed' = [s \in Streams |->
                  IF s \in subs THEN owed[s] \cup {published + 1} ELSE owed[s]]
    /\ UNCHANGED <<queue, loopVars, waking>>

\* put_nowait appends ...
PutNowait(t, s) ==
    /\ s \in todo[t] /\ waking[t] = NoStream
    /\ queue' = [queue EXCEPT ![s] = Append(@, carries[t])]
    /\ waking' = [waking EXCEPT ![t] = s]
    /\ todo' = [todo EXCEPT ![t] = @ \ {s}]
    /\ UNCHANGED <<loopVars, carries, published, owed>>

\* ... and resolves the getter, if one is registered.
WakeGetter(t) ==
    /\ waking[t] # NoStream
    /\ getter' = [getter EXCEPT ![waking[t]] =
                    IF @ = "pending" THEN "resolved" ELSE @]
    /\ waking' = [waking EXCEPT ![t] = NoStream]
    /\ UNCHANGED <<subs, queue, at, held, client, sent, todo, carries,
                   published, owed>>

-----------------------------------------------------------------------------
(* The stream's coroutine, on the event loop.                              *)

\* design_events subscribes, then returns the response.
Subscribe(s) ==
    /\ at[s] = "unopened"
    /\ subs' = subs \cup {s}
    /\ at' = [at EXCEPT ![s] = "subscribed"]
    /\ client' = [client EXCEPT ![s] = "connected"]
    /\ UNCHANGED <<queue, getter, held, sent, threadVars>>

Goto(s, step) == at' = [at EXCEPT ![s] = step]

\* The generator's first step: the "hello" event, then the loop.
Start(s) ==
    /\ at[s] = "subscribed"
    /\ Goto(s, "check")
    /\ UNCHANGED <<subs, queue, getter, held, client, sent, threadVars>>

\* The response is cancelled before its body is iterated: a generator that
\* was never started does not run its finally clause.
NeverStarts(s) ==
    /\ at[s] = "subscribed" /\ client[s] = "gone"
    /\ Goto(s, "closed")
    /\ UNCHANGED <<subs, queue, getter, held, client, sent, threadVars>>

\* if await request.is_disconnected(): return
CheckDisconnected(s) ==
    /\ at[s] = "check"
    /\ Goto(s, IF client[s] = "gone" THEN "finally" ELSE "get")
    /\ UNCHANGED <<subs, queue, getter, held, client, sent, threadVars>>

\* Queue.get(): take the head, or find the queue empty ...
GetHead(s) ==
    /\ at[s] = "get" /\ queue[s] # <<>>
    /\ held' = [held EXCEPT ![s] = <<Head(queue[s])>>]
    /\ queue' = [queue EXCEPT ![s] = Tail(@)]
    /\ Goto(s, "send")
    /\ UNCHANGED <<subs, getter, client, sent, threadVars>>

FindEmpty(s) ==
    /\ at[s] = "get" /\ queue[s] = <<>>
    /\ Goto(s, "register")
    /\ UNCHANGED <<subs, queue, getter, held, client, sent, threadVars>>

\* ... and register a future to sleep on.
RegisterGetter(s) ==
    /\ at[s] = "register"
    /\ getter' = [getter EXCEPT ![s] = "pending"]
    /\ Goto(s, "asleep")
    /\ UNCHANGED <<subs, queue, held, client, sent, threadVars>>

\* The future is resolved and something else has woken the loop.
Resume(s) ==
    /\ at[s] = "asleep" /\ getter[s] = "resolved"
    /\ getter' = [getter EXCEPT ![s] = "none"]
    /\ Goto(s, "get")
    /\ UNCHANGED <<subs, queue, held, client, sent, threadVars>>

Timeout_Never(s) == at[s] = "asleep" /\ FALSE /\ UNCHANGED vars
Timeout_Drops(s) ==
    /\ at[s] = "asleep"
    /\ getter' = [getter EXCEPT ![s] = "none"]
    /\ queue' = [queue EXCEPT ![s] = IF @ = <<>> THEN @ ELSE Tail(@)]
    /\ Goto(s, "check")
    /\ UNCHANGED <<subs, held, client, sent, threadVars>>

\* wait_for's timer cancels the get; an event that came meanwhile stays in
\* the queue.  The ": ping" is not an event.
Timeout(s) ==
    /\ at[s] = "asleep"
    /\ getter' = [getter EXCEPT ![s] = "none"]
    /\ Goto(s, "check")
    /\ UNCHANGED <<subs, queue, held, client, sent, threadVars>>

Send(s) ==
    /\ at[s] = "send"
    /\ sent' = [sent EXCEPT ![s] = IF client[s] = "gone" THEN @ ELSE @ \o held[s]]
    /\ held' = [held EXCEPT ![s] = <<>>]
    /\ Goto(s, "check")
    /\ UNCHANGED <<subs, queue, getter, client, threadVars>>

\* The server cancels the response of a client that has gone, at an await.
Cancel(s) ==
    /\ client[s] = "gone" /\ at[s] \in {"check", "asleep", "send"}
    /\ getter' = [getter EXCEPT ![s] = "none"]
    /\ held' = [held EXCEPT ![s] = <<>>]
    /\ Goto(s, "finally")
    /\ UNCHANGED <<subs, queue, client, sent, threadVars>>

\* finally: bus.unsubscribe(design_id, queue)
Unsubscribed(s) == subs \ {s}

Finally(s) ==
    /\ at[s] = "finally"
    /\ subs' = Unsubscribed(s)
    /\ Goto(s, "closed")
    /\ UNCHANGED <<queue, getter, held, client, sent, threadVars>>

Disconnect(s) ==
    /\ client[s] = "connected"
    /\ client' = [client EXCEPT ![s] = "gone"]
    /\ UNCHANGED <<subs, queue, getter, at, held, sent, threadVars>>

-----------------------------------------------------------------------------
\* What the event loop runs by itself.
LoopStep(s) ==
    \/ Start(s) \/ NeverStarts(s) \/ CheckDisconnected(s) \/ GetHead(s)
    \/ FindEmpty(s) \/ RegisterGetter(s) \/ Timeout(s) \/ Send(s) \/ Finally(s)

Next ==
    \/ \E t \in Threads : \/ Publish(t) \/ WakeGetter(t)
                          \/ \E s \in Streams : PutNowait(t, s)
    \/ \E s \in Streams : LoopStep(s) \/ Subscribe(s) \/ Resume(s) \/ Cancel(s)
                          \/ Disconnect(s)

Spec == Init /\ [][Next]_vars

\* A publishing thread finishes its loop; the event loop runs what is ready
\* and its timers.  Nothing promises that a future resolved by a thread is
\* noticed before the timer (no fairness for Resume), that the server cancels
\* a response, or that anyone connects.
FairSpec ==
    /\ Spec
    /\ \A t \in Threads : /\ WF_vars(WakeGetter(t))
                          /\ WF_vars(\E s \in Streams : PutNowait(t, s))
    /\ \A s \in Streams : WF_vars(LoopStep(s))

-----------------------------------------------------------------------------
(* Properties *)

\* events.py:41 an open stream sends what was put into its queue, each event
\* once: what a thread published since the stream subscribed has been sent, is
\* held, is queued, or is still on its way in some publish().  Lost wakeups
\* and timeouts drop and duplicate nothing.
Occurrences(s, e) ==
    Cardinality({n \in 1..Len(sent[s]) : sent[s][n] = e})
    + Cardinality({n \in 1..Len(held[s]) : held[s][n] = e})
    + Cardinality({n \in 1..Len(queue[s]) : queue[s][n] = e})
    + Cardinality({t \in Threads : carries[t] = e /\ s \in todo[t]})

NothingLostOrTwice ==
    \A s \in Streams : client[s] = "connected" =>
        \A e \in owed[s] : Occurrences(s, e) = 1

\* The type invariant, with the getter and the queue agreeing, and nothing is
\* lost or sent twice.
StreamsSound == TypeOK /\ NothingLostOrTwice

\* app.py:1342 "any save or delete ... emits a `saved` or `deleted` event": a
\* connected browser receives every event published since it subscribed, even
\* when the event's wakeup is lost.
EventDelivered ==
    \A s \in Streams, e \in Events :
        e \in owed[s] ~> \/ client[s] = "gone"
                         \/ \E n \in 1..Len(sent[s]) : sent[s][n] = e

\* app.py:1383 a stream whose generator has started leaves the bus once its
\* browser has gone.
StartedStreamLeaves ==
    \A s \in Streams :
        client[s] = "gone" /\ at[s] \in Running ~> s \notin subs

\* What a stream owes: to the browser its events, to the bus its queue.
StreamsServe == EventDelivered /\ StartedStreamLeaves

-----------------------------------------------------------------------------
(* What the documentation says and the code does not keep: TLC finds a      *)
(* behaviour against each (README.md, "Refuted claims").                    *)

\* events.py:45 "a slow consumer can grow memory until they disconnect": after
\* a disconnect no queue is left behind to grow.
QueueFreedOnDisconnect ==
    \A s \in Streams : client[s] = "gone" ~> s \notin subs
=============================================================================
