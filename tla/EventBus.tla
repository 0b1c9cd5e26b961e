------------------------------ MODULE EventBus ------------------------------
(***************************************************************************)
(* The in-memory event bus: publishers on worker threads, streams whose    *)
(* queues belong to the event loop, and synchronous listeners.             *)
(*                                                                         *)
(* An event is the number it gets when publish appends it, so the order of *)
(* publication is the order of the numbers.                                *)
(***************************************************************************)
EXTENDS Naturals, Sequences, SequencesExt, Subsequences

CONSTANTS
  Publishers,   \* threads that publish, one event at a time
  Streams,      \* SSE responses and WebSockets, each with a queue of its own
  Listeners,    \* synchronous listeners
  Types,        \* event types
  Capacity,     \* of a stream's queue
  History,      \* how many recent events are kept
  MaxEvents,    \* bound on publications
  MaxListening  \* bound on subscriptions and unsubscriptions of listeners

None == "NONE"
General == "GENERAL"   \* the list of the listeners to every type

ASSUME BusAssumption ==
  /\ {Capacity, History} \subseteq Nat \ {0} /\ {MaxEvents, MaxListening} \subseteq Nat
  /\ None \notin Publishers /\ General \notin Types

VARIABLES
  lock,        \* the publisher that holds the bus's lock, or None
  published,   \* events published so far
  recent,      \* _recent_events
  subscribers, \* streams whose queue is registered
  handed,      \* _deliver callbacks of the event loop, in its order
  queue,       \* stream -> its queue
  stream,      \* stream -> its stage and, with since, the event it began after
  seen,        \* stream -> the events sent to its client
  loop,        \* "running" or "closed"
  listeners,   \* General and each type that was subscribed to -> a list
  told,        \* listener -> the events it was called with
  pub,         \* publisher -> its local variables
  asked        \* subscriptions and unsubscriptions of listeners so far

vars == <<lock, published, recent, subscribers, handed, queue, stream, seen, loop,
          listeners, told, pub, asked>>

streamVars == <<queue, stream, seen, loop>>
callVars   == <<listeners, told, asked>>

\* todo: the subscribers still to serve; dead: those to forget; targets: the
\* listeners there were, and call: those still to call.
Idle == [pc |-> "idle", event |-> 0, todo |-> {}, dead |-> {}, targets |-> <<>>, call |-> <<>>]

Free == lock = None

-----------------------------------------------------------------------------
(* publish *)
Targets(type) ==
  listeners[General] \o (IF type \in DOMAIN listeners THEN listeners[type] ELSE <<>>)

\* Mutant: the event is remembered and served without the lock.
EnterUnlocked(t, type) == pub[t].pc = "idle" /\ lock' = lock

Enter(t, type) == pub[t].pc = "idle" /\ Free /\ lock' = t

\* Mutant: the oldest events are kept.
RememberFirst(events, e) == IF Len(events) < History THEN Append(events, e) ELSE events

Remember(events, e) ==
  IF Len(events) < History THEN Append(events, e) ELSE Append(Tail(events), e)

Publish(t, type) ==
  /\ published < MaxEvents
  /\ Enter(t, type)
  /\ published' = published + 1
  /\ recent' = Remember(recent, published')
  /\ pub' = [pub EXCEPT ![t] = [Idle EXCEPT !.pc = "serving", !.event = published',
                                  !.todo = subscribers, !.targets = Targets(type),
                                  !.call = Targets(type)]]
  /\ UNCHANGED <<subscribers, handed, streamVars, callVars>>

\* A queue whose loop is closed is forgotten, whether is_closed says so or
\* call_soon_threadsafe raises.
Serve(t, s) ==
  /\ pub[t].pc = "serving" /\ s \in pub[t].todo
  /\ IF loop = "closed"
     THEN /\ pub' = [pub EXCEPT ![t].todo = @ \ {s}, ![t].dead = @ \cup {s}]
          /\ UNCHANGED handed
     ELSE /\ pub' = [pub EXCEPT ![t].todo = @ \ {s}]
          /\ handed' = Append(handed, [to |-> s, event |-> pub[t].event])
  /\ UNCHANGED <<lock, published, recent, subscribers, streamVars, callVars>>

Release(t) ==
  /\ pub[t].pc = "serving" /\ pub[t].todo = {}
  /\ lock' = None
  /\ subscribers' = subscribers \ pub[t].dead
  /\ pub' = [pub EXCEPT ![t].pc = "calling"]
  /\ UNCHANGED <<published, recent, handed, streamVars, callVars>>

\* A listener that raises is logged: what it did with the event is done.
\* Mutant: one that raises ends the calls.
CallUntilError(t, raises) ==
  LET l == Head(pub[t].call)
  IN  /\ pub[t].pc = "calling" /\ pub[t].call # <<>>
      /\ told' = [told EXCEPT ![l] = @ \cup {pub[t].event}]
      /\ pub' = [pub EXCEPT ![t].call = IF raises THEN <<>> ELSE Tail(@)]
      /\ UNCHANGED <<lock, published, recent, subscribers, handed, streamVars, listeners, asked>>

Call(t, raises) ==
  LET l == Head(pub[t].call)
  IN  /\ pub[t].pc = "calling" /\ pub[t].call # <<>>
      /\ told' = [told EXCEPT ![l] = @ \cup {pub[t].event}]
      /\ pub' = [pub EXCEPT ![t].call = Tail(@)]
      /\ UNCHANGED <<lock, published, recent, subscribers, handed, streamVars, listeners, asked>>

Return(t) ==
  /\ pub[t].pc = "calling" /\ pub[t].call = <<>>
  /\ pub' = [pub EXCEPT ![t] = Idle]
  /\ UNCHANGED <<lock, published, recent, subscribers, handed, streamVars, callVars>>

-----------------------------------------------------------------------------
(* subscribe and unsubscribe of listeners *)
Listening(new) ==
  /\ Free /\ asked < MaxListening /\ asked' = asked + 1
  /\ listeners' = new
  /\ UNCHANGED <<lock, published, recent, subscribers, handed, streamVars, told, pub>>

Listen(l, type) ==
  LET old == IF type \in DOMAIN listeners THEN listeners[type] ELSE <<>>
  IN  Listening([k \in DOMAIN listeners \cup {type} |->
                   IF k = type THEN Append(old, l) ELSE listeners[k]])

\* With a type nobody has subscribed to, it is the general list that loses l.
Unlisten(l, type) ==
  LET list == IF type \in DOMAIN listeners THEN type ELSE General
  IN  Listening([listeners EXCEPT ![list] = Pick(@, {i \in DOMAIN @ : @[i] # l})])

-----------------------------------------------------------------------------
(* A stream: its client is told that it is connected before its queue is    *)
(* registered; _deliver and the stream itself run on the event loop.        *)
Connect(s) ==
  /\ loop = "running" /\ stream[s].stage = "none"
  /\ stream' = [stream EXCEPT ![s].stage = "connected"]
  /\ UNCHANGED <<lock, published, recent, subscribers, handed, queue, seen, loop, callVars, pub>>

Register(s) ==
  /\ loop = "running" /\ Free /\ stream[s].stage = "connected"
  /\ subscribers' = subscribers \cup {s}
  /\ stream' = [stream EXCEPT ![s] = [stage |-> "streaming", since |-> published]]
  /\ UNCHANGED <<lock, published, recent, handed, queue, seen, loop, callVars, pub>>

\* Mutant: a full queue keeps what it has.
PutDroppingNewest(q, e) == IF Len(q) = Capacity THEN q ELSE Append(q, e)

\* Mutant: the queue is never full.
PutUnbounded(q, e) == Append(q, e)

Put(q, e) == IF Len(q) = Capacity THEN Append(Tail(q), e) ELSE Append(q, e)

Deliver ==
  /\ loop = "running" /\ handed # <<>>
  /\ LET call == Head(handed)
     IN  queue' = [queue EXCEPT ![call.to] = Put(@, call.event)]
  /\ handed' = Tail(handed)
  /\ UNCHANGED <<lock, published, recent, subscribers, stream, seen, loop, callVars, pub>>

Send(s) ==
  /\ loop = "running" /\ stream[s].stage = "streaming" /\ queue[s] # <<>>
  /\ seen' = [seen EXCEPT ![s] = Append(@, Head(queue[s]))]
  /\ queue' = [queue EXCEPT ![s] = Tail(@)]
  /\ UNCHANGED <<lock, published, recent, subscribers, handed, stream, loop, callVars, pub>>

\* The client goes away: the generator is cancelled, or, of a WebSocket, left
\* by the exception of a send and closed when it is collected.
Disconnect(s) ==
  /\ loop = "running" /\ stream[s].stage \in {"connected", "streaming"}
  /\ stream' = [stream EXCEPT ![s].stage = IF @ = "connected" THEN "gone" ELSE "leaving"]
  /\ UNCHANGED <<lock, published, recent, subscribers, handed, queue, seen, loop, callVars, pub>>

Unregister(s) ==
  /\ loop = "running" /\ Free /\ stream[s].stage = "leaving"
  /\ subscribers' = subscribers \ {s}
  /\ stream' = [stream EXCEPT ![s].stage = "gone"]
  /\ UNCHANGED <<lock, published, recent, handed, queue, seen, loop, callVars, pub>>

\* The server stops: callbacks that have not run never will.
CloseLoop ==
  /\ loop = "running" /\ loop' = "closed" /\ handed' = <<>>
  /\ UNCHANGED <<lock, published, recent, subscribers, queue, stream, seen, callVars, pub>>

-----------------------------------------------------------------------------
Init ==
  /\ lock = None /\ published = 0 /\ recent = <<>>
  /\ subscribers = {} /\ handed = <<>>
  /\ queue = [s \in Streams |-> <<>>] /\ seen = [s \in Streams |-> <<>>]
  /\ stream = [s \in Streams |-> [stage |-> "none", since |-> 0]]
  /\ loop = "running"
  /\ listeners = [k \in {General} |-> <<>>] /\ told = [l \in Listeners |-> {}] /\ asked = 0
  /\ pub = [t \in Publishers |-> Idle]

PublisherStep(t) ==
  \/ \E s \in Streams : Serve(t, s)
  \/ Release(t) \/ Return(t)
  \/ \E raises \in BOOLEAN : Call(t, raises)

StreamStep(s) == Register(s) \/ Send(s) \/ Unregister(s)

Next ==
  \/ \E t \in Publishers : PublisherStep(t) \/ \E type \in Types : Publish(t, type)
  \/ \E s \in Streams : StreamStep(s) \/ Connect(s) \/ Disconnect(s)
  \/ Deliver \/ CloseLoop
  \/ \E l \in Listeners, type \in Types \cup {General} : Listen(l, type) \/ Unlisten(l, type)

Spec == Init /\ [][Next]_vars

-----------------------------------------------------------------------------
\* The type invariant of the bus.
TypeOK ==
  /\ lock \in Publishers \cup {None}
  /\ published \in 0..MaxEvents /\ asked \in 0..MaxListening
  /\ recent \in Seq(1..MaxEvents) /\ Len(recent) <= History
  /\ subscribers \subseteq Streams
  /\ handed \in Seq([to : Streams, event : 1..MaxEvents])
  /\ queue \in [Streams -> Seq(1..MaxEvents)]
  /\ \A s \in Streams : Len(queue[s]) <= Capacity
  /\ seen \in [Streams -> Seq(1..MaxEvents)]
  /\ stream \in [Streams -> [stage : {"none", "connected", "streaming", "leaving", "gone"},
                             since : 0..MaxEvents]]
  /\ loop \in {"running", "closed"}
  /\ General \in DOMAIN listeners /\ DOMAIN listeners \subseteq Types \cup {General}
  /\ \A k \in DOMAIN listeners : listeners[k] \in Seq(Listeners)
  /\ told \in [Listeners -> SUBSET (1..MaxEvents)]
  /\ pub \in [Publishers -> [pc : {"idle", "serving", "calling"}, event : 0..MaxEvents,
                             todo : SUBSET Streams, dead : SUBSET Streams,
                             targets : Seq(Listeners), call : Seq(Listeners)]]

\* What is on its way to a stream: sent, queued, handed to the loop.
Pipeline(s) ==
  LET mine == Pick(handed, {i \in DOMAIN handed : handed[i].to = s})
  IN  seen[s] \o queue[s] \o [i \in DOMAIN mine |-> mine[i].event]

Increasing(events) == \A i, j \in DOMAIN events : i < j => events[i] < events[j]

\* "without duplicate broadcasting": whatever publishers run at once and
\* whatever a full queue dropped, a client is sent the events in the order of
\* the history, each once, and none of before its registration.
InOrder ==
  \A s \in Streams : /\ Increasing(Pipeline(s))
                     /\ \A i \in DOMAIN Pipeline(s) : Pipeline(s)[i] > stream[s].since

Unsent(s) ==
  ToSet(queue[s]) \cup {handed[i].event : i \in {j \in DOMAIN handed : handed[j].to = s}}

\* "drop the oldest buffered event and keep the stream alive": what a registered
\* stream has not sent yet are the newest events without a gap, or it has sent
\* the newest; so a slow client misses the middle, never the end.
NewestKept ==
  loop = "running" /\ Free =>
    \A s \in subscribers :
      /\ published > stream[s].since => published \in ToSet(seen[s]) \cup Unsent(s)
      /\ \A e \in Unsent(s) : e..published \subseteq Unsent(s)

\* The history ends with the newest event and has no gap.
HistoryComplete ==
  /\ Len(recent) = IF published < History THEN published ELSE History
  /\ \A i \in DOMAIN recent : recent[i] = published - Len(recent) + i

\* A listener that raises keeps no other from the event: a publication calls
\* every listener it found, also one that was unsubscribed in the meantime.
EveryListenerTold ==
  \A t \in Publishers : pub[t].pc = "calling" /\ pub[t].call = <<>> =>
    \A i \in DOMAIN pub[t].targets : pub[t].event \in told[pub[t].targets[i]]
=============================================================================
