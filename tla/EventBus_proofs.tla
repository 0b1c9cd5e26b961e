--------------------------- MODULE EventBus_proofs ----------------------------
(***************************************************************************)
(* The event bus, for any number of publishers, streams and listeners, any *)
(* length of the queues and of the history, and any number of events.      *)
(* First the history, then types, then what is on its way to a stream,     *)
(* then the listeners of a publication.                                    *)
(***************************************************************************)
EXTENDS EventBus, Subsequences_proofs

USE BusAssumption DEF None

\* HistoryComplete is inductive with the types of what it compares.
IInv == published \in Nat /\ recent \in Seq(Nat) /\ HistoryComplete

\* Dropping the oldest event makes room for one more, and the rest moves up.
LEMMA RememberEffect ==
  ASSUME NEW events \in Seq(Nat), NEW e \in Nat,
         Len(events) <= History
  PROVE  LET new == Remember(events, e)
         IN  /\ new \in Seq(Nat)
             /\ Len(new) = IF Len(events) < History THEN Len(events) + 1 ELSE History
             /\ new[Len(new)] = e
             /\ \A i \in 1..(Len(new) - 1) :
                  new[i] = events[i + Len(events) + 1 - Len(new)]
<1>1. CASE Len(events) < History
  BY <1>1 DEF Remember
<1>2. CASE Len(events) = History
  <2>1. events # <<>>
    BY <1>2
  <2>2. /\ Tail(events) \in Seq(Nat) /\ Len(Tail(events)) = Len(events) - 1
        /\ \A i \in 1..(Len(events) - 1) : Tail(events)[i] = events[i + 1]
    BY <2>1
  <2> DEFINE rest == Tail(events)
             n    == Len(events)
  <2>3. /\ rest \in Seq(Nat) /\ Len(rest) = n - 1 /\ n \in Nat /\ n >= 1
        /\ \A i \in 1..(n - 1) : rest[i] = events[i + 1]
        /\ Remember(events, e) = Append(rest, e) /\ History = n
    BY <1>2, <2>1, <2>2 DEF Remember
  <2> HIDE DEF rest, n
  <2>4. /\ Append(rest, e) \in Seq(Nat) /\ Len(Append(rest, e)) = n /\ Append(rest, e)[n] = e
        /\ \A i \in 1..(n - 1) : Append(rest, e)[i] = rest[i]
    BY <2>3
  <2> DEFINE new == Append(rest, e)
  <2>5. /\ new \in Seq(Nat) /\ Len(new) = n /\ new[n] = e
        /\ \A i \in 1..(n - 1) : new[i] = events[i + 1] /\ i + n + 1 - n = i + 1
        /\ Remember(events, e) = new /\ ~(n < History) /\ n = History
    <3>1. \A i \in 1..(n - 1) : i + n + 1 - n = i + 1
      BY <2>3
    <3> QED BY <2>3, <2>4, <3>1
  <2> HIDE DEF new
  <2> QED BY <2>5 DEF n
<1> QED BY <1>1, <1>2

\* The event publish appends is the newest, and publish has the lock.
LEMMA PublishInv ==
  ASSUME IInv, NEW t \in Publishers, NEW type \in Types, Publish(t, type)
  PROVE  IInv'
<1>1. published' = published + 1 /\ recent' = Remember(recent, published')
  BY DEF Publish
<1>2. /\ Len(recent) = IF published < History THEN published ELSE History
      /\ \A i \in 1..Len(recent) : recent[i] = published - Len(recent) + i
  <2>1. DOMAIN recent = 1..Len(recent)
    BY DEF IInv
  <2> QED BY <2>1 DEF IInv, HistoryComplete
<1>3. /\ published \in Nat /\ published' \in Nat
      /\ recent \in Seq(Nat) /\ Len(recent) \in Nat /\ Len(recent) <= History
  BY <1>1, <1>2 DEF IInv
<1>4. /\ recent' \in Seq(Nat)
      /\ Len(recent') = IF Len(recent) < History THEN Len(recent) + 1 ELSE History
      /\ recent'[Len(recent')] = published'
      /\ \A i \in 1..(Len(recent') - 1) :
           recent'[i] = recent[i + Len(recent) + 1 - Len(recent')]
  <2> DEFINE new == Remember(recent, published')
  <2>1. /\ new \in Seq(Nat)
        /\ Len(new) = IF Len(recent) < History THEN Len(recent) + 1 ELSE History
        /\ new[Len(new)] = published'
        /\ \A i \in 1..(Len(new) - 1) : new[i] = recent[i + Len(recent) + 1 - Len(new)]
    BY <1>3, RememberEffect
  <2>2. recent' = new
    BY <1>1
  <2> HIDE DEF new
  <2> QED BY <2>1, <2>2, Zenon
<1>5. Len(recent') = IF published' < History THEN published' ELSE History
  BY <1>1, <1>2, <1>4 DEF IInv
<1>6. ASSUME NEW i \in 1..Len(recent') PROVE recent'[i] = published' - Len(recent') + i
  <2>1. CASE i = Len(recent')
    BY <2>1, <1>3, <1>4
  <2>2. CASE i # Len(recent')
    <3> DEFINE j == i + Len(recent) + 1 - Len(recent')
    <3>1. History \in Nat /\ Len(recent') \in Nat /\ i \in Nat
      BY <1>4
    <3>2. i \in 1..(Len(recent') - 1)
      BY <2>2, <3>1
    <3>3. j \in 1..Len(recent)
      <4>1. Len(recent') \in {Len(recent), Len(recent) + 1} /\ Len(recent) \in Nat
        BY <1>3, <1>4
      <4> HIDE DEF j
      <4>2. j = i + Len(recent) + 1 - Len(recent')
        BY DEF j
      <4> QED BY <3>1, <3>2, <4>1, <4>2
    <3>4. recent'[i] = recent[j] /\ recent[j] = published - Len(recent) + j
      BY <3>2, <3>3, <1>2, <1>4
    <3> QED BY <3>1, <3>4, <1>1, <1>3
  <2> QED BY <2>1, <2>2
<1>7. DOMAIN recent' = 1..Len(recent')
  BY <1>4
<1> QED BY <1>3, <1>4, <1>5, <1>6, <1>7 DEF IInv, HistoryComplete

\* Nobody else writes the history.
LEMMA OtherInv ==
  ASSUME IInv, UNCHANGED <<published, recent>>
  PROVE  IInv'
  BY DEF IInv, HistoryComplete

\* recent_events and the history endpoint show the last events without a gap,
\* the newest at the end, whichever threads publish at once.
THEOREM HistoryHasNoGap == Spec => []HistoryComplete
<1>1. Init => IInv
  BY DEF Init, IInv, HistoryComplete
<1>2. IInv /\ [Next]_vars => IInv'
  <2> SUFFICES ASSUME IInv, [Next]_vars PROVE IInv'
    OBVIOUS
  <2>1. ASSUME NEW t \in Publishers, PublisherStep(t) PROVE IInv'
    BY <2>1, OtherInv DEF PublisherStep, Serve, Release, Return, Call
  <2>2. ASSUME NEW s \in Streams, StreamStep(s) \/ Connect(s) \/ Disconnect(s) PROVE IInv'
    BY <2>2, OtherInv DEF StreamStep, Register, Send, Unregister, Connect, Disconnect
  <2>3. CASE Deliver \/ CloseLoop
    BY <2>3, OtherInv DEF Deliver, CloseLoop
  <2>4. ASSUME NEW l \in Listeners, NEW type \in Types \cup {General},
               Listen(l, type) \/ Unlisten(l, type)
        PROVE IInv'
    BY <2>4, OtherInv DEF Listen, Unlisten, Listening
  <2>5. CASE UNCHANGED vars
    BY <2>5, OtherInv DEF vars
  <2> QED BY <2>1, <2>2, <2>3, <2>4, <2>5, PublishInv DEF Next
<1>3. IInv => HistoryComplete
  BY DEF IInv
<1> QED BY <1>1, <1>2, <1>3, PTL DEF Spec

-----------------------------------------------------------------------------
(***************************************************************************)
(* Types.  An event is a number of a publication, never 0, from the time a *)
(* publisher has appended it.                                              *)
(***************************************************************************)
HasEvent == \A t \in Publishers : pub[t].pc # "idle" => pub[t].event # 0
Typed    == TypeOK /\ HasEvent

Events == 1..MaxEvents
Locals == [pc : {"idle", "serving", "calling"}, event : 0..MaxEvents,
           todo : SUBSET Streams, dead : SUBSET Streams,
           targets : Seq(Listeners), call : Seq(Listeners)]

\* A publication's other variables keep their types as it goes on.
LEMMA PubType ==
  ASSUME TypeOK, NEW t \in Publishers, NEW l \in Locals,
         pub' = [pub EXCEPT ![t] = l]
  PROVE  pub' \in [Publishers -> Locals]
  BY DEF TypeOK, Locals

\* The listeners of a publication are those of its type and of all types.
LEMMA TargetsType ==
  ASSUME TypeOK, NEW type \in Types
  PROVE  Targets(type) \in Seq(Listeners)
<1>1. listeners[General] \in Seq(Listeners)
  BY DEF TypeOK
<1>2. (IF type \in DOMAIN listeners THEN listeners[type] ELSE <<>>) \in Seq(Listeners)
  BY DEF TypeOK
<1> QED BY <1>1, <1>2 DEF Targets

\* publish begins with the event, the registered streams and its listeners.
LEMMA PublishTyped ==
  ASSUME Typed, NEW t \in Publishers, NEW type \in Types, Publish(t, type)
  PROVE  Typed'
<1> DEFINE l == [Idle EXCEPT !.pc = "serving", !.event = published', !.todo = subscribers,
                             !.targets = Targets(type), !.call = Targets(type)]
<1>1. published' = published + 1 /\ published' \in Events /\ published' \in 0..MaxEvents
  <2>1. published' = published + 1 /\ published < MaxEvents
    BY DEF Publish
  <2>2. published \in 0..MaxEvents
    BY DEF Typed, TypeOK
  <2> QED BY <2>1, <2>2 DEF Events
<1>2. l \in Locals /\ l.event # 0
  <2>1. Targets(type) \in Seq(Listeners) /\ subscribers \in SUBSET Streams
    BY TargetsType DEF Typed, TypeOK
  <2>2. l \in Locals /\ l.event = published'
    BY <1>1, <2>1 DEF Idle, Locals
  <2> QED BY <1>1, <2>2 DEF Events
<1>3. pub' = [pub EXCEPT ![t] = l]
  BY DEF Publish
<1> HIDE DEF l
<1>4. pub' \in [Publishers -> Locals]
  BY <1>2, <1>3, PubType DEF Typed
<1>5. HasEvent'
  BY <1>2, <1>3 DEF HasEvent, Typed, TypeOK
<1>6. recent' \in Seq(Events) /\ Len(recent') <= History
  <2>1. recent \in Seq(Events) /\ Len(recent) <= History /\ History \in Nat \ {0}
    BY BusAssumption DEF Typed, TypeOK, Events
  <2>2. CASE Len(recent) < History
    BY <1>1, <2>1, <2>2 DEF Publish, Remember
  <2>3. CASE ~(Len(recent) < History)
    <3>1. recent # <<>> /\ Tail(recent) \in Seq(Events) /\ Len(Tail(recent)) = Len(recent) - 1
      BY <2>1, <2>3
    <3> QED BY <1>1, <2>1, <2>3, <3>1 DEF Publish, Remember
  <2> QED BY <2>2, <2>3
<1>7. lock' \in Publishers \cup {None}
  BY DEF Publish, Enter
<1> QED BY <1>1, <1>4, <1>5, <1>6, <1>7
        DEF Typed, TypeOK, Publish, Locals, Events, streamVars, callVars

LEMMA PublisherTyped ==
  ASSUME Typed, NEW t \in Publishers, PublisherStep(t)
  PROVE  Typed'
<1>0. pub[t] \in Locals
  BY DEF Typed, TypeOK, Locals
<1>1. ASSUME NEW s \in Streams, Serve(t, s) PROVE Typed'
  <2>1. PICK dead \in {pub[t].dead, pub[t].dead \cup {s}} :
          pub' = [pub EXCEPT ![t] = [pub[t] EXCEPT !.todo = @ \ {s}, !.dead = dead]]
    BY <1>1 DEF Serve, Typed, TypeOK, Locals
  <2>2. [pub[t] EXCEPT !.todo = @ \ {s}, !.dead = dead] \in Locals
    BY <1>0 DEF Locals
  <2>3. pub' \in [Publishers -> Locals] /\ HasEvent'
    BY <2>1, <2>2, PubType DEF Typed, TypeOK, HasEvent
  <2>4. pub[t].event \in Events
    BY <1>0, <1>1 DEF Serve, Typed, HasEvent, Locals, Events
  <2>5. handed' \in Seq([to : Streams, event : Events])
    <3> DEFINE call == [to |-> s, event |-> pub[t].event]
               Calls == [to : Streams, event : Events]
    <3>1. call \in Calls
      BY <2>4
    <3>2. handed \in Seq(Calls)
      BY DEF Typed, TypeOK, Events
    <3>3. handed' = handed \/ handed' = Append(handed, call)
      BY <1>1 DEF Serve
    <3> HIDE DEF call, Calls
    <3>4. Append(handed, call) \in Seq(Calls)
      BY <3>1, <3>2, AppendProperties
    <3>5. handed' \in Seq(Calls)
      BY <3>2, <3>3, <3>4
    <3> QED BY <3>5 DEF Calls
  <2> QED BY <1>1, <2>3, <2>5 DEF Typed, TypeOK, Serve, Locals, Events, streamVars, callVars
<1>2. CASE Release(t)
  <2>1. [pub[t] EXCEPT !.pc = "calling"] \in Locals
    BY <1>0 DEF Locals
  <2>2. pub' \in [Publishers -> Locals] /\ HasEvent'
    BY <1>2, <2>1, PubType DEF Release, Typed, TypeOK, HasEvent
  <2> QED BY <1>2, <2>2 DEF Typed, TypeOK, Release, Locals, streamVars, callVars
<1>3. CASE Return(t)
  <2>1. Idle \in Locals
    BY BusAssumption DEF Locals, Idle
  <2>2. pub' \in [Publishers -> Locals] /\ HasEvent'
    BY <1>3, <2>1, PubType DEF Return, Typed, TypeOK, HasEvent, Idle
  <2> QED BY <1>3, <2>2 DEF Typed, TypeOK, Return, Locals, streamVars, callVars
<1>4. ASSUME NEW raises \in BOOLEAN, Call(t, raises) PROVE Typed'
  <2> DEFINE l == Head(pub[t].call)
  <2>1. pub[t].call \in Seq(Listeners) /\ pub[t].call # <<>>
    BY <1>0, <1>4 DEF Call, Locals
  <2>2. Tail(pub[t].call) \in Seq(Listeners) /\ l \in Listeners
    BY <2>1
  <2>3. [pub[t] EXCEPT !.call = Tail(@)] \in Locals
    BY <1>0, <2>2 DEF Locals
  <2>4. pub' \in [Publishers -> Locals] /\ HasEvent'
    BY <1>4, <2>3, PubType DEF Call, Typed, TypeOK, HasEvent
  <2>5. pub[t].event \in Events
    BY <1>0, <1>4 DEF Call, Typed, HasEvent, Locals, Events
  <2>6. told' \in [Listeners -> SUBSET Events]
    <3>1. told' = [told EXCEPT ![l] = @ \cup {pub[t].event}]
      BY <1>4 DEF Call
    <3> HIDE DEF l
    <3> QED BY <2>2, <2>5, <3>1 DEF Typed, TypeOK, Events
  <2> QED BY <1>4, <2>4, <2>6 DEF Typed, TypeOK, Call, Locals, Events, streamVars
<1> QED BY <1>1, <1>2, <1>3, <1>4 DEF PublisherStep

\* A queue is never longer than its capacity.
LEMMA PutType ==
  ASSUME NEW q \in Seq(Events), Len(q) <= Capacity, NEW e \in Events
  PROVE  Put(q, e) \in Seq(Events) /\ Len(Put(q, e)) <= Capacity
<1>1. Capacity \in Nat \ {0}
  BY BusAssumption
<1>2. CASE Len(q) = Capacity
  <2>1. q # <<>>
    BY <1>1, <1>2
  <2>2. Tail(q) \in Seq(Events) /\ Len(Tail(q)) = Len(q) - 1
    BY <2>1
  <2> QED BY <1>1, <1>2, <2>2 DEF Put
<1>3. CASE Len(q) # Capacity
  BY <1>1, <1>3 DEF Put
<1> QED BY <1>2, <1>3

LEMMA StreamTyped ==
  ASSUME Typed, NEW s \in Streams, StreamStep(s) \/ Connect(s) \/ Disconnect(s)
  PROVE  Typed'
<1>1. CASE Register(s)
  BY <1>1 DEF Register, Typed, TypeOK, HasEvent, callVars
<1>2. CASE Send(s)
  <2>1. queue[s] \in Seq(Events) /\ queue[s] # <<>> /\ seen[s] \in Seq(Events)
    BY <1>2 DEF Send, Typed, TypeOK, Events
  <2>2. /\ Head(queue[s]) \in Events /\ Tail(queue[s]) \in Seq(Events)
        /\ Len(Tail(queue[s])) <= Len(queue[s])
    BY <2>1
  <2>3. Append(seen[s], Head(queue[s])) \in Seq(Events)
    BY <2>1, <2>2
  <2>4. queue' \in [Streams -> Seq(Events)] /\ seen' \in [Streams -> Seq(Events)]
    BY <1>2, <2>2, <2>3 DEF Send, Typed, TypeOK, Events
  <2>5. \A u \in Streams : Len(queue'[u]) <= Capacity
    <3>1. Len(Tail(queue[s])) \in Nat /\ Len(queue[s]) \in Nat /\ Capacity \in Nat
      BY <2>1, <2>2, BusAssumption
    <3> QED BY <1>2, <2>2, <3>1 DEF Send, Typed, TypeOK
  <2> QED BY <1>2, <2>4, <2>5 DEF Send, Typed, TypeOK, HasEvent, callVars, Events
<1>3. CASE Unregister(s)
  <2>1. stream' = [stream EXCEPT ![s].stage = "gone"] /\ subscribers' = subscribers \ {s}
    BY <1>3 DEF Unregister
  <2>2. stream' \in [Streams -> [stage : {"none", "connected", "streaming", "leaving", "gone"},
                                since : 0..MaxEvents]]
    <3>1. stream \in [Streams -> [stage : {"none", "connected", "streaming", "leaving", "gone"},
                                  since : 0..MaxEvents]]
      BY DEF Typed, TypeOK
    <3> QED BY <2>1, <3>1
  <2> QED BY <1>3, <2>1, <2>2 DEF Unregister, Typed, TypeOK, HasEvent, callVars
<1>4. CASE Connect(s)
  BY <1>4 DEF Connect, Typed, TypeOK, HasEvent, callVars
<1>5. CASE Disconnect(s)
  <2>1. PICK stage \in {"gone", "leaving"} : stream' = [stream EXCEPT ![s].stage = stage]
    BY <1>5 DEF Disconnect
  <2>2. stream' \in [Streams -> [stage : {"none", "connected", "streaming", "leaving", "gone"},
                                since : 0..MaxEvents]]
    <3>1. stream \in [Streams -> [stage : {"none", "connected", "streaming", "leaving", "gone"},
                                  since : 0..MaxEvents]]
      BY DEF Typed, TypeOK
    <3> QED BY <2>1, <3>1
  <2> QED BY <1>5, <2>2 DEF Disconnect, Typed, TypeOK, HasEvent, callVars
<1> QED BY <1>1, <1>2, <1>3, <1>4, <1>5 DEF StreamStep

LEMMA LoopTyped ==
  ASSUME Typed, Deliver \/ CloseLoop
  PROVE  Typed'
<1>1. CASE Deliver
  <2> DEFINE call == Head(handed)
  <2>1. handed \in Seq([to : Streams, event : Events]) /\ handed # <<>>
    BY <1>1 DEF Deliver, Typed, TypeOK, Events
  <2>2. call \in [to : Streams, event : Events] /\ handed' \in Seq([to : Streams, event : Events])
    <3>1. Head(handed) \in [to : Streams, event : Events]
          /\ Tail(handed) \in Seq([to : Streams, event : Events])
      BY <2>1, HeadTailProperties
    <3> QED BY <1>1, <3>1 DEF Deliver
  <2>3. queue' = [queue EXCEPT ![call.to] = Put(@, call.event)]
    BY <1>1 DEF Deliver
  <2> HIDE DEF call
  <2>4. /\ Put(queue[call.to], call.event) \in Seq(Events)
        /\ Len(Put(queue[call.to], call.event)) <= Capacity
    BY <2>2, PutType DEF Typed, TypeOK, Events
  <2>5. queue' \in [Streams -> Seq(Events)] /\ \A u \in Streams : Len(queue'[u]) <= Capacity
    BY <2>3, <2>4 DEF Typed, TypeOK, Events
  <2> QED BY <1>1, <2>2, <2>5 DEF Deliver, Typed, TypeOK, HasEvent, callVars, Events
<1>2. CASE CloseLoop
  <2>1. /\ loop' = "closed" /\ handed' = <<>>
        /\ UNCHANGED <<lock, published, recent, subscribers, queue, stream, seen, callVars, pub>>
    BY <1>2 DEF CloseLoop
  <2>2. handed' \in Seq([to : Streams, event : 1..MaxEvents])
    BY <2>1
  <2>3. HasEvent'
    BY <2>1 DEF Typed, HasEvent
  <2>4. TypeOK'
    BY <2>1, <2>2 DEF Typed, TypeOK, callVars
  <2> QED BY <2>3, <2>4 DEF Typed
<1> QED BY <1>1, <1>2

LEMMA ListeningTyped ==
  ASSUME Typed, NEW l \in Listeners, NEW type \in Types \cup {General},
         Listen(l, type) \/ Unlisten(l, type)
  PROVE  Typed'
<1>1. ASSUME NEW new, Listening(new),
             General \in DOMAIN new, DOMAIN new \subseteq Types \cup {General},
             \A k \in DOMAIN new : new[k] \in Seq(Listeners)
      PROVE  Typed'
  <2>1. asked' \in 0..MaxListening
    BY <1>1, BusAssumption DEF Listening, Typed, TypeOK
  <2> QED BY <1>1, <2>1 DEF Listening, Typed, TypeOK, HasEvent, streamVars
<1>2. CASE Listen(l, type)
  <2> DEFINE old == IF type \in DOMAIN listeners THEN listeners[type] ELSE <<>>
             new == [k \in DOMAIN listeners \cup {type} |->
                       IF k = type THEN Append(old, l) ELSE listeners[k]]
  <2>1. old \in Seq(Listeners)
    BY DEF Typed, TypeOK
  <2>2. Append(old, l) \in Seq(Listeners)
    BY <2>1
  <2>3. Listening(new)
    BY <1>2 DEF Listen
  <2> HIDE DEF old
  <2>4. /\ General \in DOMAIN new /\ DOMAIN new \subseteq Types \cup {General}
        /\ \A k \in DOMAIN new : new[k] \in Seq(Listeners)
    BY <2>2 DEF Typed, TypeOK
  <2> HIDE DEF new
  <2> QED BY <1>1, <2>3, <2>4
<1>3. CASE Unlisten(l, type)
  <2> DEFINE list == IF type \in DOMAIN listeners THEN type ELSE General
             kept == Pick(listeners[list], {i \in DOMAIN listeners[list] : listeners[list][i] # l})
             new  == [listeners EXCEPT ![list] = kept]
  <2>1. list \in DOMAIN listeners /\ listeners[list] \in Seq(Listeners)
    BY DEF Typed, TypeOK
  <2>2. Listening(new)
    BY <1>3 DEF Unlisten
  <2>3. kept \in Seq(Listeners)
    BY <2>1, PickEffect
  <2> HIDE DEF kept, list
  <2>4. /\ General \in DOMAIN new /\ DOMAIN new \subseteq Types \cup {General}
        /\ \A k \in DOMAIN new : new[k] \in Seq(Listeners)
    BY <2>1, <2>3 DEF Typed, TypeOK
  <2> HIDE DEF new
  <2> QED BY <1>1, <2>2, <2>4
<1> QED BY <1>2, <1>3

LEMMA TypedInductive ==
  /\ Init => Typed
  /\ Typed /\ [Next]_vars => Typed'
<1>1. ASSUME Init PROVE Typed
  <2>1. /\ recent \in Seq(Events) /\ Len(recent) <= History
        /\ handed \in Seq([to : Streams, event : Events])
    BY <1>1, BusAssumption DEF Init
  <2>2. /\ queue \in [Streams -> Seq(Events)] /\ seen \in [Streams -> Seq(Events)]
        /\ \A s \in Streams : Len(queue[s]) <= Capacity
    BY <1>1, BusAssumption DEF Init
  <2>3. pub \in [Publishers -> Locals] /\ HasEvent
    BY <1>1, BusAssumption DEF Init, Idle, Locals, HasEvent
  <2>4. /\ General \in DOMAIN listeners /\ DOMAIN listeners \subseteq Types \cup {General}
        /\ \A k \in DOMAIN listeners : listeners[k] \in Seq(Listeners)
    BY <1>1 DEF Init
  <2> QED BY <1>1, <2>1, <2>2, <2>3, <2>4, BusAssumption DEF Init, Typed, TypeOK, Events, Locals
<1>2. ASSUME Typed, [Next]_vars PROVE Typed'
  <2>1. CASE UNCHANGED vars
    BY <1>2, <2>1 DEF vars, Typed, TypeOK, HasEvent
  <2> QED BY <1>2, <2>1, PublishTyped, PublisherTyped, StreamTyped, LoopTyped, ListeningTyped
          DEF Next
<1> QED BY <1>1, <1>2

\* The bus is well typed: in particular the history and every stream's queue
\* stay within their bounds, whatever threads publish at once.
THEOREM TypeCorrect == Spec => []TypeOK
<1>1. Typed => TypeOK
  BY DEF Typed
<1> QED BY <1>1, TypedInductive, PTL DEF Spec

-----------------------------------------------------------------------------
(***************************************************************************)
(* The order of a stream's events.  What is on its way to a stream is what *)
(* its client was sent, what its queue holds and what was handed to the    *)
(* loop: the first wholly before the second, the second before the third.  *)
(***************************************************************************)
Given(s)      == {handed[i].event : i \in {j \in DOMAIN handed : handed[j].to = s}}
InPipeline(s) == ToSet(seen[s]) \cup ToSet(queue[s]) \cup Given(s)

Below(A, B) == \A a \in A, b \in B : a < b

GivenInTurn(s) ==
  \A i, j \in DOMAIN handed :
    handed[i].to = s /\ handed[j].to = s /\ i < j => handed[i].event < handed[j].event

\* A publication has the lock while it serves; its event is the newest, and the
\* streams it has still to serve are registered.
Serving ==
  \A t \in Publishers :
    /\ pub[t].pc = "serving" <=> lock = t
    /\ pub[t].pc = "serving" => pub[t].event = published /\ pub[t].todo \subseteq subscribers

Awaited(s) == \E t \in Publishers : pub[t].pc = "serving" /\ s \in pub[t].todo

\* The newest event that can be on its way to a stream.
Top(s) == IF Awaited(s) THEN published - 1 ELSE published

\* A stream that has not registered has nothing on its way.
Unregistered(s) ==
  stream[s].stage \in {"none", "connected"} => s \notin subscribers /\ InPipeline(s) = {}

Sequenced(s) ==
  /\ Increasing(seen[s]) /\ Increasing(queue[s]) /\ GivenInTurn(s)
  /\ Below(ToSet(seen[s]), ToSet(queue[s]))
  /\ Below(ToSet(seen[s]) \cup ToSet(queue[s]), Given(s))

Bounded(s) ==
  /\ \A e \in InPipeline(s) : stream[s].since < e /\ e <= Top(s)
  /\ stream[s].since <= published
  /\ s \in subscribers => stream[s].since <= Top(s)

\* Nothing between the oldest event that is unsent and the newest is missing.
Gapless(s) ==
  loop = "running" /\ s \in subscribers =>
    /\ Top(s) > stream[s].since => Top(s) \in InPipeline(s)
    /\ \A e \in ToSet(queue[s]) \cup Given(s) : e..Top(s) \subseteq ToSet(queue[s]) \cup Given(s)

Flow(s) == Unregistered(s) /\ Sequenced(s) /\ Bounded(s) /\ Gapless(s)

BInv == Typed /\ Serving /\ \A s \in Streams : Flow(s)

\* An event after all others goes to the end.
LEMMA AppendInOrder ==
  ASSUME NEW q \in Seq(Events), NEW e \in Events, Increasing(q), Below(ToSet(q), {e})
  PROVE  /\ Append(q, e) \in Seq(Events) /\ Increasing(Append(q, e))
         /\ ToSet(Append(q, e)) = ToSet(q) \cup {e}
<1>1. /\ Append(q, e) \in Seq(Events) /\ Len(Append(q, e)) = Len(q) + 1
      /\ \A i \in 1..Len(q) : Append(q, e)[i] = q[i]
      /\ Append(q, e)[Len(q) + 1] = e /\ Len(q) \in Nat
  OBVIOUS
<1>2. DOMAIN q = 1..Len(q) /\ DOMAIN Append(q, e) = 1..(Len(q) + 1)
  BY <1>1
<1>3. \A i \in 1..Len(q) : q[i] < e
  BY <1>2 DEF Below, ToSet
<1> DEFINE n == Len(q)
           r == Append(q, e)
<1> HIDE DEF n, r
<1>4. /\ n \in Nat /\ DOMAIN q = 1..n /\ DOMAIN r = 1..(n + 1)
      /\ \A i \in 1..n : r[i] = q[i] /\ q[i] < e
      /\ r[n + 1] = e
  BY <1>1, <1>2, <1>3 DEF n, r
<1>5. Increasing(r)
  <2> SUFFICES ASSUME NEW i \in 1..(n + 1), NEW j \in 1..(n + 1), i < j PROVE r[i] < r[j]
    BY <1>4 DEF Increasing
  <2>1. CASE j = n + 1
    BY <1>4, <2>1
  <2>2. CASE j # n + 1
    BY <1>4, <2>2 DEF Increasing
  <2> QED BY <2>1, <2>2
<1>6. ToSet(r) = ToSet(q) \cup {e}
  <2>1. ASSUME NEW x PROVE x \in ToSet(r) <=> x \in ToSet(q) \cup {e}
    BY <1>4 DEF ToSet
  <2> QED BY <2>1
<1> QED BY <1>1, <1>5, <1>6 DEF r

\* The first event of a queue is its oldest.
LEMMA TailInOrder ==
  ASSUME NEW q \in Seq(Events), q # <<>>, Increasing(q)
  PROVE  /\ Tail(q) \in Seq(Events) /\ Increasing(Tail(q))
         /\ Head(q) \in ToSet(q) /\ Head(q) \in Events
         /\ ToSet(Tail(q)) = ToSet(q) \ {Head(q)}
         /\ Below({Head(q)}, ToSet(Tail(q)))
<1> DEFINE n == Len(q)
           r == Tail(q)
<1>1. /\ n \in Nat /\ n >= 1 /\ DOMAIN q = 1..n /\ Head(q) = q[1]
      /\ r \in Seq(Events) /\ Len(r) = n - 1
      /\ \A i \in 1..(n - 1) : r[i] = q[i + 1]
      /\ \A i \in 1..n : q[i] \in Events
  OBVIOUS
<1>2. DOMAIN r = 1..(n - 1)
  BY <1>1
<1> HIDE DEF n, r
<1>3. \A i, j \in 1..n : i < j => q[i] < q[j]
  BY <1>1 DEF Increasing
<1>4. Increasing(r)
  <2> SUFFICES ASSUME NEW i \in 1..(n - 1), NEW j \in 1..(n - 1), i < j PROVE r[i] < r[j]
    BY <1>2 DEF Increasing
  <2>1. i + 1 \in 1..n /\ j + 1 \in 1..n /\ i + 1 < j + 1
    BY <1>1
  <2> QED BY <1>1, <1>3, <2>1
<1>5. ToSet(r) = ToSet(q) \ {q[1]}
  <2>1. \A i \in 1..n : q[i] \in Nat
    BY <1>1 DEF Events
  <2>2. ASSUME NEW x \in ToSet(r) PROVE x \in ToSet(q) \ {q[1]} /\ q[1] < x
    <3>1. PICK i \in 1..(n - 1) : x = r[i]
      BY <1>2 DEF ToSet
    <3>2. i + 1 \in 1..n /\ 1 \in 1..n /\ 1 < i + 1
      BY <1>1
    <3>3. x = q[i + 1] /\ q[1] < q[i + 1] /\ q[1] \in Nat /\ x \in Nat
      <4>1. x = q[i + 1]
        BY <1>1, <3>1
      <4>2. q[1] \in Nat /\ q[i + 1] \in Nat
        BY <2>1, <3>2
      <4>3. q[1] < q[i + 1]
        BY <1>3, <3>2
      <4> QED BY <4>1, <4>2, <4>3
    <3>4. x \in ToSet(q)
      BY <1>1, <3>2, <3>3 DEF ToSet
    <3> QED BY <3>3, <3>4
  <2>3. ASSUME NEW x \in ToSet(q), x # q[1] PROVE x \in ToSet(r)
    <3>1. PICK i \in 1..n : x = q[i]
      BY <1>1 DEF ToSet
    <3>2. i - 1 \in 1..(n - 1) /\ r[i - 1] = q[i]
      BY <1>1, <2>3, <3>1
    <3> QED BY <1>2, <3>1, <3>2 DEF ToSet
  <2> QED BY <2>2, <2>3
<1>6. Below({q[1]}, ToSet(r))
  <2>1. ASSUME NEW i \in 1..(n - 1) PROVE q[1] < r[i]
    <3>1. i + 1 \in 1..n /\ 1 \in 1..n /\ 1 < i + 1
      BY <1>1
    <3> QED BY <1>1, <1>3, <3>1
  <2> QED BY <1>2, <2>1 DEF Below, ToSet
<1>7. q[1] \in ToSet(q)
  BY <1>1 DEF ToSet
<1> QED BY <1>1, <1>4, <1>5, <1>6, <1>7 DEF r

\* A queue that is full loses its oldest event, and no other.
LEMMA PutInOrder ==
  ASSUME NEW q \in Seq(Events), NEW e \in Events, Increasing(q), Below(ToSet(q), {e})
  PROVE  /\ Increasing(Put(q, e))
         /\ \/ ToSet(Put(q, e)) = ToSet(q) \cup {e}
            \/ \E old \in ToSet(q) :
                 /\ ToSet(Put(q, e)) = (ToSet(q) \ {old}) \cup {e}
                 /\ Below({old}, (ToSet(q) \ {old}) \cup {e})
<1>1. CASE Len(q) # Capacity
  BY <1>1, AppendInOrder DEF Put
<1>2. CASE Len(q) = Capacity
  <2>1. q # <<>>
    BY <1>2, BusAssumption
  <2>2. /\ Tail(q) \in Seq(Events) /\ Increasing(Tail(q))
        /\ Head(q) \in ToSet(q)
        /\ ToSet(Tail(q)) = ToSet(q) \ {Head(q)}
        /\ Below({Head(q)}, ToSet(Tail(q)))
    BY <2>1, TailInOrder
  <2>3. Below(ToSet(Tail(q)), {e})
    BY <2>2 DEF Below
  <2>4. Increasing(Append(Tail(q), e)) /\ ToSet(Append(Tail(q), e)) = ToSet(Tail(q)) \cup {e}
    BY <2>2, <2>3, AppendInOrder
  <2>5. Below({Head(q)}, (ToSet(q) \ {Head(q)}) \cup {e})
    BY <2>2 DEF Below
  <2> QED BY <1>2, <2>2, <2>4, <2>5 DEF Put
<1> QED BY <1>1, <1>2

Calls == [to : Streams, event : Events]

\* A callback goes to the end of those of the loop.
LEMMA GivenOneMore ==
  ASSUME Typed, NEW c \in Calls, handed' = Append(handed, c), NEW s \in Streams
  PROVE  /\ Given(s)' = IF s = c.to THEN Given(s) \cup {c.event} ELSE Given(s)
         /\ GivenInTurn(s) /\ (s = c.to => Below(Given(s), {c.event})) => GivenInTurn(s)'
<1> DEFINE n == Len(handed)
<1>1. /\ n \in Nat /\ DOMAIN handed = 1..n /\ DOMAIN handed' = 1..(n + 1)
      /\ handed'[n + 1] = c
      /\ \A i \in 1..n : handed'[i] = handed[i]
  <2>1. handed \in Seq(Calls)
    BY DEF Typed, TypeOK, Calls, Events
  <2>2. handed' \in Seq(Calls) /\ Len(handed') = n + 1
    BY <2>1
  <2> QED BY <2>1, <2>2
<1> HIDE DEF n
<1>2. ASSUME NEW x
      PROVE  x \in Given(s)' <=> x \in (IF s = c.to THEN Given(s) \cup {c.event} ELSE Given(s))
  <2>1. x \in Given(s)' <=> \E i \in 1..(n + 1) : handed'[i].to = s /\ handed'[i].event = x
    BY <1>1 DEF Given
  <2>2. x \in Given(s) <=> \E i \in 1..n : handed[i].to = s /\ handed[i].event = x
    BY <1>1 DEF Given
  <2>3. 1..(n + 1) = 1..n \cup {n + 1}
    BY <1>1
  <2> QED BY <1>1, <2>1, <2>2, <2>3
<1>3. ASSUME GivenInTurn(s), s = c.to => Below(Given(s), {c.event}) PROVE GivenInTurn(s)'
  <2> SUFFICES ASSUME NEW i \in 1..(n + 1), NEW j \in 1..(n + 1),
                      handed'[i].to = s, handed'[j].to = s, i < j
               PROVE  handed'[i].event < handed'[j].event
    BY <1>1 DEF GivenInTurn
  <2>1. i \in 1..n
    BY <1>1
  <2>2. CASE j = n + 1
    <3>1. handed[i].event \in Given(s) /\ s = c.to
      BY <1>1, <2>1, <2>2 DEF Given
    <3> QED BY <1>1, <1>3, <2>1, <2>2, <3>1 DEF Below
  <2>3. CASE j # n + 1
    <3>1. j \in 1..n
      BY <1>1, <2>3
    <3> QED BY <1>1, <1>3, <2>1, <3>1 DEF GivenInTurn
  <2> QED BY <2>2, <2>3
<1> QED BY <1>2, <1>3

\* The loop runs the first of them.
LEMMA GivenOneLess ==
  ASSUME Typed, handed # <<>>, handed' = Tail(handed), NEW s \in Streams, GivenInTurn(s)
  PROVE  LET c == Head(handed)
         IN  /\ c \in Calls /\ GivenInTurn(s)'
             /\ s # c.to => Given(s)' = Given(s)
             /\ s = c.to => /\ c.event \in Given(s) /\ Given(s)' = Given(s) \ {c.event}
                            /\ Below({c.event}, Given(s)')
<1> DEFINE n == Len(handed)
           c == Head(handed)
<1>1. /\ n \in Nat /\ n >= 1 /\ DOMAIN handed = 1..n /\ DOMAIN handed' = 1..(n - 1)
      /\ handed[1] = c /\ c \in Calls
      /\ \A i \in 1..(n - 1) : handed'[i] = handed[i + 1]
      /\ \A i \in 1..n : handed[i] \in Calls
  <2>1. handed \in Seq(Calls)
    BY DEF Typed, TypeOK, Calls, Events
  <2>2. handed' \in Seq(Calls) /\ Len(handed') = n - 1
    BY <2>1
  <2> QED BY <2>1, <2>2
<1> HIDE DEF n, c
<1>2. GivenInTurn(s)'
  <2> SUFFICES ASSUME NEW i \in 1..(n - 1), NEW j \in 1..(n - 1),
                      handed'[i].to = s, handed'[j].to = s, i < j
               PROVE  handed'[i].event < handed'[j].event
    BY <1>1 DEF GivenInTurn
  <2>1. i + 1 \in 1..n /\ j + 1 \in 1..n /\ i + 1 < j + 1
    BY <1>1
  <2> QED BY <1>1, <2>1 DEF GivenInTurn
<1>3. ASSUME NEW x
      PROVE  /\ x \in Given(s)' <=> \E i \in 2..n : handed[i].to = s /\ handed[i].event = x
             /\ x \in Given(s) <=> \E i \in 1..n : handed[i].to = s /\ handed[i].event = x
  <2>1. x \in Given(s)' <=> \E i \in 1..(n - 1) : handed'[i].to = s /\ handed'[i].event = x
    BY <1>1 DEF Given
  <2>2. x \in Given(s) <=> \E i \in 1..n : handed[i].to = s /\ handed[i].event = x
    BY <1>1 DEF Given
  <2>3. ASSUME NEW i \in 1..(n - 1) PROVE i + 1 \in 2..n
    BY <1>1
  <2>4. ASSUME NEW i \in 2..n PROVE i - 1 \in 1..(n - 1) /\ (i - 1) + 1 = i
    BY <1>1
  <2> QED BY <1>1, <2>1, <2>2, <2>3, <2>4
<1>4. 1..n = {1} \cup 2..n
  BY <1>1
<1>5. CASE s # c.to
  <2>1. ASSUME NEW x PROVE x \in Given(s)' <=> x \in Given(s)
    BY <1>1, <1>3, <1>4, <1>5
  <2> QED BY <1>1, <1>2, <1>5, <2>1 DEF c
<1>6. CASE s = c.to
  <2>1. ASSUME NEW i \in 2..n, handed[i].to = s PROVE c.event < handed[i].event
    <3>1. 1 \in 1..n /\ i \in 1..n /\ 1 < i
      BY <1>1
    <3> QED BY <1>1, <1>6, <2>1, <3>1 DEF GivenInTurn
  <2>2. c.event \in Given(s)
    BY <1>1, <1>3, <1>4, <1>6
  <2>3. Below({c.event}, Given(s)')
    BY <1>3, <2>1 DEF Below
  <2>4. c.event \in Nat /\ \A i \in 1..n : handed[i].event \in Nat
    BY <1>1 DEF Calls, Events
  <2>5. ASSUME NEW x PROVE x \in Given(s)' <=> x \in Given(s) \ {c.event}
    BY <1>1, <1>3, <1>4, <1>6, <2>1, <2>4
  <2> QED BY <1>1, <1>2, <1>6, <2>2, <2>3, <2>5 DEF c
<1> QED BY <1>5, <1>6

\* The lock keeps publications apart.
LEMMA ServingInductive ==
  /\ Init => Serving
  /\ Typed /\ Serving /\ [Next]_vars => Serving'
<1>1. Init => Serving
  BY BusAssumption DEF Init, Serving, Idle
<1>2. ASSUME Typed, Serving, [Next]_vars PROVE Serving'
  <2>0. pub \in [Publishers -> Locals] /\ None \notin Publishers
    BY <1>2, BusAssumption DEF Typed, TypeOK, Locals
  <2>1. ASSUME NEW t \in Publishers, NEW type \in Types, Publish(t, type) PROVE Serving'
    <3>1. /\ pub'[t].pc = "serving" /\ pub'[t].event = published' /\ pub'[t].todo = subscribers
          /\ \A v \in Publishers \ {t} : pub'[v] = pub[v]
          /\ lock = None /\ lock' = t /\ subscribers' = subscribers
      BY <2>0, <2>1 DEF Publish, Enter, Free, Idle
    <3> QED BY <1>2, <2>0, <3>1 DEF Serving
  <2>2. ASSUME NEW t \in Publishers, NEW s \in Streams, Serve(t, s) PROVE Serving'
    <3>1. /\ pub[t].pc = "serving" /\ pub'[t].pc = "serving" /\ pub'[t].event = pub[t].event
          /\ pub'[t].todo = pub[t].todo \ {s}
          /\ \A v \in Publishers \ {t} : pub'[v] = pub[v]
          /\ lock' = lock /\ subscribers' = subscribers /\ published' = published
      BY <2>0, <2>2 DEF Serve, Locals
    <3> QED BY <1>2, <3>1 DEF Serving
  <2>3. ASSUME NEW t \in Publishers, Release(t) PROVE Serving'
    <3>1. /\ pub[t].pc = "serving" /\ pub'[t].pc = "calling"
          /\ \A v \in Publishers \ {t} : pub'[v] = pub[v]
          /\ lock' = None /\ published' = published
      BY <2>0, <2>3 DEF Release, Locals
    <3> QED BY <1>2, <2>0, <3>1 DEF Serving
  <2>4. ASSUME NEW t \in Publishers, Return(t) \/ \E raises \in BOOLEAN : Call(t, raises)
        PROVE  Serving'
    <3>1. /\ pub[t].pc = "calling" /\ pub'[t].pc \in {"calling", "idle"}
          /\ \A v \in Publishers \ {t} : pub'[v] = pub[v]
          /\ lock' = lock /\ published' = published /\ subscribers' = subscribers
      BY <2>0, <2>4 DEF Return, Call, Locals, Idle
    <3> QED BY <1>2, <3>1 DEF Serving
  <2>5. ASSUME NEW s \in Streams, StreamStep(s) \/ Connect(s) \/ Disconnect(s) PROVE Serving'
    <3>1. /\ pub' = pub /\ lock' = lock /\ published' = published
          /\ subscribers' = subscribers \/ lock = None
      BY <2>5 DEF StreamStep, Register, Send, Unregister, Connect, Disconnect, Free
    <3> QED BY <1>2, <2>0, <3>1 DEF Serving
  <2>6. CASE UNCHANGED <<pub, lock, published, subscribers>>
    BY <1>2, <2>6 DEF Serving
  <2>7. ASSUME NEW l \in Listeners, NEW type \in Types \cup {General},
               Listen(l, type) \/ Unlisten(l, type)
        PROVE  Serving'
    BY <2>6, <2>7 DEF Listen, Unlisten, Listening
  <2> QED BY <1>2, <2>1, <2>2, <2>3, <2>4, <2>5, <2>6, <2>7
          DEF Next, PublisherStep, Deliver, CloseLoop, vars
<1> QED BY <1>1, <1>2

\* While nobody serves, everything published has been handed over.
LEMMA TopWhenFree ==
  ASSUME Serving, lock \notin Publishers, NEW s \in Streams
  PROVE  ~Awaited(s) /\ Top(s) = published
  BY DEF Serving, Awaited, Top

LEMMA PipelineType ==
  ASSUME Typed, NEW s \in Streams
  PROVE  /\ InPipeline(s) \subseteq Nat
         /\ queue[s] \in Seq(Events) /\ seen[s] \in Seq(Events) /\ handed \in Seq(Calls)
<1>1. queue[s] \in Seq(Events) /\ seen[s] \in Seq(Events) /\ handed \in Seq(Calls)
  BY DEF Typed, TypeOK, Events, Calls
<1>2. /\ \A i \in DOMAIN queue[s] : queue[s][i] \in Events
      /\ \A i \in DOMAIN seen[s] : seen[s][i] \in Events
      /\ \A i \in DOMAIN handed : handed[i] \in Calls
  BY <1>1
<1> QED BY <1>1, <1>2 DEF InPipeline, ToSet, Given, Calls, Events

\* Nothing changes for a stream but how far the newest event can be.
LEMMA FlowKept ==
  ASSUME Typed, Typed', NEW s \in Streams, Flow(s),
         seen'[s] = seen[s], queue'[s] = queue[s],
         Given(s)' = Given(s), GivenInTurn(s)',
         stream'[s].since = stream[s].since, published <= published', Top(s) <= Top(s)',
         stream'[s].stage \in {"none", "connected"} =>
           stream[s].stage \in {"none", "connected"},
         s \in subscribers' => s \in subscribers,
         loop' = "running" /\ s \in subscribers => loop = "running" /\ Top(s)' = Top(s)
  PROVE  Flow(s)'
<1>1. /\ published \in Nat /\ published' \in Nat /\ stream[s].since \in Nat
      /\ Top(s) \in Int /\ Top(s)' \in Int
  <2>1. published \in Nat /\ published' \in Nat
    BY DEF Typed, TypeOK
  <2>2. stream[s].since \in Nat
    BY DEF Typed, TypeOK
  <2> QED BY <2>1, <2>2 DEF Top
<1>2. InPipeline(s)' = InPipeline(s) /\ InPipeline(s) \subseteq Nat
  BY PipelineType DEF InPipeline
<1>3. Unregistered(s)'
  BY <1>2 DEF Flow, Unregistered
<1>4. Sequenced(s)'
  BY DEF Flow, Sequenced
<1>5. Bounded(s)'
  BY <1>1, <1>2 DEF Flow, Bounded
<1>6. Gapless(s)'
  BY <1>2 DEF Flow, Gapless
<1> QED BY <1>3, <1>4, <1>5, <1>6 DEF Flow

LEMMA PublishFlow ==
  ASSUME Typed, Typed', Serving, NEW t \in Publishers, NEW type \in Types, Publish(t, type),
         NEW s \in Streams, Flow(s)
  PROVE  Flow(s)'
<1>1. /\ lock = None /\ published' = published + 1 /\ subscribers' = subscribers
      /\ pub'[t].pc = "serving" /\ pub'[t].todo = subscribers
      /\ \A v \in Publishers \ {t} : pub'[v] = pub[v]
      /\ handed' = handed /\ loop' = loop /\ seen' = seen /\ queue' = queue /\ stream' = stream
  BY DEF Publish, Enter, Free, Idle, streamVars, Typed, TypeOK
<1>2. published \in Nat
  BY DEF Typed, TypeOK
<1>3. Top(s) = published /\ ~Awaited(s)
  BY <1>1, TopWhenFree, BusAssumption
<1>4. Awaited(s)' <=> s \in subscribers
  BY <1>1, <1>3 DEF Awaited
<1>5. Top(s)' = IF s \in subscribers THEN published ELSE published + 1
  BY <1>1, <1>2, <1>4 DEF Top
<1>6. Given(s)' = Given(s) /\ GivenInTurn(s)'
  BY <1>1 DEF Given, GivenInTurn, Flow, Sequenced
<1> QED BY <1>1, <1>2, <1>3, <1>5, <1>6, FlowKept

LEMMA ServeFlow ==
  ASSUME Typed, Typed', Serving, NEW t \in Publishers, NEW u \in Streams, Serve(t, u),
         NEW s \in Streams, Flow(s)
  PROVE  Flow(s)'
<1>1. /\ pub[t].pc = "serving" /\ u \in pub[t].todo /\ pub[t].event = published
      /\ lock = t /\ pub[t].todo \subseteq subscribers
      /\ published' = published /\ subscribers' = subscribers /\ loop' = loop
      /\ seen' = seen /\ queue' = queue /\ stream' = stream
  BY DEF Serve, Serving, streamVars
<1>2. /\ pub'[t].pc = "serving" /\ pub'[t].todo = pub[t].todo \ {u}
      /\ \A v \in Publishers \ {t} : pub'[v] = pub[v] /\ pub[v].pc # "serving"
  <2>1. pub \in [Publishers -> Locals]
    BY DEF Typed, TypeOK, Locals
  <2> QED BY <1>1, <2>1 DEF Serve, Serving, Locals
<1>3. published \in Events /\ published \in Nat
  <2>1. published \in 0..MaxEvents /\ published # 0
    BY <1>1 DEF Typed, TypeOK, HasEvent
  <2> QED BY <2>1 DEF Events
<1>4. Awaited(u) /\ ~Awaited(u)' /\ (s # u => (Awaited(s) <=> Awaited(s)'))
  BY <1>1, <1>2 DEF Awaited
<1>5. Top(s) <= Top(s)' /\ (s # u => Top(s)' = Top(s))
  BY <1>1, <1>3, <1>4 DEF Top
<1>6. CASE loop = "closed"
  <2>1. handed' = handed /\ loop' # "running"
    BY <1>1, <1>6 DEF Serve
  <2>2. Given(s)' = Given(s) /\ GivenInTurn(s)'
    BY <2>1 DEF Given, GivenInTurn, Flow, Sequenced
  <2> QED BY <1>1, <1>3, <1>5, <2>1, <2>2, FlowKept
<1>7. CASE loop # "closed"
  <2> DEFINE c == [to |-> u, event |-> published]
  <2>1. c \in Calls /\ c.to = u /\ c.event = published /\ handed' = Append(handed, c)
    BY <1>1, <1>3, <1>7 DEF Serve, Calls
  <2> HIDE DEF c
  <2>2. CASE s # u
    <3>1. Given(s)' = Given(s) /\ GivenInTurn(s)'
      BY <2>1, <2>2, GivenOneMore DEF Flow, Sequenced
    <3> QED BY <1>1, <1>3, <1>5, <2>2, <3>1, FlowKept
  <2>3. CASE s = u
    <3>1. Top(s) = published - 1 /\ Top(s)' = published
      BY <1>1, <1>4, <2>3 DEF Top
    <3>2. \A e \in InPipeline(s) : stream[s].since < e /\ e <= published - 1
      BY <3>1 DEF Flow, Bounded
    <3>3. InPipeline(s) \subseteq Nat
      BY PipelineType
    <3>4. Below(InPipeline(s), {published})
      BY <1>3, <3>2, <3>3 DEF Below
    <3>5. Below(Given(s), {published})
      BY <3>4 DEF Below, InPipeline
    <3>6. Given(s)' = Given(s) \cup {published} /\ GivenInTurn(s)'
      BY <2>1, <2>3, <3>5, GivenOneMore DEF Flow, Sequenced
    <3>7. InPipeline(s)' = InPipeline(s) \cup {published}
      BY <1>1, <3>6 DEF InPipeline
    <3>8. s \in subscribers
      BY <1>1, <2>3
    <3>9. Unregistered(s)'
      BY <1>1, <3>8 DEF Flow, Unregistered
    <3>10. Sequenced(s)'
      BY <1>1, <3>4, <3>6 DEF Flow, Sequenced, Below, InPipeline
    <3>11. stream[s].since \in Nat /\ stream[s].since < published
      <4>1. stream[s].since \in Nat
        BY DEF Typed, TypeOK
      <4>2. stream[s].since <= published - 1
        BY <3>1, <3>8 DEF Flow, Bounded
      <4> QED BY <1>3, <4>1, <4>2
    <3>12. Bounded(s)'
      BY <1>1, <1>3, <3>1, <3>2, <3>3, <3>7, <3>11 DEF Bounded
    <3>13. Gapless(s)'
      <4> SUFFICES ASSUME loop = "running"
                   PROVE  /\ published \in InPipeline(s)'
                          /\ \A e \in ToSet(queue[s]) \cup Given(s)' :
                               e..published \subseteq ToSet(queue[s]) \cup Given(s)'
        BY <1>1, <3>1 DEF Gapless
      <4>1. published \in InPipeline(s)'
        BY <3>7
      <4>2. ASSUME NEW e \in ToSet(queue[s]) \cup Given(s)
            PROVE  e..published \subseteq ToSet(queue[s]) \cup Given(s)'
        <5>1. e..(published - 1) \subseteq ToSet(queue[s]) \cup Given(s)
          BY <1>1, <3>1, <3>8 DEF Flow, Gapless
        <5>2. e \in Nat
          BY <3>3 DEF InPipeline
        <5>3. e..published \subseteq e..(published - 1) \cup {published}
          BY <1>3, <5>2
        <5> QED BY <3>6, <5>1, <5>3
      <4>3. published..published \subseteq {published}
        BY <1>3
      <4> QED BY <3>6, <4>1, <4>2, <4>3
    <3> QED BY <3>9, <3>10, <3>12, <3>13 DEF Flow
  <2> QED BY <2>2, <2>3
<1> QED BY <1>6, <1>7

LEMMA PublisherFlow ==
  ASSUME Typed, Typed', Serving, NEW t \in Publishers, PublisherStep(t),
         NEW s \in Streams, Flow(s)
  PROVE  Flow(s)'
<1>1. CASE \E u \in Streams : Serve(t, u)
  BY <1>1, ServeFlow
<1>2. CASE Release(t) \/ Return(t) \/ \E raises \in BOOLEAN : Call(t, raises)
  <2>1. pub \in [Publishers -> Locals] /\ published \in Nat
    <3>1. pub \in [Publishers -> Locals]
      BY DEF Typed, TypeOK, Locals
    <3>2. published \in 0..MaxEvents
      BY DEF Typed, TypeOK
    <3> QED BY <3>1, <3>2
  <2>2. /\ published' = published /\ subscribers' \subseteq subscribers /\ loop' = loop
        /\ seen' = seen /\ queue' = queue /\ stream' = stream /\ handed' = handed
        /\ pub[t].pc = "serving" => pub[t].todo = {}
        /\ pub'[t].pc # "serving"
        /\ \A v \in Publishers \ {t} : pub'[v] = pub[v]
    <3>1. CASE Release(t)
      BY <2>1, <3>1 DEF Release, Locals, streamVars
    <3>2. CASE Return(t)
      BY <2>1, <3>2 DEF Return, Locals, Idle, streamVars
    <3>3. ASSUME NEW raises \in BOOLEAN, Call(t, raises) PROVE <2>2
      BY <2>1, <3>3 DEF Call, Locals, streamVars
    <3> QED BY <1>2, <3>1, <3>2, <3>3
  <2>3. Awaited(s)' <=> Awaited(s)
    BY <2>2 DEF Awaited
  <2>4. Top(s)' = Top(s) /\ Top(s) \in Int
    BY <2>1, <2>2, <2>3 DEF Top
  <2>5. Given(s)' = Given(s) /\ GivenInTurn(s)'
    BY <2>2 DEF Given, GivenInTurn, Flow, Sequenced
  <2> QED BY <2>1, <2>2, <2>4, <2>5, FlowKept
<1> QED BY <1>1, <1>2 DEF PublisherStep

\* A stream that begins has missed what was published before, and has nothing.
LEMMA RegisterFlow ==
  ASSUME Typed, Typed', Serving, NEW s \in Streams, Register(s), Flow(s)
  PROVE  Flow(s)'
<1>1. /\ lock = None /\ published' = published /\ lock' = lock /\ pub' = pub
      /\ stream[s].stage = "connected"
      /\ stream'[s].since = published /\ stream'[s].stage = "streaming"
      /\ seen' = seen /\ queue' = queue /\ handed' = handed
  BY DEF Register, Free, Typed, TypeOK
<1>2. InPipeline(s) = {}
  BY <1>1 DEF Flow, Unregistered
<1>3. InPipeline(s)' = {} /\ Given(s)' = {}
  BY <1>1, <1>2 DEF InPipeline, Given
<1>4. Top(s) = published /\ Top(s)' = published /\ published \in Nat
  BY <1>1, TopWhenFree, BusAssumption DEF Top, Awaited, Typed, TypeOK
<1>5. Unregistered(s)'
  BY <1>1 DEF Unregistered
<1>6. Sequenced(s)'
  BY <1>1, <1>3 DEF Flow, Sequenced, GivenInTurn, Below
<1>7. Bounded(s)'
  BY <1>1, <1>3, <1>4 DEF Bounded
<1>8. Gapless(s)'
  BY <1>1, <1>3, <1>4 DEF Gapless, InPipeline
<1> QED BY <1>5, <1>6, <1>7, <1>8 DEF Flow

\* The oldest event of the queue goes to the client.
LEMMA SendFlow ==
  ASSUME Typed, Typed', NEW s \in Streams, Send(s), Flow(s)
  PROVE  Flow(s)'
<1> DEFINE h == Head(queue[s])
<1>1. /\ queue[s] # <<>> /\ queue'[s] = Tail(queue[s]) /\ seen'[s] = Append(seen[s], h)
      /\ published' = published /\ subscribers' = subscribers /\ handed' = handed
      /\ stream' = stream /\ loop' = loop /\ pub' = pub
  BY DEF Send, Typed, TypeOK
<1>2. queue[s] \in Seq(Events) /\ seen[s] \in Seq(Events) /\ InPipeline(s) \subseteq Nat
  BY PipelineType
<1>3. /\ Increasing(queue'[s]) /\ h \in ToSet(queue[s]) /\ h \in Events
      /\ ToSet(queue'[s]) = ToSet(queue[s]) \ {h}
      /\ Below({h}, ToSet(queue'[s]))
  BY <1>1, <1>2, TailInOrder DEF Flow, Sequenced
<1>4. Increasing(seen'[s]) /\ ToSet(seen'[s]) = ToSet(seen[s]) \cup {h}
  <2>1. Below(ToSet(seen[s]), {h})
    BY <1>3 DEF Flow, Sequenced, Below
  <2> QED BY <1>1, <1>2, <1>3, <2>1, AppendInOrder DEF Flow, Sequenced
<1>5. Given(s)' = Given(s) /\ Top(s)' = Top(s) /\ (GivenInTurn(s) => GivenInTurn(s)')
  BY <1>1 DEF Given, Top, Awaited, GivenInTurn
<1> HIDE DEF h
<1>6. InPipeline(s)' = InPipeline(s)
  BY <1>3, <1>4, <1>5 DEF InPipeline
<1>7. Unregistered(s)' /\ Bounded(s)'
  BY <1>1, <1>5, <1>6 DEF Flow, Unregistered, Bounded
<1>8. Sequenced(s)'
  BY <1>3, <1>4, <1>5 DEF Flow, Sequenced, Below
<1>9. Gapless(s)'
  <2> SUFFICES ASSUME loop = "running", s \in subscribers
               PROVE  \A e \in ToSet(queue'[s]) \cup Given(s) :
                        e..Top(s) \subseteq ToSet(queue'[s]) \cup Given(s)
    BY <1>1, <1>5, <1>6 DEF Flow, Gapless
  <2>1. ASSUME NEW e \in ToSet(queue'[s]) \cup Given(s), NEW x \in e..Top(s)
        PROVE  x \in ToSet(queue'[s]) \cup Given(s)
    <3>1. x \in ToSet(queue[s]) \cup Given(s)
      BY <1>3, <2>1 DEF Flow, Gapless
    <3>2. h < e
      BY <1>3 DEF Flow, Sequenced, Below
    <3>3. h \in Nat /\ e \in Nat
      BY <1>2, <1>3 DEF InPipeline, Events
    <3>4. x # h
      BY <3>2, <3>3
    <3> QED BY <1>3, <3>1, <3>4
  <2> QED BY <2>1
<1> QED BY <1>7, <1>8, <1>9 DEF Flow

\* The first callback of the loop puts its event into the queue of its stream.
LEMMA DeliverFlow ==
  ASSUME Typed, Typed', Deliver, NEW s \in Streams, Flow(s)
  PROVE  Flow(s)'
<1> DEFINE c == Head(handed)
<1>1. /\ handed # <<>> /\ handed' = Tail(handed)
      /\ queue' = [queue EXCEPT ![c.to] = Put(@, c.event)]
      /\ published' = published /\ subscribers' = subscribers /\ seen' = seen
      /\ stream' = stream /\ loop' = loop /\ pub' = pub
  BY DEF Deliver
<1>2. queue[s] \in Seq(Events) /\ InPipeline(s) \subseteq Nat /\ queue \in [Streams -> Seq(Events)]
  BY PipelineType DEF Typed, TypeOK, Events
<1>3. /\ c \in Calls /\ GivenInTurn(s)'
      /\ s # c.to => Given(s)' = Given(s)
      /\ s = c.to => /\ c.event \in Given(s) /\ Given(s)' = Given(s) \ {c.event}
                     /\ Below({c.event}, Given(s)')
  <2>1. GivenInTurn(s) /\ handed # <<>> /\ handed' = Tail(handed)
    BY <1>1 DEF Flow, Sequenced
  <2> QED BY <2>1, GivenOneLess
<1>4. Top(s)' = Top(s) /\ Top(s) \in Int /\ published \in Nat
  <2>1. published \in Nat
    BY DEF Typed, TypeOK
  <2>2. Awaited(s)' <=> Awaited(s)
    BY <1>1 DEF Awaited
  <2> QED BY <1>1, <2>1, <2>2 DEF Top
<1> HIDE DEF c
<1>5. CASE s # c.to
  <2>1. queue'[s] = queue[s] /\ Given(s)' = Given(s)
    BY <1>1, <1>2, <1>3, <1>5
  <2> QED BY <1>1, <1>3, <1>4, <2>1, FlowKept
<1>6. CASE s = c.to
  <2> DEFINE e == c.event
  <2>1. queue'[s] = Put(queue[s], e) /\ e \in Events /\ e \in Given(s)
    BY <1>1, <1>2, <1>3, <1>6 DEF Calls
  <2>2. Given(s)' = Given(s) \ {e} /\ Below({e}, Given(s)')
    BY <1>3, <1>6
  <2> HIDE DEF e
  <2>3. Below(ToSet(queue[s]), {e}) /\ Below(ToSet(seen[s]), {e})
    BY <2>1 DEF Flow, Sequenced, Below
  <2>4. PICK gone \in SUBSET ToSet(queue[s]) :
          /\ ToSet(queue'[s]) = (ToSet(queue[s]) \ gone) \cup {e}
          /\ Below(gone, (ToSet(queue[s]) \ gone) \cup {e})
    <3>1. CASE ToSet(queue'[s]) = ToSet(queue[s]) \cup {e}
      <4> WITNESS {} \in SUBSET ToSet(queue[s])
      <4> QED BY <3>1 DEF Below
    <3>2. CASE \E old \in ToSet(queue[s]) :
                 /\ ToSet(queue'[s]) = (ToSet(queue[s]) \ {old}) \cup {e}
                 /\ Below({old}, (ToSet(queue[s]) \ {old}) \cup {e})
      <4>1. PICK old \in ToSet(queue[s]) :
                 /\ ToSet(queue'[s]) = (ToSet(queue[s]) \ {old}) \cup {e}
                 /\ Below({old}, (ToSet(queue[s]) \ {old}) \cup {e})
        BY <3>2
      <4> WITNESS {old} \in SUBSET ToSet(queue[s])
      <4> QED BY <4>1
    <3> QED BY <1>2, <2>1, <2>3, <3>1, <3>2, PutInOrder DEF Flow, Sequenced
  <2>5. Increasing(queue'[s])
    BY <1>2, <2>1, <2>3, PutInOrder DEF Flow, Sequenced
  <2> DEFINE unsent == ToSet(queue[s]) \cup Given(s)
  <2>6. /\ ToSet(queue'[s]) \cup Given(s)' = unsent \ gone
        /\ Below(gone, unsent \ gone)
    <3>1. Below(gone, Given(s))
      BY DEF Flow, Sequenced, Below
    <3>2. gone \subseteq Nat
      BY <1>2 DEF InPipeline
    <3>3. gone \cap Given(s) = {}
      <4> SUFFICES ASSUME NEW g \in gone, g \in Given(s) PROVE FALSE
        OBVIOUS
      <4>1. g < g /\ g \in Nat
        BY <3>1, <3>2 DEF Below
      <4> QED BY <4>1
    <3> QED BY <2>1, <2>2, <2>4, <3>1, <3>3 DEF Below
  <2>7. /\ InPipeline(s)' = ToSet(seen[s]) \cup (unsent \ gone)
        /\ InPipeline(s)' \subseteq InPipeline(s)
    BY <1>1, <2>6 DEF InPipeline
  <2>8. Unregistered(s)' /\ Bounded(s)'
    BY <1>1, <1>4, <2>7 DEF Flow, Unregistered, Bounded
  <2>9. Sequenced(s)'
    <3>1. Below(ToSet(seen[s]), ToSet(queue'[s]))
      BY <2>3, <2>4 DEF Flow, Sequenced, Below
    <3>2. Below(ToSet(seen[s]) \cup ToSet(queue'[s]), Given(s)')
      BY <2>2, <2>4 DEF Flow, Sequenced, Below
    <3> QED BY <1>1, <1>3, <2>5, <3>1, <3>2 DEF Flow, Sequenced
  <2>10. Gapless(s)'
    <3> SUFFICES ASSUME loop = "running", s \in subscribers
                 PROVE  /\ Top(s) > stream[s].since => Top(s) \in InPipeline(s)'
                        /\ \A x \in unsent \ gone : x..Top(s) \subseteq unsent \ gone
      BY <1>1, <1>4, <2>6 DEF Gapless
    <3>1. gone \subseteq Nat /\ e \in Nat /\ unsent \subseteq Nat
      BY <1>2, <2>1 DEF InPipeline, Events
    <3>2. ASSUME NEW g \in gone PROVE g # Top(s)
      <4>1. g < e /\ e <= Top(s)
        BY <2>1, <2>4 DEF Below, Flow, Bounded, InPipeline
      <4> QED BY <1>4, <3>1, <4>1
    <3>3. Top(s) > stream[s].since => Top(s) \in InPipeline(s)'
      BY <2>7, <3>2 DEF Flow, Gapless, InPipeline
    <3>4. ASSUME NEW x \in unsent \ gone, NEW y \in x..Top(s) PROVE y \in unsent \ gone
      <4>1. y \in unsent
        BY <3>4 DEF Flow, Gapless
      <4>2. ASSUME NEW g \in gone PROVE g # y
        <5>1. g < x
          BY <2>6 DEF Below
        <5> QED BY <3>1, <5>1
      <4> QED BY <4>1, <4>2
    <3> QED BY <3>3, <3>4
  <2> QED BY <2>8, <2>9, <2>10 DEF Flow
<1> QED BY <1>5, <1>6

\* The client goes away, or the server stops.
LEMMA LeavingFlow ==
  ASSUME Typed, Typed', Serving, NEW s \in Streams, Flow(s),
         \/ \E u \in Streams : Connect(u) \/ Disconnect(u) \/ Unregister(u)
         \/ \E u \in Streams \ {s} : Register(u) \/ Send(u)
         \/ \E l \in Listeners, type \in Types \cup {General} :
               Listen(l, type) \/ Unlisten(l, type)
         \/ UNCHANGED vars
  PROVE  Flow(s)'
<1>1. /\ seen'[s] = seen[s] /\ queue'[s] = queue[s] /\ handed' = handed
      /\ published' = published /\ pub' = pub /\ loop' = loop
      /\ stream'[s].since = stream[s].since
      /\ stream'[s].stage \in {"none", "connected"} => stream[s].stage \in {"none", "connected"}
      /\ s \in subscribers' => s \in subscribers
  <2>0. /\ seen \in [Streams -> Seq(1..MaxEvents)] /\ queue \in [Streams -> Seq(1..MaxEvents)]
        /\ stream \in [Streams -> [stage : {"none", "connected", "streaming", "leaving", "gone"},
                                   since : 0..MaxEvents]]
    BY DEF Typed, TypeOK
  <2>1. CASE \E u \in Streams : Connect(u) \/ Disconnect(u) \/ Unregister(u)
    <3>1. PICK u \in Streams, stage \in {"connected", "gone", "leaving"} :
            /\ stream' = [stream EXCEPT ![u].stage = stage]
            /\ stage = "connected" => stream[u].stage = "none"
      BY <2>1 DEF Connect, Disconnect, Unregister
    <3>2. /\ seen' = seen /\ queue' = queue /\ handed' = handed /\ published' = published
          /\ pub' = pub /\ loop' = loop /\ subscribers' \subseteq subscribers
      BY <2>1 DEF Connect, Disconnect, Unregister, callVars
    <3> QED BY <2>0, <3>1, <3>2
  <2>2. CASE \E u \in Streams \ {s} : Register(u) \/ Send(u)
    BY <2>0, <2>2 DEF Register, Send, callVars
  <2>3. CASE \/ \E l \in Listeners, type \in Types \cup {General} :
                  Listen(l, type) \/ Unlisten(l, type)
             \/ UNCHANGED vars
    BY <2>3 DEF Listen, Unlisten, Listening, streamVars, vars
  <2> QED BY <2>1, <2>2, <2>3
<1>2. /\ Top(s)' = Top(s) /\ Given(s)' = Given(s) /\ GivenInTurn(s)'
  BY <1>1 DEF Top, Awaited, Given, GivenInTurn, Flow, Sequenced
<1>3. published \in Nat
  BY DEF Typed, TypeOK
<1>4. Top(s) \in Int
  BY <1>3 DEF Top
<1> QED BY <1>1, <1>2, <1>3, <1>4, FlowKept

LEMMA ClosedFlow ==
  ASSUME Typed, Typed', CloseLoop, NEW s \in Streams, Flow(s)
  PROVE  Flow(s)'
<1>1. /\ seen' = seen /\ queue' = queue /\ handed' = <<>> /\ loop' = "closed"
      /\ published' = published /\ pub' = pub /\ stream' = stream /\ subscribers' = subscribers
  BY DEF CloseLoop
<1>2. Given(s)' = {} /\ GivenInTurn(s)' /\ Top(s)' = Top(s)
  BY <1>1 DEF Given, GivenInTurn, Top, Awaited
<1>3. InPipeline(s)' \subseteq InPipeline(s)
  BY <1>1, <1>2 DEF InPipeline
<1>4. Unregistered(s)' /\ Bounded(s)' /\ Gapless(s)'
  BY <1>1, <1>2, <1>3 DEF Flow, Unregistered, Bounded, Gapless
<1>5. Sequenced(s)'
  BY <1>1, <1>2 DEF Flow, Sequenced, Below
<1> QED BY <1>4, <1>5 DEF Flow

LEMMA BusInductive ==
  /\ Init => BInv
  /\ BInv /\ [Next]_vars => BInv'
<1>1. ASSUME Init, NEW s \in Streams PROVE Flow(s)
  <2>1. /\ seen[s] = <<>> /\ queue[s] = <<>> /\ handed = <<>> /\ subscribers = {}
        /\ published = 0 /\ stream[s].since = 0 /\ \A t \in Publishers : pub[t].pc = "idle"
    BY <1>1 DEF Init, Idle
  <2>2. ToSet(seen[s]) = {} /\ ToSet(queue[s]) = {} /\ Given(s) = {} /\ ~Awaited(s)
    BY <2>1 DEF ToSet, Given, Awaited
  <2>3. InPipeline(s) = {} /\ Top(s) = 0
    BY <2>1, <2>2 DEF InPipeline, Top
  <2>4. Increasing(<<>>) /\ GivenInTurn(s)
    BY <2>1 DEF Increasing, GivenInTurn
  <2> QED BY <2>1, <2>2, <2>3, <2>4
          DEF Flow, Unregistered, Sequenced, Bounded, Gapless, Below
<1>2. ASSUME BInv, [Next]_vars PROVE BInv'
  <2>1. Typed /\ Typed' /\ Serving /\ Serving'
    BY <1>2, TypedInductive, ServingInductive DEF BInv
  <2>2. ASSUME NEW s \in Streams PROVE Flow(s)'
    <3>0. Flow(s)
      BY <1>2 DEF BInv
    <3>1. CASE \E t \in Publishers, type \in Types : Publish(t, type)
      BY <2>1, <3>0, <3>1, PublishFlow
    <3>2. CASE \E t \in Publishers : PublisherStep(t)
      BY <2>1, <3>0, <3>2, PublisherFlow
    <3>3. CASE \E u \in Streams : StreamStep(u) \/ Connect(u) \/ Disconnect(u)
      BY <2>1, <3>0, <3>3, RegisterFlow, SendFlow, LeavingFlow DEF StreamStep
    <3>4. CASE Deliver \/ CloseLoop
      BY <2>1, <3>0, <3>4, DeliverFlow, ClosedFlow
    <3>5. CASE \/ \E l \in Listeners, type \in Types \cup {General} :
                     Listen(l, type) \/ Unlisten(l, type)
               \/ UNCHANGED vars
      BY <2>1, <3>0, <3>5, LeavingFlow
    <3> QED BY <1>2, <3>1, <3>2, <3>3, <3>4, <3>5 DEF Next
  <2> QED BY <2>1, <2>2 DEF BInv
<1> QED BY <1>1, <1>2, TypedInductive, ServingInductive DEF BInv

\* A slow client loses the oldest of what it was not sent and never the newest:
\* of the queue of any length and however publishers and the loop take turns.
THEOREM NewestSurvives == Spec => []NewestKept
<1>1. ASSUME BInv PROVE NewestKept
  <2> SUFFICES ASSUME loop = "running", Free, NEW s \in subscribers
               PROVE  /\ published > stream[s].since => published \in ToSet(seen[s]) \cup Unsent(s)
                      /\ \A e \in Unsent(s) : e..published \subseteq Unsent(s)
    BY DEF NewestKept
  <2>1. s \in Streams
    BY <1>1 DEF BInv, Typed, TypeOK
  <2>2. Top(s) = published
    BY <1>1, <2>1, TopWhenFree, BusAssumption DEF BInv, Free
  <2>3. Unsent(s) = ToSet(queue[s]) \cup Given(s)
    BY DEF Unsent, Given
  <2> QED BY <1>1, <2>1, <2>2, <2>3 DEF BInv, Flow, Gapless, InPipeline
<1> QED BY <1>1, BusInductive, PTL DEF Spec

\* One list of events wholly before another.
LEMMA JoinInOrder ==
  ASSUME NEW a \in Seq(Events), NEW b \in Seq(Events), Increasing(a), Increasing(b),
         Below(ToSet(a), ToSet(b))
  PROVE  /\ a \o b \in Seq(Events) /\ Increasing(a \o b)
         /\ ToSet(a \o b) = ToSet(a) \cup ToSet(b)
<1> DEFINE m == Len(a)
           n == Len(b)
           r == a \o b
<1>1. /\ m \in Nat /\ n \in Nat /\ DOMAIN a = 1..m /\ DOMAIN b = 1..n /\ DOMAIN r = 1..(m + n)
      /\ \A i \in 1..m : r[i] = a[i]
      /\ \A i \in (m + 1)..(m + n) : r[i] = b[i - m]
      /\ r \in Seq(Events)
  OBVIOUS
<1> HIDE DEF m, n, r
<1>2. ASSUME NEW i \in 1..(m + n)
      PROVE  \/ i \in 1..m /\ r[i] = a[i]
             \/ i \in (m + 1)..(m + n) /\ i - m \in 1..n /\ r[i] = b[i - m]
  BY <1>1
<1>3. Increasing(r)
  <2> SUFFICES ASSUME NEW i \in 1..(m + n), NEW j \in 1..(m + n), i < j PROVE r[i] < r[j]
    BY <1>1 DEF Increasing
  <2>1. CASE j \in 1..m
    <3>1. i \in 1..m
      BY <1>1, <2>1
    <3> QED BY <1>1, <2>1, <3>1 DEF Increasing
  <2>2. CASE i \in 1..m /\ j \notin 1..m
    <3>1. r[i] \in ToSet(a) /\ r[j] \in ToSet(b)
      BY <1>1, <1>2, <2>2 DEF ToSet
    <3> QED BY <3>1 DEF Below
  <2>3. CASE i \notin 1..m /\ j \notin 1..m
    <3>1. i - m \in 1..n /\ j - m \in 1..n /\ i - m < j - m
          /\ r[i] = b[i - m] /\ r[j] = b[j - m]
      BY <1>1, <1>2, <2>3
    <3> QED BY <1>1, <3>1 DEF Increasing
  <2> QED BY <2>1, <2>2, <2>3
<1>4. ToSet(r) = ToSet(a) \cup ToSet(b)
  <2>1. ASSUME NEW x \in ToSet(r) PROVE x \in ToSet(a) \cup ToSet(b)
    BY <1>1, <1>2 DEF ToSet
  <2>2. ASSUME NEW x \in ToSet(a) PROVE x \in ToSet(r)
    <3>1. PICK i \in 1..m : x = a[i]
      BY <1>1 DEF ToSet
    <3>2. i \in 1..(m + n)
      BY <1>1
    <3> QED BY <1>1, <3>1, <3>2 DEF ToSet
  <2>3. ASSUME NEW x \in ToSet(b) PROVE x \in ToSet(r)
    <3>1. PICK i \in 1..n : x = b[i]
      BY <1>1 DEF ToSet
    <3>2. i + m \in (m + 1)..(m + n) /\ i + m \in 1..(m + n) /\ (i + m) - m = i
      BY <1>1
    <3> QED BY <1>1, <3>1, <3>2 DEF ToSet
  <2> QED BY <2>1, <2>2, <2>3
<1> QED BY <1>1, <1>3, <1>4 DEF r

\* The events of the callbacks for one stream, in their turn.
LEMMA GivenEvents ==
  ASSUME Typed, NEW s \in Streams, GivenInTurn(s)
  PROVE  LET mine   == Pick(handed, {i \in DOMAIN handed : handed[i].to = s})
             events == [i \in DOMAIN mine |-> mine[i].event]
         IN  events \in Seq(Events) /\ Increasing(events) /\ ToSet(events) = Given(s)
<1> DEFINE I      == {i \in DOMAIN handed : handed[i].to = s}
           mine   == Pick(handed, I)
           events == [i \in DOMAIN mine |-> mine[i].event]
           n      == Len(mine)
<1>1. handed \in Seq(Calls) /\ I \in SUBSET (DOMAIN handed)
  BY PipelineType
<1>5. \A i \in I : i \in DOMAIN handed /\ handed[i].to = s
  OBVIOUS
<1>6. Given(s) = {handed[i].event : i \in I}
  BY DEF Given
<1> HIDE DEF I
<1>2. /\ mine \in Seq(Calls) /\ n = Cardinality(I)
      /\ \A k \in 1..n : Nth(I, k) \in I /\ mine[k] = handed[Nth(I, k)]
      /\ \A i \in I : \E k \in 1..n : mine[k] = handed[i]
  BY <1>1, PickEffect
<1>3. \A k, l \in 1..n : k < l => Nth(I, k) < Nth(I, l)
  <2>1. I \in SUBSET Nat /\ IsFiniteSet(I)
    <3>1. Len(handed) \in Nat /\ DOMAIN handed = 1..Len(handed)
      BY <1>1
    <3>2. IsFiniteSet(1..Len(handed))
      BY <3>1, FS_Interval
    <3> QED BY <1>1, <3>1, <3>2, FS_Subset
  <2> QED BY <1>2, <2>1, NthEnumerates
<1>4. n \in Nat /\ DOMAIN mine = 1..n /\ \A k \in 1..n : mine[k] \in Calls
  BY <1>2
<1> HIDE DEF mine, n
<1>7. \A k \in 1..n : /\ events[k] = mine[k].event /\ mine[k].event \in Events
                      /\ mine[k] = handed[Nth(I, k)]
  BY <1>2, <1>4 DEF Calls
<1>8. DOMAIN events = 1..n /\ events \in Seq(Events)
  BY <1>4, <1>7
<1> HIDE DEF events
<1>9. Increasing(events)
  <2> SUFFICES ASSUME NEW k \in 1..n, NEW l \in 1..n, k < l PROVE events[k] < events[l]
    BY <1>8 DEF Increasing
  <2>1. /\ Nth(I, k) \in DOMAIN handed /\ handed[Nth(I, k)].to = s
        /\ Nth(I, l) \in DOMAIN handed /\ handed[Nth(I, l)].to = s
        /\ Nth(I, k) < Nth(I, l)
    BY <1>2, <1>3, <1>5
  <2>2. handed[Nth(I, k)].event < handed[Nth(I, l)].event
    BY <2>1 DEF GivenInTurn
  <2> QED BY <1>7, <2>2
<1>10. ToSet(events) = Given(s)
  <2>1. ASSUME NEW x \in ToSet(events) PROVE x \in Given(s)
    BY <1>2, <1>6, <1>7, <1>8 DEF ToSet
  <2>2. ASSUME NEW x \in Given(s) PROVE x \in ToSet(events)
    <3>1. PICK i \in I : x = handed[i].event
      BY <1>6
    <3>2. PICK k \in 1..n : mine[k] = handed[i]
      BY <1>2
    <3>3. events[k] = mine[k].event
      BY <1>2, <1>7
    <3> QED BY <1>8, <3>1, <3>2, <3>3 DEF ToSet
  <2> QED BY <2>1, <2>2
<1> QED BY <1>8, <1>9, <1>10 DEF events, mine, I

\* A client is sent the events in the order of the history, none twice and none
\* of before its registration, whichever threads publish at once.
THEOREM SentInOrder == Spec => []InOrder
<1>1. ASSUME BInv PROVE InOrder
  <2> SUFFICES ASSUME NEW s \in Streams
               PROVE  /\ Increasing(Pipeline(s))
                      /\ \A i \in DOMAIN Pipeline(s) : Pipeline(s)[i] > stream[s].since
    BY DEF InOrder
  <2> DEFINE mine   == Pick(handed, {i \in DOMAIN handed : handed[i].to = s})
             events == [i \in DOMAIN mine |-> mine[i].event]
             sq     == seen[s] \o queue[s]
  <2>1. Typed /\ Sequenced(s) /\ Bounded(s)
    BY <1>1 DEF BInv, Flow
  <2>2. queue[s] \in Seq(Events) /\ seen[s] \in Seq(Events) /\ InPipeline(s) \subseteq Nat
    BY <2>1, PipelineType
  <2>3. events \in Seq(Events) /\ Increasing(events) /\ ToSet(events) = Given(s)
    BY <2>1, GivenEvents DEF Sequenced
  <2>4. Pipeline(s) = sq \o events
    BY DEF Pipeline
  <2> HIDE DEF events, sq
  <2>5. sq \in Seq(Events) /\ Increasing(sq) /\ ToSet(sq) = ToSet(seen[s]) \cup ToSet(queue[s])
    BY <2>1, <2>2, JoinInOrder DEF Sequenced, sq
  <2>6. /\ Increasing(sq \o events) /\ ToSet(sq \o events) = InPipeline(s)
    <3>1. Below(ToSet(sq), ToSet(events))
      BY <2>1, <2>3, <2>5 DEF Sequenced
    <3>2. Increasing(sq \o events) /\ ToSet(sq \o events) = ToSet(sq) \cup ToSet(events)
      BY <2>3, <2>5, <3>1, JoinInOrder
    <3> QED BY <2>3, <2>5, <3>2 DEF InPipeline
  <2>7. \A i \in DOMAIN Pipeline(s) : Pipeline(s)[i] \in InPipeline(s)
    BY <2>4, <2>6 DEF ToSet
  <2>8. \A x \in InPipeline(s) : x \in Nat /\ stream[s].since \in Nat /\ stream[s].since < x
    BY <2>1, <2>2 DEF Bounded, Typed, TypeOK
  <2>9. \A x \in InPipeline(s) : x > stream[s].since
    BY <2>8
  <2> QED BY <2>4, <2>6, <2>7, <2>9
<1> QED BY <1>1, BusInductive, PTL DEF Spec

-----------------------------------------------------------------------------
(***************************************************************************)
(* The listeners of a publication.  Those it has called are the first of   *)
(* its targets, those it has still to call the rest, in their order.       *)
(***************************************************************************)
Called(p) == Len(p.targets) - Len(p.call)

Told ==
  \A t \in Publishers : pub[t].pc # "idle" =>
    /\ Called(pub[t]) \in Nat
    /\ \A i \in 1..Len(pub[t].call) : pub[t].call[i] = pub[t].targets[Called(pub[t]) + i]
    /\ \A i \in 1..Called(pub[t]) : pub[t].event \in told[pub[t].targets[i]]

LEMMA CallTold ==
  ASSUME Typed, Told, NEW t \in Publishers, NEW raises \in BOOLEAN, Call(t, raises)
  PROVE  Told'
<1> DEFINE p == pub[t]
           q == pub'[t]
           l == Head(p.call)
           d == Called(p)
<1>1. pub \in [Publishers -> Locals] /\ told \in [Listeners -> SUBSET (1..MaxEvents)]
  BY DEF Typed, TypeOK, Locals
<1>2. /\ p.pc = "calling" /\ p.call # <<>> /\ p.call \in Seq(Listeners)
      /\ p.targets \in Seq(Listeners)
      /\ q.pc = "calling" /\ q.event = p.event /\ q.targets = p.targets /\ q.call = Tail(p.call)
      /\ told' = [told EXCEPT ![l] = @ \cup {p.event}]
      /\ \A v \in Publishers \ {t} : pub'[v] = pub[v]
  BY <1>1 DEF Call, Locals
<1>t. \A v \in Publishers : pub[v].pc # "idle" =>
        /\ Called(pub[v]) \in Nat
        /\ \A i \in 1..Len(pub[v].call) : pub[v].call[i] = pub[v].targets[Called(pub[v]) + i]
        /\ \A i \in 1..Called(pub[v]) : pub[v].event \in told[pub[v].targets[i]]
  BY DEF Told
<1>u. p.pc # "idle" =>
        /\ d \in Nat
        /\ \A i \in 1..Len(p.call) : p.call[i] = p.targets[d + i]
        /\ \A i \in 1..d : p.event \in told[p.targets[i]]
  BY <1>t
<1>v. p = pub[t] /\ q = pub'[t]
  OBVIOUS
<1> HIDE DEF p, q
<1>3. /\ Len(p.call) \in Nat /\ Len(p.call) >= 1 /\ l = p.call[1] /\ l \in Listeners
      /\ Len(q.call) = Len(p.call) - 1 /\ Len(p.targets) \in Nat
      /\ \A i \in 1..(Len(p.call) - 1) : q.call[i] = p.call[i + 1]
  BY <1>2
<1>4. /\ d \in Nat
      /\ \A i \in 1..Len(p.call) : p.call[i] = p.targets[d + i]
      /\ \A i \in 1..d : p.event \in told[p.targets[i]]
      /\ d + Len(p.call) = Len(p.targets)
  <2>1. d + Len(p.call) = Len(p.targets)
    BY <1>3 DEF Called
  <2> QED BY <1>2, <1>u, <2>1
<1>5. Called(q) = d + 1
  <2>1. Called(q) = Len(p.targets) - (Len(p.call) - 1) /\ d = Len(p.targets) - Len(p.call)
    BY <1>2, <1>3 DEF Called
  <2> HIDE DEF d
  <2> QED BY <1>3, <2>1
<1> HIDE DEF d, l
<1>6. \A u \in Listeners : told[u] \subseteq told'[u]
  BY <1>1, <1>2
<1>7. p.event \in told'[l]
  BY <1>1, <1>2, <1>3
<1>8. ASSUME NEW i \in 1..Len(q.call) PROVE q.call[i] = q.targets[(d + 1) + i]
  <2>1. i + 1 \in 1..Len(p.call) /\ i \in 1..(Len(p.call) - 1) /\ (d + 1) + i = d + (i + 1)
    BY <1>3, <1>4
  <2> QED BY <1>2, <1>3, <1>4, <2>1
<1>9. ASSUME NEW i \in 1..(d + 1) PROVE q.event \in told'[q.targets[i]]
  <2>1. CASE i = d + 1
    <3>1. 1 \in 1..Len(p.call) /\ p.targets[d + 1] = l
      BY <1>3, <1>4
    <3> QED BY <1>2, <1>7, <2>1, <3>1
  <2>2. CASE i # d + 1
    <3>1. i \in 1..d /\ i \in 1..Len(p.targets)
      <4>1. d \in Nat /\ d < Len(p.targets) /\ Len(p.targets) \in Nat
        BY <1>3, <1>4
      <4> QED BY <2>2, <4>1
    <3>2. p.targets[i] \in Listeners
      BY <1>2, <3>1
    <3> QED BY <1>2, <1>4, <1>6, <3>1, <3>2
  <2> QED BY <2>1, <2>2
<1>10. ASSUME NEW v \in Publishers \ {t}, NEW i \in 1..Called(pub[v]), pub[v].pc # "idle"
       PROVE  pub[v].event \in told'[pub[v].targets[i]]
  <2>1. pub[v].targets \in Seq(Listeners) /\ pub[v].call \in Seq(Listeners)
    BY <1>1 DEF Locals
  <2>2. i \in 1..Len(pub[v].targets)
    <3>1. Len(pub[v].targets) \in Nat /\ Len(pub[v].call) \in Nat /\ Called(pub[v]) \in Nat
      BY <1>t, <1>10, <2>1
    <3> QED BY <3>1 DEF Called
  <2>3. pub[v].targets[i] \in Listeners
    BY <2>1, <2>2
  <2> QED BY <1>t, <1>6, <1>10, <2>3
<1> SUFFICES ASSUME NEW v \in Publishers, pub'[v].pc # "idle"
             PROVE  /\ Called(pub'[v]) \in Nat
                    /\ \A i \in 1..Len(pub'[v].call) :
                         pub'[v].call[i] = pub'[v].targets[Called(pub'[v]) + i]
                    /\ \A i \in 1..Called(pub'[v]) :
                         pub'[v].event \in told'[pub'[v].targets[i]]
  BY DEF Told
<1>11. CASE v = t
  <2>1. d + 1 \in Nat
    BY <1>4, <1>2
  <2> QED BY <1>v, <1>5, <1>8, <1>9, <1>11, <2>1
<1>12. CASE v # t
  <2>1. pub'[v] = pub[v]
    BY <1>2, <1>12
  <2> QED BY <1>t, <1>10, <1>12, <2>1
<1> QED BY <1>11, <1>12

LEMMA ToldInductive ==
  /\ Init => Told
  /\ Typed /\ Told /\ [Next]_vars => Told'
<1>1. Init => Told
  BY DEF Init, Told, Idle
<1>2. ASSUME Typed, Told, [Next]_vars PROVE Told'
  <2>0. pub \in [Publishers -> Locals]
    BY <1>2 DEF Typed, TypeOK, Locals
  <2>1. ASSUME NEW t \in Publishers, NEW type \in Types, Publish(t, type) PROVE Told'
    <3>1. /\ pub'[t].targets = Targets(type) /\ pub'[t].call = Targets(type)
          /\ \A v \in Publishers \ {t} : pub'[v] = pub[v]
          /\ told' = told
      BY <2>0, <2>1 DEF Publish, Idle, callVars
    <3>2. Len(Targets(type)) \in Nat
      BY <1>2, TargetsType DEF Typed
    <3>3. Called(pub'[t]) = 0
      BY <3>1, <3>2 DEF Called
    <3>4. \A i \in 1..Len(Targets(type)) : 0 + i = i
      BY <3>2
    <3>5. ASSUME NEW v \in Publishers \ {t}
          PROVE  pub'[v] = pub[v] /\ Called(pub'[v]) = Called(pub[v])
      BY <3>1 DEF Called
    <3>6. ASSUME NEW v \in Publishers, pub'[v].pc # "idle"
          PROVE  /\ Called(pub'[v]) \in Nat
                 /\ \A i \in 1..Len(pub'[v].call) :
                      pub'[v].call[i] = pub'[v].targets[Called(pub'[v]) + i]
                 /\ \A i \in 1..Called(pub'[v]) :
                      pub'[v].event \in told'[pub'[v].targets[i]]
      <4>1. CASE v = t
        BY <3>1, <3>3, <3>4, <4>1
      <4>2. CASE v # t
        <5>1. pub'[v] = pub[v] /\ Called(pub'[v]) = Called(pub[v]) /\ told' = told
          BY <3>1, <3>5, <4>2
        <5>2. pub[v].pc # "idle"
          BY <3>6, <5>1
        <5>3. /\ Called(pub[v]) \in Nat
              /\ \A i \in 1..Len(pub[v].call) :
                   pub[v].call[i] = pub[v].targets[Called(pub[v]) + i]
              /\ \A i \in 1..Called(pub[v]) : pub[v].event \in told[pub[v].targets[i]]
          BY <1>2, <5>2 DEF Told
        <5> QED BY <5>1, <5>3
      <4> QED BY <4>1, <4>2
    <3> QED BY <3>6 DEF Told
  <2>2. ASSUME NEW t \in Publishers,
               Release(t) \/ Return(t) \/ \E s \in Streams : Serve(t, s)
        PROVE  Told'
    <3>1. /\ told' = told /\ \A v \in Publishers \ {t} : pub'[v] = pub[v]
      BY <2>0, <2>2 DEF Release, Return, Serve, callVars
    <3>2. pub'[t].pc # "idle" =>
            /\ pub[t].pc # "idle" /\ pub'[t].event = pub[t].event
            /\ pub'[t].targets = pub[t].targets /\ pub'[t].call = pub[t].call
      <4>1. CASE Release(t)
        BY <2>0, <4>1 DEF Release, Locals
      <4>2. CASE Return(t)
        BY <2>0, <4>2 DEF Return, Idle
      <4>3. CASE \E s \in Streams : Serve(t, s)
        BY <2>0, <4>3 DEF Serve, Locals
      <4> QED BY <2>2, <4>1, <4>2, <4>3
    <3>3. ASSUME NEW v \in Publishers, pub'[v].pc # "idle"
          PROVE  /\ pub[v].pc # "idle" /\ pub'[v].event = pub[v].event
                 /\ pub'[v].targets = pub[v].targets /\ pub'[v].call = pub[v].call
                 /\ Called(pub'[v]) = Called(pub[v])
      BY <3>1, <3>2, <3>3 DEF Called
    <3> SUFFICES ASSUME NEW v \in Publishers, pub'[v].pc # "idle"
                 PROVE  /\ Called(pub'[v]) \in Nat
                        /\ \A i \in 1..Len(pub'[v].call) :
                             pub'[v].call[i] = pub'[v].targets[Called(pub'[v]) + i]
                        /\ \A i \in 1..Called(pub'[v]) :
                             pub'[v].event \in told'[pub'[v].targets[i]]
      BY DEF Told
    <3>4. /\ Called(pub[v]) \in Nat
          /\ \A i \in 1..Len(pub[v].call) : pub[v].call[i] = pub[v].targets[Called(pub[v]) + i]
          /\ \A i \in 1..Called(pub[v]) : pub[v].event \in told[pub[v].targets[i]]
      BY <1>2, <3>3 DEF Told
    <3> QED BY <3>1, <3>3, <3>4
  <2>3. CASE UNCHANGED <<pub, told>>
    BY <1>2, <2>3 DEF Told, Called
  <2>4. ASSUME NEW s \in Streams, StreamStep(s) \/ Connect(s) \/ Disconnect(s) PROVE Told'
    BY <2>3, <2>4 DEF StreamStep, Register, Send, Unregister, Connect, Disconnect, callVars
  <2>5. ASSUME NEW l \in Listeners, NEW type \in Types \cup {General},
               Listen(l, type) \/ Unlisten(l, type)
        PROVE  Told'
    BY <2>3, <2>5 DEF Listen, Unlisten, Listening
  <2>6. CASE Deliver \/ CloseLoop \/ UNCHANGED vars
    BY <2>3, <2>6 DEF Deliver, CloseLoop, callVars, vars
  <2> QED BY <1>2, <2>1, <2>2, <2>4, <2>5, <2>6, CallTold DEF Next, PublisherStep
<1> QED BY <1>1, <1>2

\* A publication that has finished its calls has called every listener it found,
\* whatever listeners raise and whoever subscribes or unsubscribes meanwhile.
THEOREM ListenersAreTold == Spec => []EveryListenerTold
<1> DEFINE TInv == Typed /\ Told
<1>1. Init => TInv
  BY TypedInductive, ToldInductive
<1>2. TInv /\ [Next]_vars => TInv'
  BY TypedInductive, ToldInductive
<1>3. ASSUME TInv PROVE EveryListenerTold
  <2> SUFFICES ASSUME NEW t \in Publishers, pub[t].pc = "calling", pub[t].call = <<>>,
                      NEW i \in DOMAIN pub[t].targets
               PROVE  pub[t].event \in told[pub[t].targets[i]]
    BY DEF EveryListenerTold
  <2>1. pub[t].targets \in Seq(Listeners)
    BY <1>3 DEF Typed, TypeOK
  <2>2. DOMAIN pub[t].targets = 1..Called(pub[t])
    BY <2>1 DEF Called
  <2> QED BY <1>3, <2>2 DEF Told
<1> HIDE DEF TInv
<1> QED BY <1>1, <1>2, <1>3, PTL DEF Spec
=============================================================================
