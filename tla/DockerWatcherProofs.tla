-------------------------- MODULE DockerWatcherProofs --------------------------
(***************************************************************************)
(* Proofs about DockerWatcher, for any containers and any number of starts   *)
(* and signals.                                                             *)
(***************************************************************************)
EXTENDS DockerWatcher, TLAPS

\* The stream q is still to say, after its first n events, that c has gone.
GoneAfter(q, n, c) ==
    \E j \in DOMAIN q : j > n /\ q[j].id = c /\ q[j].action # "start"

Going(c) == GoneAfter(events, 0, c)

\* A registration in progress is for a container that is not registered, and
\* only a sweep lists containers and has containers to do.
StepsInOrder ==
    /\ pc = "register" => active[cur] = NoAddr
    /\ pc \in {"ping", "list", "walk"} => sweeping
    /\ todo # {} => sweeping /\ pc \in {"walk", "resolve", "register"}

\* Whatever the watcher knows, holds or has in hand is right, or the stream is
\* still to tell it better.
RightOrTold ==
    ~missed =>
        /\ \A c \in Containers :
              active[c] # NoAddr => (c \in running /\ active[c] = addr[c]) \/ Going(c)
        /\ \A c \in Containers : failed[c] # "none" => c \in running \/ Going(c)
        /\ \A c \in todo : c \in running \/ Going(c)
        /\ pc \in {"inspect", "resolve", "register"} => cur \in running \/ Going(cur)
        /\ pc = "register" => (cur \in running /\ got = addr[cur]) \/ Going(cur)
        /\ \A i \in DOMAIN events : events[i].action = "start" =>
              events[i].id \in running \/ GoneAfter(events, i, events[i].id)

IInv == TypeOK /\ BooksMatchRegistrar /\ StepsInOrder /\ RightOrTold

-----------------------------------------------------------------------------
(* What the stream says when an event is added to it or taken from it.       *)

\* An event appended to the stream takes nothing from what it says.
LEMMA AppendGone ==
    ASSUME NEW q \in Seq(Event), NEW e \in Event
    PROVE  /\ Append(q, e) \in Seq(Event)
           /\ \A i \in DOMAIN q : i \in DOMAIN Append(q, e) /\ Append(q, e)[i] = q[i]
           /\ \A n \in Nat, c \in Containers : GoneAfter(q, n, c) => GoneAfter(Append(q, e), n, c)
           /\ e.action # "start" => \A n \in 0 .. Len(q) : GoneAfter(Append(q, e), n, e.id)
           /\ \A i \in DOMAIN Append(q, e) : i \in DOMAIN q \/ Append(q, e)[i] = e
<1>1. /\ Append(q, e) \in Seq(Event) /\ Len(Append(q, e)) = Len(q) + 1
      /\ \A i \in 1 .. Len(q) : Append(q, e)[i] = q[i]
      /\ Append(q, e)[Len(q) + 1] = e
  OBVIOUS
<1>2. DOMAIN q = 1 .. Len(q) /\ DOMAIN Append(q, e) = 1 .. Len(q) + 1 /\ Len(q) \in Nat
  BY <1>1
<1> QED
  BY <1>1, <1>2 DEF GoneAfter

\* Taking the first event leaves what the others say, one place further on.
LEMMA TailGone ==
    ASSUME NEW q \in Seq(Event), q # <<>>
    PROVE  /\ Tail(q) \in Seq(Event)
           /\ \A i \in DOMAIN Tail(q) : i + 1 \in DOMAIN q /\ Tail(q)[i] = q[i + 1]
           /\ \A n \in Nat, c \in Containers :
                 GoneAfter(q, n + 1, c) => GoneAfter(Tail(q), n, c)
           /\ \A c \in Containers :
                 GoneAfter(q, 0, c) /\ ~(Head(q).id = c /\ Head(q).action # "start") =>
                    GoneAfter(Tail(q), 0, c)
<1>1. /\ Tail(q) \in Seq(Event) /\ Len(Tail(q)) = Len(q) - 1 /\ Head(q) = q[1]
      /\ \A i \in 1 .. Len(q) - 1 : Tail(q)[i] = q[i + 1]
  OBVIOUS
<1>2. /\ Len(q) \in Nat \ {0}
      /\ DOMAIN q = 1 .. Len(q) /\ DOMAIN Tail(q) = 1 .. Len(q) - 1
  BY <1>1
<1>3. ASSUME NEW n \in Nat, NEW c \in Containers, GoneAfter(q, n + 1, c)
      PROVE  GoneAfter(Tail(q), n, c)
  <2>1. PICK j \in 1 .. Len(q) : j > n + 1 /\ q[j].id = c /\ q[j].action # "start"
    BY <1>2, <1>3 DEF GoneAfter
  <2>2. j - 1 \in 1 .. Len(q) - 1 /\ j - 1 > n /\ Tail(q)[j - 1] = q[j]
    BY <1>1, <1>2, <2>1
  <2> QED
    BY <1>2, <2>1, <2>2 DEF GoneAfter
<1>4. ASSUME NEW c \in Containers, GoneAfter(q, 0, c),
             ~(Head(q).id = c /\ Head(q).action # "start")
      PROVE  GoneAfter(q, 1, c)
  BY <1>1, <1>2, <1>4 DEF GoneAfter
<1> QED
  BY <1>1, <1>2, <1>3, <1>4

-----------------------------------------------------------------------------

\* NewWatcher starts with empty books.
LEMMA InitInv == Init => IInv
<1> SUFFICES ASSUME Init PROVE IInv
    OBVIOUS
<1>1. TypeOK
  <2>1. addr \in [Containers -> Addrs \cup {NoAddr}]
    BY BoundsAssumption DEF Init, Addrs, NoAddr
  <2>2. events \in Seq(Event) /\ signals \in 0 .. MaxSignals
    BY BoundsAssumption DEF Init
  <2>3. subscribed \in BOOLEAN /\ missed \in BOOLEAN /\ sweeping \in BOOLEAN
    BY DEF Init
  <2> QED
    BY <2>1, <2>2, <2>3 DEF Init, TypeOK, Steps, Reasons
<1>2. BooksMatchRegistrar /\ StepsInOrder /\ RightOrTold
  BY DEF Init, BooksMatchRegistrar, StepsInOrder, RightOrTold
<1> QED
  BY <1>1, <1>2 DEF IInv

\* Docker emits an event, or it is lost.
LEMMA EmitInv ==
    ASSUME TypeOK, NEW c \in Containers, NEW action \in {"start", "die", "kill"},
           Emit(action, c)
    PROVE  /\ events' \in Seq(Event)
           /\ missed' \in BOOLEAN
           /\ ~missed' => /\ ~missed
                          /\ events' = Append(events, [action |-> action, id |-> c])
<1>1. [action |-> action, id |-> c] \in Event
  BY DEF Event
<1>2. events \in Seq(Event) /\ missed \in BOOLEAN
  BY DEF TypeOK
<1>3. CASE events' = Append(events, [action |-> action, id |-> c]) /\ missed' = missed
  BY <1>1, <1>2, <1>3
<1>4. CASE missed' = TRUE /\ events' = events
  BY <1>2, <1>4
<1> QED
  BY <1>3, <1>4 DEF Emit

\* A container starts, stops or is signalled.
LEMMA DockerInv ==
    ASSUME IInv, NEW c \in Containers, Start(c) \/ Stop(c) \/ Signal(c)
    PROVE  IInv'
<1> USE DEF IInv
<1>1. PICK action \in {"start", "die", "kill"} :
         /\ Emit(action, c)
         /\ action = "start" => Start(c)
         /\ action = "die" => Stop(c)
         /\ action = "kill" => Signal(c)
  BY DEF Start, Stop, Signal
<1>2. /\ UNCHANGED <<labelled, subscribed, pc, locals, books>>
      /\ \A d \in Containers \ {c} : (d \in running' <=> d \in running) /\ addr'[d] = addr[d]
      /\ action = "start" => c \notin running /\ c \in running'
      /\ action = "kill" => c \in running /\ c \in running' /\ addr' = addr
  BY <1>1 DEF Start, Stop, Signal, TypeOK
<1>3. TypeOK' /\ BooksMatchRegistrar' /\ StepsInOrder'
  <2>1. running' \subseteq Containers /\ addr' \in [Containers -> Addrs \cup {NoAddr}]
    BY BoundsAssumption DEF Start, Stop, Signal, TypeOK, Addrs, NoAddr
  <2>2. signals' \in 0 .. MaxSignals
    BY BoundsAssumption DEF Start, Stop, Signal, TypeOK
  <2>3. events' \in Seq(Event) /\ missed' \in BOOLEAN
    BY <1>1, EmitInv
  <2> QED
    BY <1>2, <2>1, <2>2, <2>3 DEF TypeOK, BooksMatchRegistrar, StepsInOrder, locals, books
<1>4. RightOrTold'
  <2> SUFFICES ASSUME ~missed' PROVE RightOrTold'
    BY DEF RightOrTold
  <2> DEFINE e == [action |-> action, id |-> c]
  <2>1. e \in Event /\ events' = Append(events, e) /\ ~missed
    BY <1>1, EmitInv DEF Event
  <2>2. \A d \in Containers : /\ Going(d) => Going(d)'
                              /\ action # "start" => Going(c)'
    <3>1. events \in Seq(Event) /\ 0 \in 0 .. Len(events) /\ e.id = c /\ e.action = action
      BY DEF TypeOK
    <3> QED
      BY <2>1, <3>1, AppendGone DEF Going
  <2>3. \A d \in Containers : /\ d \in running => d \in running' \/ Going(d)'
                              /\ d \in running => addr'[d] = addr[d] \/ Going(d)'
    BY <1>2, <2>2
  <2>4. ASSUME NEW i \in DOMAIN events', events'[i].action = "start"
        PROVE  events'[i].id \in running' \/ GoneAfter(events', i, events'[i].id)
    <3>1. CASE i \in DOMAIN events
      <4>1. events'[i] = events[i] /\ events[i].id \in Containers /\ i \in 0 .. Len(events)
        <5>1. events \in Seq(Event) /\ i \in 1 .. Len(events) /\ events[i] \in Event
          BY <3>1 DEF TypeOK
        <5> QED
          BY <2>1, <3>1, <5>1, AppendGone DEF Event
      <4>2. events[i].id \in running \/ GoneAfter(events, i, events[i].id)
        BY <2>1, <2>4, <3>1, <4>1 DEF RightOrTold
      <4>3. action # "start" => GoneAfter(events', i, c)
        BY <2>1, <4>1, AppendGone DEF TypeOK
      <4> QED
        BY <1>2, <2>1, <4>1, <4>2, <4>3, AppendGone DEF TypeOK
    <3>2. CASE i \notin DOMAIN events
      BY <1>2, <2>1, <2>4, <3>2, AppendGone DEF TypeOK
    <3> QED
      BY <3>1, <3>2
  <2> QED
    BY <1>2, <2>1, <2>2, <2>3, <2>4 DEF RightOrTold, TypeOK, locals, books
<1> QED
  BY <1>3, <1>4

\* What the watcher does between events touches neither Docker nor the stream.
LEMMA SweepInv ==
    ASSUME IInv, NEW ok \in BOOLEAN, NEW c \in Containers,
           \/ Ping(ok) \/ Inspect(ok) \/ Subscribe \/ Tick \/ Stopped
           \/ List \/ ListFails \/ Walk(c) \/ RemoveMissing
    PROVE  IInv'
<1> USE DEF IInv
<1>1. TypeOK'
  BY DEF Ping, Inspect, Subscribe, Tick, Stopped, List, ListFails, Walk, RemoveMissing, TypeOK,
         Steps, Reasons, docker, locals, books
<1>2. BooksMatchRegistrar' /\ StepsInOrder'
  <2>1. BooksMatchRegistrar'
    BY DEF Ping, Inspect, Subscribe, Tick, Stopped, List, ListFails, Walk, RemoveMissing,
           BooksMatchRegistrar, books
  <2>2. StepsInOrder'
    BY DEF Ping, Inspect, Subscribe, Tick, Stopped, List, ListFails, Walk, RemoveMissing,
           StepsInOrder, locals, books
  <2> QED
    BY <2>1, <2>2
<1>3. RightOrTold'
  BY DEF Ping, Inspect, Subscribe, Tick, Stopped, List, ListFails, Walk, RemoveMissing, TypeOK,
         RightOrTold, Going, docker, locals, books
<1> QED
  BY <1>1, <1>2, <1>3

\* An event is handled: a start is followed up, anything else clears the books
\* of the container it is about.
LEMMA EventInv == ASSUME IInv, StartEvent \/ GoneEvent PROVE IInv'
<1> USE DEF IInv
<1>1. /\ pc = "select" /\ events \in Seq(Event) /\ events # <<>> /\ events' = Tail(events)
      /\ Head(events) \in Event
      /\ UNCHANGED <<labelled, running, addr, signals, subscribed, missed, seen, todo, got>>
  BY DEF StartEvent, GoneEvent, Received, TypeOK, locals
<1>2. PICK c \in Containers : c = Head(events).id
  BY <1>1 DEF Event
<1>3. TypeOK'
  BY <1>1, <1>2, TailGone DEF StartEvent, GoneEvent, TypeOK, Steps, Reasons, locals, books
<1>4. BooksMatchRegistrar' /\ StepsInOrder'
  BY <1>1, <1>2 DEF StartEvent, GoneEvent, BooksMatchRegistrar, StepsInOrder, TypeOK, locals,
                    books
<1>5. RightOrTold'
  <2> SUFFICES ASSUME ~missed PROVE RightOrTold'
    BY <1>1 DEF RightOrTold
  <2>1. \A d \in Containers : Going(d) => Going(d)' \/ (GoneEvent /\ d = c)
    BY <1>1, <1>2, TailGone DEF Going, StartEvent, Received
  <2>2. StartEvent => c \in running \/ Going(c)'
    <3> SUFFICES ASSUME StartEvent, c \notin running PROVE Going(c)'
      OBVIOUS
    <3>1. 1 \in DOMAIN events /\ events[1] = Head(events) /\ Head(events).action = "start"
      BY <1>1 DEF StartEvent, Received
    <3>2. GoneAfter(events, 0 + 1, c)
      BY <1>2, <3>1 DEF RightOrTold
    <3> QED
      BY <1>1, <1>2, <3>2, TailGone DEF Going
  <2>3. ASSUME NEW i \in DOMAIN events', events'[i].action = "start"
        PROVE  events'[i].id \in running \/ GoneAfter(events', i, events'[i].id)
    <3>1. i \in Nat /\ i + 1 \in DOMAIN events /\ events'[i] = events[i + 1]
      BY <1>1, TailGone
    <3>2. events[i + 1].id \in Containers
      <4>1. events[i + 1] \in Event
        BY <1>1, <3>1
      <4> QED
        BY <4>1 DEF Event
    <3>3. events[i + 1].id \in running \/ GoneAfter(events, i + 1, events[i + 1].id)
      BY <2>3, <3>1 DEF RightOrTold
    <3> QED
      BY <1>1, <3>1, <3>2, <3>3, TailGone
  <2>4. CASE StartEvent
    <3>1. ~GoneEvent
      BY <2>4 DEF StartEvent, GoneEvent, Received
    <3>2. cur' = c /\ pc' = "inspect" /\ UNCHANGED books
      BY <1>2, <2>4 DEF StartEvent
    <3>3. \A d \in todo : d \in Containers
      BY DEF TypeOK
    <3> QED
      BY <1>1, <2>1, <2>2, <2>3, <2>4, <3>1, <3>2, <3>3 DEF RightOrTold, books
  <2>5. CASE GoneEvent
    BY <1>1, <1>2, <2>1, <2>3, <2>5 DEF GoneEvent, RightOrTold, TypeOK, StepsInOrder, locals
  <2> QED
    BY <2>4, <2>5
<1> QED
  BY <1>3, <1>4, <1>5

\* register on the container in hand.
LEMMA RegisterInv ==
    ASSUME IInv, ResolveFails \/ AlreadyServing \/ Resolved \/ Registers \/ RegisterFails
    PROVE  IInv'
<1> USE DEF IInv
<1>1. TypeOK'
  BY DEF ResolveFails, AlreadyServing, Resolved, Registers, RegisterFails, Done, TypeOK, Steps,
         Reasons, docker, locals, books
<1>2. BooksMatchRegistrar' /\ StepsInOrder'
  BY DEF ResolveFails, AlreadyServing, Resolved, Registers, RegisterFails, Done, TypeOK,
         BooksMatchRegistrar, StepsInOrder, locals, books
<1>3. RightOrTold'
  <2>1. \A d \in Containers : Going(d)' = Going(d)
    BY DEF ResolveFails, AlreadyServing, Resolved, Registers, RegisterFails, Going, docker
  <2> QED
    BY <2>1 DEF ResolveFails, AlreadyServing, Resolved, Registers, RegisterFails, Done, TypeOK,
         RightOrTold, docker, locals, books
<1> QED
  BY <1>1, <1>2, <1>3

\* Every step of Docker and of the watcher keeps the invariant.
LEMMA NextInv == IInv /\ [Next]_vars => IInv'
<1>1. IInv /\ UNCHANGED vars => IInv'
  BY DEF IInv, vars, TypeOK, BooksMatchRegistrar, StepsInOrder, RightOrTold, Going, docker,
         locals, books
<1>2. ASSUME TypeOK PROVE cur \in Containers
  BY <1>2 DEF TypeOK
<1> QED
  BY <1>1, <1>2, DockerInv, SweepInv, EventInv, RegisterInv DEF Next, WatcherStep, IInv

\* The inductive invariant holds throughout.
THEOREM InductiveInvariant == Spec => []IInv
BY InitInv, NextInv, PTL DEF Spec

-----------------------------------------------------------------------------

\* What the watcher believes is served is what the registrar serves, whatever
\* happens to the containers while it lists, resolves and registers them
\* (register, handleEvent, removeMissing).
THEOREM BooksAreTrue == Spec => []BooksMatchRegistrar
<1>1. IInv => BooksMatchRegistrar
  BY DEF IInv
<1> QED
  BY <1>1, InductiveInvariant, PTL

\* Once the watcher has caught up with a stream that left nothing out, what it
\* serves and what it remembers is of containers that run (Run, handleEvent).
THEOREM CaughtUp == Spec => []CaughtUpIsCurrent
<1>1. IInv => CaughtUpIsCurrent
  BY DEF IInv, RightOrTold, Going, GoneAfter, CaughtUpIsCurrent
<1> QED
  BY <1>1, InductiveInvariant, PTL

-----------------------------------------------------------------------------
(* What a sweep does, whether or not events were missed before it.           *)

\* The watcher serves c, or remembers why it does not.
Accounted(c) == active[c] # NoAddr \/ failed[c] # "none"

\* At the end of a sweep nothing is served or remembered that the listing did not
\* have, and each container of the listing that carries the labels is served or
\* on record as failing.  This holds however many events were lost before: it is
\* what the sweep is for (reconcile, removeMissing).
SweepsSettle ==
    [][RemoveMissing =>
          \A c \in Containers :
             /\ c \notin seen => pool'[c] = NoAddr /\ failed'[c] = "none"
             /\ c \in seen \cap labelled => pool'[c] # NoAddr \/ failed'[c] # "none"]_vars

\* The containers that the sweep has passed are accounted for.  The one in hand
\* may be neither: it is deregistered before it is registered at its new address.
SweptSoFar ==
    /\ \A c \in running : addr[c] # NoAddr
    /\ pc = "register" => got # NoAddr
    /\ pc = "inspect" => ~sweeping
    /\ sweeping /\ pc \in {"walk", "resolve", "register"} =>
          \A c \in (seen \cap labelled) \ todo :
             (c = cur /\ pc # "walk") \/ Accounted(c)

\* Each container of the sweep is registered or its failure noted before the next
\* is taken, and no event is handled in between (reconcile, register).
LEMMA SweptInduct ==
    ASSUME IInv, SweptSoFar, [Next]_vars
    PROVE  SweptSoFar'
<1> USE DEF IInv, SweptSoFar, Accounted
<1>1. CASE UNCHANGED vars
  BY <1>1 DEF vars, docker, locals, books
<1>2. ASSUME NEW c \in Containers, Start(c) \/ Stop(c) \/ Signal(c)
      PROVE  SweptSoFar'
  BY <1>2, BoundsAssumption DEF Start, Stop, Signal, TypeOK, Addrs, NoAddr, locals, books
<1>3. ASSUME NEW ok \in BOOLEAN, Ping(ok) \/ Inspect(ok)
      PROVE  SweptSoFar'
  BY <1>3 DEF Ping, Inspect, docker, locals, books
<1>4. CASE Subscribe \/ Tick \/ Stopped \/ ListFails
  BY <1>4 DEF Subscribe, Tick, Stopped, ListFails, docker, locals, books
<1>5. CASE List
  BY <1>5 DEF List, docker, books
<1>6. ASSUME NEW c \in Containers, Walk(c)
      PROVE  SweptSoFar'
  BY <1>6 DEF Walk, docker, books
<1>7. CASE RemoveMissing
  BY <1>7 DEF RemoveMissing, TypeOK, docker, locals
<1>8. CASE StartEvent \/ GoneEvent
  BY <1>8 DEF StartEvent, GoneEvent, Received, locals, books
<1>9. CASE ResolveFails \/ RegisterFails
  BY <1>9 DEF ResolveFails, RegisterFails, Done, TypeOK, docker, locals
<1>10. CASE AlreadyServing \/ Resolved \/ Registers
  BY <1>10 DEF AlreadyServing, Resolved, Registers, Done, TypeOK, docker, locals, books
<1> QED
  BY <1>1, <1>2, <1>3, <1>4, <1>5, <1>6, <1>7, <1>8, <1>9, <1>10 DEF Next, WatcherStep

\* A sweep sets right what the event stream left out (reconcile, removeMissing).
THEOREM SweepsSetRight == Spec => SweepsSettle
<1> DEFINE Settles ==
       RemoveMissing =>
          \A c \in Containers :
             /\ c \notin seen => pool'[c] = NoAddr /\ failed'[c] = "none"
             /\ c \in seen \cap labelled => pool'[c] # NoAddr \/ failed'[c] # "none"
<1>1. Init => SweptSoFar
  BY DEF Init, SweptSoFar, NoAddr
<1>2. IInv /\ SweptSoFar /\ [Next]_vars => SweptSoFar'
  BY SweptInduct
<1>3. IInv /\ SweptSoFar => Settles
  BY DEF IInv, SweptSoFar, StepsInOrder, Accounted, RemoveMissing, BooksMatchRegistrar, TypeOK
<1>4. Spec => []SweptSoFar
  BY <1>1, <1>2, InductiveInvariant, PTL DEF Spec
<1>5. IInv /\ SweptSoFar /\ [Next]_vars => [Settles]_vars
  BY <1>3
<1> HIDE DEF Settles
<1>6. Spec => [][Settles]_vars
  BY <1>4, <1>5, InductiveInvariant, PTL DEF Spec
<1> QED
  BY <1>6 DEF Settles, SweepsSettle
=============================================================================
