---------------------------- MODULE DockerWatcher ----------------------------
(***************************************************************************)
(* docker.Watcher (src/docker/watcher.go): one goroutine that follows the    *)
(* Docker event stream, sweeps the container list every so often, and tells  *)
(* the registrar which containers to serve at which address.                *)
(*                                                                         *)
(* Each call to the Docker API is a step of its own, so containers start,    *)
(* stop and restart between what the watcher reads and what it does with it. *)
(* The registrar is proxy.Manager, by its contract: a Register for a key it  *)
(* has is a no-op that returns nil (module Manager checks that contract).    *)
(***************************************************************************)
EXTENDS Naturals, Sequences, FiniteSets

CONSTANTS
    Containers,
    MaxStarts,   \* bound: how often each container starts
    MaxSignals,  \* bound: how many signals are sent that stop no container
    MayLose      \* may an event be lost once the watcher has subscribed?

ASSUME BoundsAssumption == MaxStarts \in Nat \ {0} /\ MaxSignals \in Nat

ASSUME DockerAssumption == MayLose \in BOOLEAN

VARIABLES
    \* Docker.
    labelled,    \* the containers whose labels Parse accepts, fixed for good
    running,     \* the containers that run
    addr,        \* addr[c]: c's address, a new one each time it starts
    signals,     \* the number of signals sent
    events,      \* the events Docker has emitted and the watcher not received
    subscribed,  \* the event stream is open
    missed,      \* some event never reached the watcher (history)
    \* The watcher.
    pc,          \* its next step
    sweeping,    \* the registration in progress is a sweep's
    seen,        \* the containers of the last listing
    todo,        \* those the sweep has yet to register
    cur,         \* the container of the registration in progress
    got,         \* the address resolved for it
    active,      \* Watcher.active
    failed,      \* Watcher.failed
    \* The registrar.
    pool         \* the address it has for each key

docker == <<labelled, running, addr, signals, events, subscribed, missed>>
locals == <<sweeping, seen, todo, cur, got>>
books == <<active, failed, pool>>
vars == <<docker, pc, locals, books>>

NoAddr == 0
Addrs == 1 .. MaxStarts
Reasons == {"none", "resolve", "register"}

Steps == {"ping", "list", "walk", "subscribe", "select", "inspect", "resolve",
          "register", "stopped"}

Event == [action : {"start", "die", "kill"}, id : Containers]

TypeOK ==
    /\ labelled \subseteq Containers
    /\ running \subseteq Containers
    /\ addr \in [Containers -> Addrs \cup {NoAddr}]
    /\ signals \in 0 .. MaxSignals
    /\ events \in Seq(Event)
    /\ subscribed \in BOOLEAN
    /\ missed \in BOOLEAN
    /\ pc \in Steps
    /\ sweeping \in BOOLEAN
    /\ seen \subseteq Containers
    /\ todo \subseteq seen
    /\ cur \in Containers
    /\ got \in Addrs \cup {NoAddr}
    /\ active \in [Containers -> Addrs \cup {NoAddr}]
    /\ failed \in [Containers -> Reasons]
    /\ pool \in [Containers -> Addrs \cup {NoAddr}]

\* Some containers are up already when tsserve starts.
Init ==
    /\ labelled \in SUBSET Containers
    /\ running \in SUBSET Containers
    /\ addr = [c \in Containers |-> IF c \in running THEN 1 ELSE NoAddr]
    /\ signals = 0
    /\ events = <<>>
    /\ subscribed = FALSE
    /\ missed = FALSE
    /\ pc = "ping"
    /\ sweeping = TRUE
    /\ seen = {}
    /\ todo = {}
    /\ cur \in Containers
    /\ got = NoAddr
    /\ active = [c \in Containers |-> NoAddr]
    /\ failed = [c \in Containers |-> "none"]
    /\ pool = [c \in Containers |-> NoAddr]

-----------------------------------------------------------------------------
(* Docker: what happens to the containers, and what the stream says of it.   *)

\* An event before the subscription reaches nobody.
Emit(action, c) ==
    \/ /\ subscribed
       /\ events' = Append(events, [action |-> action, id |-> c])
       /\ UNCHANGED missed
    \/ /\ subscribed => MayLose
       /\ missed' = TRUE
       /\ UNCHANGED events

\* A container's address is its own: no start gives it an earlier one.
Start(c) ==
    /\ c \notin running
    /\ addr[c] < MaxStarts
    /\ running' = running \cup {c}
    /\ addr' = [addr EXCEPT ![c] = @ + 1]
    /\ Emit("start", c)
    /\ UNCHANGED <<labelled, signals, subscribed, pc, locals, books>>

Stop(c) ==
    /\ c \in running
    /\ running' = running \ {c}
    /\ Emit("die", c)
    /\ UNCHANGED <<labelled, addr, signals, subscribed, pc, locals, books>>

\* docker kill with a signal the container survives.
Signal(c) ==
    /\ c \in running
    /\ signals < MaxSignals
    /\ signals' = signals + 1
    /\ Emit("kill", c)
    /\ UNCHANGED <<labelled, running, addr, subscribed, pc, locals, books>>

-----------------------------------------------------------------------------
(* Run: ping, the initial scan, the subscription, then events and sweeps.    *)

Ping(ok) ==
    /\ pc = "ping"
    /\ pc' = IF ok THEN "list" ELSE "stopped"
    /\ UNCHANGED <<docker, locals, books>>

Subscribe ==
    /\ pc = "subscribe"
    /\ subscribed' = TRUE
    /\ pc' = "select"
    /\ UNCHANGED <<labelled, running, addr, signals, events, missed, locals, books>>

Tick ==
    /\ pc = "select"
    /\ sweeping' = TRUE
    /\ pc' = "list"
    /\ UNCHANGED <<docker, seen, todo, cur, got, books>>

\* The stream fails or the context is cancelled: Run returns.
Stopped ==
    /\ pc = "select"
    /\ pc' = "stopped"
    /\ UNCHANGED <<docker, locals, books>>

-----------------------------------------------------------------------------
(* reconcile.                                                               *)

List ==
    /\ pc = "list"
    /\ seen' = running
    /\ todo' = {c \in running \cap labelled : active[c] = NoAddr}
    /\ pc' = "walk"
    /\ UNCHANGED <<docker, sweeping, cur, got, books>>

\* At start-up a failed scan ends Run; a failed sweep is left for the next.
ListFails ==
    /\ pc = "list"
    /\ pc' = IF subscribed THEN "select" ELSE "stopped"
    /\ UNCHANGED <<docker, locals, books>>

Walk(c) ==
    /\ pc = "walk"
    /\ c \in todo
    /\ todo' = todo \ {c}
    /\ cur' = c
    /\ pc' = "resolve"
    /\ UNCHANGED <<docker, sweeping, seen, got, books>>

\* Mutant of RemoveMissing: the sweep adds what it misses and removes nothing.
RemoveMissingNothing ==
    /\ pc = "walk"
    /\ todo = {}
    /\ pc' = IF subscribed THEN "select" ELSE "subscribe"
    /\ UNCHANGED <<docker, locals, books>>

\* removeMissing: what the listing did not have is deregistered and forgotten.
RemoveMissing ==
    /\ pc = "walk"
    /\ todo = {}
    /\ pool' = [c \in Containers |->
          IF active[c] # NoAddr /\ c \notin seen THEN NoAddr ELSE pool[c]]
    /\ active' = [c \in Containers |-> IF c \in seen THEN active[c] ELSE NoAddr]
    /\ failed' = [c \in Containers |-> IF c \in seen THEN failed[c] ELSE "none"]
    /\ pc' = IF subscribed THEN "select" ELSE "subscribe"
    /\ UNCHANGED <<docker, locals>>

-----------------------------------------------------------------------------
(* handleEvent.                                                             *)

Received(action) == pc = "select" /\ events # <<>> /\ Head(events).action = action

StartEvent ==
    /\ Received("start")
    /\ events' = Tail(events)
    /\ cur' = Head(events).id
    /\ sweeping' = FALSE
    /\ pc' = "inspect"
    /\ UNCHANGED <<labelled, running, addr, signals, subscribed, missed, seen, todo,
                   got, books>>

\* Mutant of GoneEvent: the failure of a container that has gone is kept.
GoneEventKeepsFailure ==
    LET c == Head(events).id IN
    /\ Received("die") \/ Received("kill")
    /\ events' = Tail(events)
    /\ pool' = [pool EXCEPT ![c] = NoAddr]
    /\ active' = [active EXCEPT ![c] = NoAddr]
    /\ UNCHANGED <<labelled, running, addr, signals, subscribed, missed, pc, locals,
                   failed>>

\* die, stop, kill and destroy alike.
GoneEvent ==
    LET c == Head(events).id IN
    /\ Received("die") \/ Received("kill")
    /\ events' = Tail(events)
    /\ pool' = [pool EXCEPT ![c] = NoAddr]
    /\ active' = [active EXCEPT ![c] = NoAddr]
    /\ failed' = [failed EXCEPT ![c] = "none"]
    /\ UNCHANGED <<labelled, running, addr, signals, subscribed, missed, pc, locals>>

\* The labels of the container that started, if it can be inspected.
Inspect(ok) ==
    /\ pc = "inspect"
    /\ pc' = IF ok /\ cur \in labelled THEN "resolve" ELSE "select"
    /\ UNCHANGED <<docker, locals, books>>

-----------------------------------------------------------------------------
(* register.                                                                *)

\* Back to the sweep, or to the select loop.
Done == pc' = IF sweeping THEN "walk" ELSE "select"

\* A container that has stopped has no address; one that runs may have none yet.
ResolveFails ==
    /\ pc = "resolve"
    /\ failed' = [failed EXCEPT ![cur] = "resolve"]
    /\ Done
    /\ UNCHANGED <<docker, locals, active, pool>>

AlreadyServing ==
    /\ pc = "resolve"
    /\ cur \in running
    /\ active[cur] = addr[cur]
    /\ Done
    /\ UNCHANGED <<docker, locals, books>>

\* Mutant of Resolved: a backend that moved is registered again, not first
\* deregistered.
ResolvedInPlace ==
    /\ pc = "resolve"
    /\ cur \in running
    /\ active[cur] # addr[cur]
    /\ got' = addr[cur]
    /\ pc' = "register"
    /\ UNCHANGED <<docker, sweeping, seen, todo, cur, books>>

Resolved ==
    /\ pc = "resolve"
    /\ cur \in running
    /\ active[cur] # addr[cur]
    /\ got' = addr[cur]
    /\ pool' = IF active[cur] # NoAddr THEN [pool EXCEPT ![cur] = NoAddr] ELSE pool
    /\ active' = [active EXCEPT ![cur] = NoAddr]
    /\ pc' = "register"
    /\ UNCHANGED <<docker, sweeping, seen, todo, cur, failed>>

Registers ==
    /\ pc = "register"
    /\ pool' = IF pool[cur] = NoAddr THEN [pool EXCEPT ![cur] = got] ELSE pool
    /\ active' = [active EXCEPT ![cur] = got]
    /\ failed' = [failed EXCEPT ![cur] = "none"]
    /\ Done
    /\ UNCHANGED <<docker, locals>>

RegisterFails ==
    /\ pc = "register"
    /\ failed' = [failed EXCEPT ![cur] = "register"]
    /\ Done
    /\ UNCHANGED <<docker, locals, active, pool>>

-----------------------------------------------------------------------------

WatcherStep ==
    \/ \E ok \in BOOLEAN : Ping(ok) \/ Inspect(ok)
    \/ Subscribe
    \/ Tick
    \/ List
    \/ ListFails
    \/ \E c \in Containers : Walk(c)
    \/ RemoveMissing
    \/ StartEvent
    \/ GoneEvent
    \/ ResolveFails
    \/ AlreadyServing
    \/ Resolved
    \/ Registers
    \/ RegisterFails

Next ==
    \/ \E c \in Containers : Start(c) \/ Stop(c) \/ Signal(c)
    \/ WatcherStep
    \/ Stopped

Spec == Init /\ [][Next]_vars

\* The goroutine runs; select takes each of its ready cases sooner or later;
\* and a call that is made again and again, to Docker or to the registrar,
\* succeeds at last.
Fairness ==
    /\ WF_vars(WatcherStep)
    /\ SF_vars(Tick)
    /\ SF_vars(StartEvent \/ GoneEvent)
    /\ SF_vars(List)
    /\ \A c \in Containers : /\ SF_vars(cur = c /\ Resolved)
                             /\ SF_vars(cur = c /\ Registers)

FairSpec == Spec /\ Fairness

-----------------------------------------------------------------------------

\* What the watcher believes is served is what the registrar serves, address
\* for address: otherwise a sweep would skip a container that nobody serves,
\* or a moved backend would keep its old address.
BooksMatchRegistrar == active = pool

\* Once the watcher has caught up with a stream that left nothing out, every
\* address it serves is that of a running container, however the containers
\* stopped and restarted while it was listing, resolving and registering them;
\* and of a container that has gone it remembers nothing.
CaughtUpIsCurrent ==
    ~missed /\ pc = "select" /\ events = <<>> =>
        \A c \in Containers :
            /\ active[c] # NoAddr => c \in running /\ active[c] = addr[c]
            /\ failed[c] # "none" => c \in running

\* The watcher comes to agree with Docker though events be lost and
\* registrations fail at first: a container that stays down ends up
\* deregistered, and a labelled one that stays up is served; neither needs an
\* event of its own.
Converges ==
    \A c \in Containers :
        /\ <>[](c \notin running /\ pc # "stopped") => <>[](pool[c] = NoAddr)
        /\ <>[](c \in labelled \cap running /\ pc # "stopped") => <>[](pool[c] # NoAddr)

\* The comment in reconcile on a container it already serves: "A running
\* container's IP does not change under it, and one that restarts arrives as a
\* start event".  So a container that stays up ends up served at its address.
RunningIsServedAtItsAddress ==
    \A c \in Containers :
        <>[](c \in labelled \cap running /\ pc # "stopped") => <>[](pool[c] = addr[c])
=============================================================================
