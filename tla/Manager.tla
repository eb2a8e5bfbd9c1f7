------------------------------- MODULE Manager -------------------------------
(***************************************************************************)
(* proxy.Manager: the live set of advertised Tailscale Services and the     *)
(* backend pool of each (src/proxy/manager.go).                             *)
(*                                                                         *)
(* Every stretch of code that holds Manager.mu is one atomic action.  The   *)
(* calls made outside mu (ListenService, http.Server.Close, the listener's  *)
(* Close) are steps of their own, so that any other goroutine may run       *)
(* between them.  The goroutines are                                       *)
(*   - the callers: the discovery watchers, each one call at a time;        *)
(*   - Main, which calls Close once;                                       *)
(*   - one http.Server.Serve goroutine for each service record.            *)
(***************************************************************************)
EXTENDS Integers, FiniteSets, Sequences

CONSTANTS
    Callers,        \* goroutines that call Register and Deregister
    Main,           \* the goroutine that calls Close
    Keys,           \* registration keys
    Drives,         \* Drives[c]: the keys caller c registers and deregisters
    Services,       \* Tailscale Service names
    Defs,           \* the service definitions a registration may carry
    Recs,           \* identities of advertisedService records, never reused
    AcceptMayFail,  \* may a listener's Accept fail while nobody closed it?
    NoRec, NoService, NoKey, Free

ASSUME DrivesAssumption == Drives \in [Callers -> SUBSET Keys]

ASSUME KeysAssumption == IsFiniteSet(Keys)

ASSUME DefsAssumption == \A d \in Defs : d.service \in Services

ASSUME NamesAssumption ==
    /\ Main \notin Callers
    /\ NoRec \notin Recs
    /\ NoService \notin Services
    /\ NoKey \notin Keys
    /\ Free \notin Callers \cup {Main} \cup Recs
    /\ (Callers \cup {Main}) \cap Recs = {}

ASSUME FaultAssumption == AcceptMayFail \in BOOLEAN

VARIABLES
    \* Fields of Manager, guarded by mu.
    index,        \* Manager.services: the record that occupies each name
    byKey,        \* Manager.byKey: the service each key is registered with
    shutdown,     \* Manager.shutdown
    \* Fields of the advertisedService records, guarded by mu.
    def,          \* def[r]: name, scheme and caps, fixed when r is created
    ready,        \* ready[r]
    advertised,   \* advertised[r]: the channel of that name
    withdrawing,  \* withdrawing[r]: the channel of that name
    pool,         \* pool[r]: the keys of the backends in r's pool
    \* The gauges.
    active,       \* tsserve_services_active
    backends,     \* tsserve_service_backends, by service
    \* The serve config, the HTTP servers and the lock around config edits.
    serveMu,      \* Manager.serveMu: Free or the goroutine that holds it
    open,         \* the records whose listener's handler is in the config
    srvDown,      \* the records whose http.Server has been closed
    serve,        \* serve[r]: r's http.Server.Serve goroutine
    \* The goroutines.
    pc,           \* the next step of each caller and of Main
    key,          \* key[c]: the key of c's registration in progress
    want,         \* want[c]: the definition of c's registration in progress
    target,       \* target[t]: the record t is working on
    pending,      \* the records Close has collected and not yet torn down
    \* What the callers have been told, kept for the properties.
    holds,        \* the keys whose last call was a Register that returned nil
    offered       \* offered[k]: the definition k joined its pool with

registry == <<index, byKey, shutdown>>
records == <<def, ready, advertised, withdrawing, pool>>
gauges == <<active, backends>>
serving == <<serveMu, open, srvDown, serve>>
threads == <<pc, key, want, target, pending>>
history == <<holds, offered>>
vars == <<registry, records, gauges, serving, threads, history>>

Threads == Callers \cup {Main}

\* The backends gauge of a service that has no series.
NoSeries == -1

NoDef == [service |-> NoService, scheme |-> "", caps |-> <<>>]

Channel == {"nil", "open", "closed"}

ServeState ==
    {"none", "spawned", "running", "returning", "closing", "done"}

Steps ==
    {"idle", "register", "waitAdvertised", "waitWithdrawing", "listen",
     "listening", "abandon", "publish", "srvClose", "srvLock", "srvClosing",
     "lnLock", "lnClosing", "withdrawn", "closing", "done"}

TypeOK ==
    /\ index \in [Services -> Recs \cup {NoRec}]
    /\ byKey \in [Keys -> Services \cup {NoService}]
    /\ shutdown \in BOOLEAN
    /\ def \in [Recs -> Defs \cup {NoDef}]
    /\ ready \in [Recs -> BOOLEAN]
    /\ advertised \in [Recs -> Channel]
    /\ withdrawing \in [Recs -> Channel]
    /\ pool \in [Recs -> SUBSET Keys]
    /\ active \in Int
    /\ backends \in [Services -> Int]
    /\ serveMu \in Threads \cup Recs \cup {Free}
    /\ open \in SUBSET Recs
    /\ srvDown \in SUBSET Recs
    /\ serve \in [Recs -> ServeState]
    /\ pc \in [Threads -> Steps]
    /\ key \in [Callers -> Keys \cup {NoKey}]
    /\ want \in [Callers -> Defs \cup {NoDef}]
    /\ target \in [Threads -> Recs \cup {NoRec}]
    /\ pending \in SUBSET Recs
    /\ holds \in SUBSET Keys
    /\ offered \in [Keys -> Defs \cup {NoDef}]

-----------------------------------------------------------------------------

Init ==
    /\ index = [s \in Services |-> NoRec]
    /\ byKey = [k \in Keys |-> NoService]
    /\ shutdown = FALSE
    /\ def = [r \in Recs |-> NoDef]
    /\ ready = [r \in Recs |-> FALSE]
    /\ advertised = [r \in Recs |-> "nil"]
    /\ withdrawing = [r \in Recs |-> "nil"]
    /\ pool = [r \in Recs |-> {}]
    /\ active = 0
    /\ backends = [s \in Services |-> NoSeries]
    /\ serveMu = Free
    /\ open = {}
    /\ srvDown = {}
    /\ serve = [r \in Recs |-> "none"]
    /\ pc = [t \in Threads |-> "idle"]
    /\ key = [c \in Callers |-> NoKey]
    /\ want = [c \in Callers |-> NoDef]
    /\ target = [t \in Threads |-> NoRec]
    /\ pending = {}
    /\ holds = {}
    /\ offered = [k \in Keys |-> NoDef]

\* The name of a record's service.
Name(r) == def[r].service

GoTo(t, step) == pc' = [pc EXCEPT ![t] = step]

\* Caller c's call returns.
Return(c) ==
    /\ GoTo(c, "idle")
    /\ key' = [key EXCEPT ![c] = NoKey]
    /\ want' = [want EXCEPT ![c] = NoDef]
    /\ target' = [target EXCEPT ![c] = NoRec]
    /\ UNCHANGED pending

\* The registration c is making ends with a nil result, or with an error.
ReturnNil(c) == Return(c) /\ holds' = holds \cup {key[c]}
ReturnError(c) == Return(c) /\ holds' = holds \ {key[c]}

-----------------------------------------------------------------------------
(* Labels that two backends of one service must agree on.                   *)

CapsSubset(a, b) == \A i \in DOMAIN a : \E j \in DOMAIN b : a[i] = b[j]

\* Mutant of SameCaps: only one direction is compared.
SameCapsOneWay(a, b) == CapsSubset(a, b)

SameCaps(a, b) == CapsSubset(a, b) /\ CapsSubset(b, a)

ConflictWith(d, e) == d.scheme # e.scheme \/ ~SameCaps(d.caps, e.caps)

\* Mutant of Transition: a withdrawal in flight is overlooked.
TransitionReadyOnly(r) == IF ~ready[r] THEN "waitAdvertised" ELSE "none"

(* The channel a registration that finds r in the index must wait on.       *)
Transition(r) ==
    IF withdrawing[r] # "nil" THEN "waitWithdrawing"
    ELSE IF ~ready[r] THEN "waitAdvertised"
    ELSE "none"

\* Mutant of Serving: a record being withdrawn still counts.
ServingReady(r) == ready[r]

Serving(r) == ready[r] /\ withdrawing[r] = "nil"

-----------------------------------------------------------------------------
(* RegisterHostPort and RegisterFunction: the call, then the loop of        *)
(* register, whose critical section has six outcomes.                       *)

Unused == {r \in Recs : def[r] = NoDef}

\* Bound: a registration starts only if a record is left for it to claim.
RecordLeft ==
    Cardinality({c \in Callers :
        pc[c] \in {"register", "waitAdvertised", "waitWithdrawing"}})
      < Cardinality(Unused)

CallRegister(c, k, d) ==
    /\ pc[c] = "idle"
    /\ k \in Drives[c]
    /\ RecordLeft
    /\ GoTo(c, "register")
    /\ key' = [key EXCEPT ![c] = k]
    /\ want' = [want EXCEPT ![c] = d]
    /\ UNCHANGED <<registry, records, gauges, serving, target, pending, history>>

RegisterShutdown(c) ==
    /\ pc[c] = "register"
    /\ shutdown
    /\ ReturnError(c)
    /\ UNCHANGED <<registry, records, gauges, serving, offered>>

RegisterKnown(c) ==
    /\ pc[c] = "register"
    /\ ~shutdown
    /\ byKey[key[c]] # NoService
    /\ ReturnNil(c)
    /\ UNCHANGED <<registry, records, gauges, serving, offered>>

\* Mutant of Proceeds: the key is not looked up.
ProceedsUnknown(c) == pc[c] = "register" /\ ~shutdown

\* Mutant of Proceeds: shutdown is not looked at.
ProceedsAfterShutdown(c) == pc[c] = "register" /\ byKey[key[c]] = NoService

\* The registration goes on past the shutdown and idempotence checks.
Proceeds(c) ==
    /\ pc[c] = "register"
    /\ ~shutdown
    /\ byKey[key[c]] = NoService

RegisterClaim(c, r) ==
    /\ Proceeds(c)
    /\ index[want[c].service] = NoRec
    /\ r \in Unused
    /\ index' = [index EXCEPT ![want[c].service] = r]
    /\ def' = [def EXCEPT ![r] = want[c]]
    /\ advertised' = [advertised EXCEPT ![r] = "open"]
    /\ target' = [target EXCEPT ![c] = r]
    /\ GoTo(c, "listen")
    /\ UNCHANGED <<byKey, shutdown, ready, withdrawing, pool, gauges, serving,
                   key, want, pending, history>>

RegisterWait(c) ==
    LET r == index[want[c].service] IN
    /\ Proceeds(c)
    /\ r # NoRec
    /\ Transition(r) # "none"
    /\ target' = [target EXCEPT ![c] = r]
    /\ GoTo(c, Transition(r))
    /\ UNCHANGED <<registry, records, gauges, serving, key, want, pending,
                   history>>

RegisterConflict(c) ==
    LET r == index[want[c].service] IN
    /\ Proceeds(c)
    /\ r # NoRec
    /\ Transition(r) = "none"
    /\ ConflictWith(def[r], want[c])
    /\ ReturnError(c)
    /\ UNCHANGED <<registry, records, gauges, serving, offered>>

RegisterJoin(c) ==
    LET r == index[want[c].service] IN
    /\ Proceeds(c)
    /\ r # NoRec
    /\ Transition(r) = "none"
    /\ ~ConflictWith(def[r], want[c])
    /\ pool' = [pool EXCEPT ![r] = @ \cup {key[c]}]
    /\ byKey' = [byKey EXCEPT ![key[c]] = Name(r)]
    /\ backends' = [backends EXCEPT ![Name(r)] = Cardinality(pool'[r])]
    /\ offered' = [offered EXCEPT ![key[c]] = want[c]]
    /\ ReturnNil(c)
    /\ UNCHANGED <<index, shutdown, def, ready, advertised, withdrawing, active,
                   serving>>

(* <-wait: the channel of the transition in flight has been closed.         *)
Awake(c) ==
    /\ \/ pc[c] = "waitAdvertised" /\ advertised[target[c]] = "closed"
       \/ pc[c] = "waitWithdrawing" /\ withdrawing[target[c]] = "closed"
    /\ GoTo(c, "register")
    /\ target' = [target EXCEPT ![c] = NoRec]
    /\ UNCHANGED <<registry, records, gauges, serving, key, want, pending,
                   history>>

-----------------------------------------------------------------------------
(* advertise: ListenService under serveMu, then the claim is published or   *)
(* released under mu.                                                       *)

\* tsnet: a handler for service s is in the node's serve config.
HandlerInConfig(s) == \E r \in open : Name(r) = s

ListenLock(c) ==
    /\ pc[c] = "listen"
    /\ serveMu = Free
    /\ serveMu' = c
    /\ GoTo(c, "listening")
    /\ UNCHANGED <<registry, records, gauges, open, srvDown, serve, key, want,
                   target, pending, history>>

ListenOpens(c) ==
    /\ pc[c] = "listening"
    /\ ~HandlerInConfig(Name(target[c]))
    /\ open' = open \cup {target[c]}
    /\ serveMu' = Free
    /\ GoTo(c, "publish")
    /\ UNCHANGED <<registry, records, gauges, srvDown, serve, key, want, target,
                   pending, history>>

\* Whatever the error, fatal or not: the claim is released all the same.
ListenFails(c) ==
    /\ pc[c] = "listening"
    /\ serveMu' = Free
    /\ GoTo(c, "abandon")
    /\ UNCHANGED <<registry, records, gauges, open, srvDown, serve, key, want,
                   target, pending, history>>

\* Mutant of ReleaseLocked: the channel is not closed.
ReleaseLockedSilent(r) ==
    /\ index' = IF index[Name(r)] = r
                THEN [index EXCEPT ![Name(r)] = NoRec] ELSE index
    /\ UNCHANGED <<byKey, shutdown, def, ready, advertised, withdrawing, pool>>

\* releaseLocked: r leaves the index if it is still there; its waiters wake.
ReleaseLocked(r) ==
    /\ index' = IF index[Name(r)] = r
                THEN [index EXCEPT ![Name(r)] = NoRec] ELSE index
    /\ advertised' = IF ready[r] THEN advertised
                     ELSE [advertised EXCEPT ![r] = "closed"]
    /\ UNCHANGED <<byKey, shutdown, def, ready, withdrawing, pool>>

Abandon(c) ==
    /\ pc[c] = "abandon"
    /\ ReleaseLocked(target[c])
    /\ ReturnError(c)
    /\ UNCHANGED <<gauges, serving, offered>>

\* Mutant of PublishShutdown: the listener just opened is not closed.
PublishShutdownLeaks(c) ==
    /\ pc[c] = "publish"
    /\ shutdown
    /\ ReleaseLocked(target[c])
    /\ ReturnError(c)
    /\ UNCHANGED <<gauges, serving, offered>>

\* Mutant of PublishShutdown: the claim is released, and then abandoned.
PublishShutdownAbandons(c) ==
    /\ pc[c] = "publish"
    /\ shutdown
    /\ ReleaseLocked(target[c])
    /\ GoTo(c, "abandon")
    /\ UNCHANGED <<gauges, serving, key, want, target, pending, history>>

PublishShutdown(c) ==
    /\ pc[c] = "publish"
    /\ shutdown
    /\ ReleaseLocked(target[c])
    /\ GoTo(c, "srvClose")
    /\ UNCHANGED <<gauges, serving, key, want, target, pending, history>>

Publish(c) ==
    LET r == target[c] IN
    /\ pc[c] = "publish"
    /\ ~shutdown
    /\ pool' = [pool EXCEPT ![r] = @ \cup {key[c]}]
    /\ ready' = [ready EXCEPT ![r] = TRUE]
    /\ advertised' = [advertised EXCEPT ![r] = "closed"]
    /\ byKey' = [byKey EXCEPT ![key[c]] = Name(r)]
    /\ active' = active + 1
    /\ backends' = [backends EXCEPT ![Name(r)] = Cardinality(pool'[r])]
    /\ serve' = [serve EXCEPT ![r] = "spawned"]
    /\ offered' = [offered EXCEPT ![key[c]] = want[c]]
    /\ ReturnNil(c)
    /\ UNCHANGED <<index, shutdown, def, withdrawing, serveMu, open, srvDown>>

-----------------------------------------------------------------------------
(* closeFn, run by the caller that emptied a pool, by the advertiser that    *)
(* found the manager shut down, and by Close: http.Server.Close, which       *)
(* closes the listener if Serve has begun to track it, then the listener's   *)
(* own Close.  serialisedListener.Close holds serveMu around the edit.       *)
(* Closing a listener twice edits the config once.                          *)

SrvClose(t) ==
    /\ pc[t] = "srvClose"
    /\ srvDown' = srvDown \cup {target[t]}
    /\ GoTo(t, IF serve[target[t]] = "running" THEN "srvLock" ELSE "lnLock")
    /\ UNCHANGED <<registry, records, gauges, serveMu, open, serve, key, want,
                   target, pending, history>>

CloseLock(t) ==
    /\ pc[t] \in {"srvLock", "lnLock"}
    /\ serveMu = Free
    /\ serveMu' = t
    /\ GoTo(t, IF pc[t] = "srvLock" THEN "srvClosing" ELSE "lnClosing")
    /\ UNCHANGED <<registry, records, gauges, open, srvDown, serve, key, want,
                   target, pending, history>>

SrvClosed(t) ==
    /\ pc[t] = "srvClosing"
    /\ open' = open \ {target[t]}
    /\ serveMu' = Free
    /\ GoTo(t, "lnLock")
    /\ UNCHANGED <<registry, records, gauges, srvDown, serve, key, want, target,
                   pending, history>>

\* closeFn returns to Deregister, to an advertise that gave up, or to Close.
LnClosed(t) ==
    /\ pc[t] = "lnClosing"
    /\ open' = open \ {target[t]}
    /\ serveMu' = Free
    /\ IF t \in Callers /\ ~ready[target[t]]
       THEN ReturnError(t)
       ELSE /\ GoTo(t, IF t = Main THEN "closing" ELSE "withdrawn")
            /\ UNCHANGED <<key, want, target, pending, holds>>
    /\ UNCHANGED <<registry, records, gauges, srvDown, serve, offered>>

-----------------------------------------------------------------------------
(* Deregister: a backend that is not the last leaves the pool; the last one  *)
(* withdraws the service, keeping its record in the index until the          *)
(* listener is closed.                                                      *)

\* k is registered and the index holds a published record for its service.
Registered(k) ==
    /\ byKey[k] # NoService
    /\ index[byKey[k]] # NoRec
    /\ ready[index[byKey[k]]]

\* Mutant of Forget: the service leaves the index with the key, before its
\* listener is closed.
ForgetService(k) ==
    /\ byKey' = [byKey EXCEPT ![k] = NoService]
    /\ index' = [index EXCEPT ![byKey[k]] = NoRec]
    /\ holds' = holds \ {k}
    /\ offered' = [offered EXCEPT ![k] = NoDef]
    /\ UNCHANGED shutdown

Forget(k) ==
    /\ byKey' = [byKey EXCEPT ![k] = NoService]
    /\ holds' = holds \ {k}
    /\ offered' = [offered EXCEPT ![k] = NoDef]
    /\ UNCHANGED <<index, shutdown>>

DeregisterUnknown(c, k) ==
    /\ pc[c] = "idle"
    /\ k \in Drives[c]
    /\ ~Registered(k)
    /\ Forget(k)
    /\ UNCHANGED <<records, gauges, serving, threads>>

Leave(c, k, r) ==
    /\ pc[c] = "idle"
    /\ k \in Drives[c]
    /\ Registered(k)
    /\ r = index[byKey[k]]
    /\ Forget(k)
    /\ pool' = [pool EXCEPT ![r] = @ \ {k}]
    /\ UNCHANGED <<def, ready, advertised, active, serving>>

Deregister(c, k) ==
    LET r == index[byKey[k]] IN
    /\ Leave(c, k, r)
    /\ pool'[r] # {}
    /\ backends' = [backends EXCEPT ![byKey[k]] = Cardinality(pool'[r])]
    /\ UNCHANGED <<withdrawing, threads>>

DeregisterLast(c, k) ==
    LET r == index[byKey[k]] IN
    /\ Leave(c, k, r)
    /\ pool'[r] = {}
    /\ withdrawing' = [withdrawing EXCEPT ![r] = "open"]
    /\ target' = [target EXCEPT ![c] = r]
    /\ GoTo(c, "srvClose")
    /\ UNCHANGED <<backends, key, want, pending>>

\* Mutant of Withdrawn: the gauges are lowered though Close has reset them.
WithdrawnUnchecked(c) ==
    LET r == target[c] IN
    /\ pc[c] = "withdrawn"
    /\ index' = [index EXCEPT ![Name(r)] = NoRec]
    /\ active' = active - 1
    /\ backends' = [backends EXCEPT ![Name(r)] = NoSeries]
    /\ withdrawing' = [withdrawing EXCEPT ![r] = "closed"]
    /\ Return(c)
    /\ UNCHANGED <<byKey, shutdown, def, ready, advertised, pool, serving,
                   history>>

Withdrawn(c) ==
    LET r == target[c] IN
    /\ pc[c] = "withdrawn"
    /\ IF index[Name(r)] = r
       THEN /\ index' = [index EXCEPT ![Name(r)] = NoRec]
            /\ active' = active - 1
            /\ backends' = [backends EXCEPT ![Name(r)] = NoSeries]
       ELSE UNCHANGED <<index, gauges>>
    /\ withdrawing' = [withdrawing EXCEPT ![r] = "closed"]
    /\ Return(c)
    /\ UNCHANGED <<byKey, shutdown, def, ready, advertised, pool, serving,
                   history>>

-----------------------------------------------------------------------------
(* Close: the index is emptied at once; the records that were serving are    *)
(* then torn down one after the other.                                      *)

Close ==
    /\ pc[Main] = "idle"
    /\ shutdown' = TRUE
    /\ pending' = {r \in Recs : Serving(r) /\ \E s \in Services : index[s] = r}
    /\ index' = [s \in Services |-> NoRec]
    /\ byKey' = [k \in Keys |-> NoService]
    /\ active' = 0
    /\ backends' = [s \in Services |-> NoSeries]
    /\ GoTo(Main, "closing")
    /\ UNCHANGED <<records, serving, key, want, target, history>>

CloseNext(r) ==
    /\ pc[Main] = "closing"
    /\ r \in pending
    /\ pending' = pending \ {r}
    /\ target' = [target EXCEPT ![Main] = r]
    /\ GoTo(Main, "srvClose")
    /\ UNCHANGED <<registry, records, gauges, serving, key, want, history>>

CloseDone ==
    /\ pc[Main] = "closing"
    /\ pending = {}
    /\ target' = [target EXCEPT ![Main] = NoRec]
    /\ GoTo(Main, "done")
    /\ UNCHANGED <<registry, records, gauges, serving, key, want, pending,
                   history>>

-----------------------------------------------------------------------------
(* The goroutine advertise starts for r: http.Server.Serve.  Started after   *)
(* the server was closed, it returns at once; on any return it closes the    *)
(* listener, unless http.Server.Close closed it on its behalf.              *)

ServeTo(r, state) == serve' = [serve EXCEPT ![r] = state]

ServeStart(r) ==
    /\ serve[r] = "spawned"
    /\ ServeTo(r, IF r \in srvDown THEN "returning" ELSE "running")
    /\ UNCHANGED <<registry, records, gauges, serveMu, open, srvDown, threads,
                   history>>

ServeReturns(r) ==
    /\ serve[r] = "running"
    /\ r \notin open
    /\ ServeTo(r, "done")
    /\ UNCHANGED <<registry, records, gauges, serveMu, open, srvDown, threads,
                   history>>

AcceptFails(r) ==
    /\ AcceptMayFail
    /\ serve[r] = "running"
    /\ r \notin srvDown
    /\ ServeTo(r, "returning")
    /\ UNCHANGED <<registry, records, gauges, serveMu, open, srvDown, threads,
                   history>>

\* Mutant of ServeLock: the listener given to Serve is not the serialised one.
ServeLockUnserialised(r) ==
    /\ serve[r] = "returning"
    /\ ServeTo(r, "closing")
    /\ UNCHANGED <<registry, records, gauges, serveMu, open, srvDown, threads,
                   history>>

ServeLock(r) ==
    /\ serve[r] = "returning"
    /\ serveMu = Free
    /\ serveMu' = r
    /\ ServeTo(r, "closing")
    /\ UNCHANGED <<registry, records, gauges, open, srvDown, threads, history>>

ServeClosed(r) ==
    /\ serve[r] = "closing"
    /\ open' = open \ {r}
    /\ serveMu' = Free
    /\ ServeTo(r, "done")
    /\ UNCHANGED <<registry, records, gauges, srvDown, threads, history>>

-----------------------------------------------------------------------------

StartCall(c) ==
    \E k \in Keys :
        \/ \E d \in Defs : CallRegister(c, k, d)
        \/ DeregisterUnknown(c, k)
        \/ Deregister(c, k)
        \/ DeregisterLast(c, k)

RegisterStep(c) ==
    \/ RegisterShutdown(c)
    \/ RegisterKnown(c)
    \/ \E r \in Recs : RegisterClaim(c, r)
    \/ RegisterWait(c)
    \/ RegisterConflict(c)
    \/ RegisterJoin(c)
    \/ Awake(c)

AdvertiseStep(c) ==
    \/ ListenLock(c)
    \/ ListenOpens(c)
    \/ ListenFails(c)
    \/ Abandon(c)
    \/ PublishShutdown(c)
    \/ Publish(c)

CloseFnStep(t) == SrvClose(t) \/ CloseLock(t) \/ SrvClosed(t) \/ LnClosed(t)

\* What a caller does once it has made its call.
CallerStep(c) ==
    RegisterStep(c) \/ AdvertiseStep(c) \/ CloseFnStep(c) \/ Withdrawn(c)

\* What Main does once it has called Close.
CloseStep == CloseFnStep(Main) \/ CloseDone \/ \E r \in Recs : CloseNext(r)

ServeStep(r) ==
    ServeStart(r) \/ ServeReturns(r) \/ ServeLock(r) \/ ServeClosed(r)

Next ==
    \/ \E c \in Callers : StartCall(c) \/ CallerStep(c)
    \/ Close
    \/ CloseStep
    \/ \E r \in Recs : ServeStep(r) \/ AcceptFails(r)

Spec == Init /\ [][Next]_vars

\* A started call, a started Close and a started goroutine keep running, and
\* each lock is handed to a goroutine that waits for it; nothing makes a
\* watcher call, Main close, or Accept fail.
Fairness ==
    /\ \A c \in Callers : WF_vars(CallerStep(c))
    /\ WF_vars(CloseStep)
    /\ \A r \in Recs : WF_vars(ServeStep(r))

FairSpec == Spec /\ Fairness
-----------------------------------------------------------------------------
(* Safety.                                                                  *)

\* The discipline the watchers keep: each key has one goroutine driving it.
ExclusiveKeys ==
    \A c, d \in Callers : c # d => Drives[c] \cap Drives[d] = {}

\* A registration that returned nil is, until it is deregistered or the
\* manager shuts down, a member of the pool of the serving record the index
\* holds for its service, and that record's listener is open (unless Accept
\* failed under it): the contract in RegisterHostPort's comment.
RegisteredIsServed ==
    ~shutdown => \A k \in holds :
        /\ byKey[k] # NoService
        /\ LET r == index[byKey[k]] IN
           /\ r # NoRec
           /\ Serving(r)
           /\ k \in pool[r]
           /\ AcceptMayFail \/ r \in open

\* No backend is served behind the manager's back: before shutdown every
\* member of any record's pool is the backend byKey has for its key, and the
\* record is the one the index holds.  Deregister finds nothing else.
NoOrphanBackend ==
    ~shutdown => \A r \in Recs : \A k \in pool[r] :
        byKey[k] = Name(r) /\ index[Name(r)] = r

\* ListenService is never called for a service whose handler is still in the
\* serve config, which tsnet would refuse: not while the outgoing listener is
\* being closed, nor by two registrations at once.
ListenNeverRefused ==
    \A c \in Callers : pc[c] \in {"listen", "listening"} =>
        ~HandlerInConfig(Name(target[c]))

\* The goroutines with an edit of the serve config in flight.
Editing ==
    {t \in Threads : pc[t] \in {"listening", "srvClosing", "lnClosing"}}
      \cup {r \in Recs : serve[r] = "closing"}

\* Edits of the serve config never overlap, so none fails on a stale ETag:
\* neither two calls of ListenService, nor one with a listener's Close from
\* Deregister, Close or a Serve goroutine that returns late.
SerialEdits == \A e, f \in Editing : e = f

\* Every record is torn down by one goroutine: Close, the Deregister that
\* emptied its pool and an advertise that found the manager shut down never
\* run the cancel and closeFn of one record twice.
TeardownOnce ==
    /\ \A t \in Threads : pc[t] = "srvClose" => target[t] \notin srvDown
    /\ \A t, u \in Threads :
          /\ {pc[t], pc[u]} \subseteq
               {"srvClose", "srvLock", "srvClosing", "lnLock", "lnClosing"}
          /\ target[t] = target[u]
          => t = u
    /\ pending \cap srvDown = {}

\* A registration waiting for a transition is never forgotten: while its
\* channel is open, some other call is on its way to closing it.  This holds
\* across Close, which drops the record from the index.
WaiterHasWaker ==
    \A c \in Callers :
        /\ pc[c] = "waitAdvertised" /\ advertised[target[c]] # "closed" =>
             \E d \in Callers \ {c} :
                /\ target[d] = target[c]
                /\ pc[d] \in {"listen", "listening", "abandon", "publish"}
        /\ pc[c] = "waitWithdrawing" /\ withdrawing[target[c]] # "closed" =>
             \E d \in Callers \ {c} :
                /\ target[d] = target[c]
                /\ pc[d] \in {"srvClose", "srvLock", "srvClosing", "lnLock",
                              "lnClosing", "withdrawn"}

\* No channel is closed twice, which would panic: the goroutine about to
\* close one finds it open, whatever Close and the others did meanwhile.
ChannelsClosedOnce ==
    \A c \in Callers :
        /\ pc[c] \in {"abandon", "publish"} => advertised[target[c]] = "open"
        /\ pc[c] = "withdrawn" => withdrawing[target[c]] = "open"

\* The gauges are functions of the advertised services: the active count is
\* the number of records that have been published and not dropped, and each
\* has a series with its pool size (1 from when its pool empties until the
\* record is dropped).  In particular the count never goes below zero.
GaugesMatchIndex ==
    LET advertisedNow == {s \in Services : index[s] # NoRec /\ ready[index[s]]}
        size(s) == IF Serving(index[s]) THEN Cardinality(pool[index[s]]) ELSE 1
    IN /\ active = Cardinality(advertisedNow)
       /\ backends = [s \in Services |->
             IF s \in advertisedNow THEN size(s) ELSE NoSeries]

\* Backends of one pool agree on scheme and capabilities with the labels the
\* listener was opened with, though the labels offered for a key may change
\* between calls and the record may have been replaced while the call waited.
PoolsHomogeneous ==
    LET capSet(d) == {d.caps[i] : i \in DOMAIN d.caps} IN
    ~shutdown => \A r \in Recs : \A k \in pool[r] :
        /\ offered[k].scheme = def[r].scheme
        /\ capSet(offered[k]) = capSet(def[r])

\* The views Snapshot returns.
Snapshot ==
    {[service |-> s, keys |-> pool[index[s]]] :
        s \in {n \in Services : index[n] # NoRec /\ Serving(index[n])}}

\* Whatever is in flight when the status page asks, each view shows at least
\* one backend, and every key registered at that moment is in exactly the view
\* of its service.
SnapshotIsTheRegistry ==
    /\ \A v \in Snapshot : v.keys # {}
    /\ \A k \in Keys : {v.service : v \in {w \in Snapshot : k \in w.keys}} =
                         {byKey[k]} \ {NoService}

\* Once Close has finished and every call in flight has returned, no handler
\* is left in the serve config and no record in the index.
NothingLeftBehind ==
    pc[Main] = "done" /\ (\A c \in Callers : pc[c] = "idle") =>
        open = {} /\ \A s \in Services : index[s] = NoRec

-----------------------------------------------------------------------------
(* Action properties and liveness.                                          *)

\* Once the manager is shut down nothing is claimed, joined or published: the
\* index and the key map stay empty and the flag stays set.
ShutdownIsFinal ==
    [][shutdown => UNCHANGED <<index, byKey, shutdown, active, backends>>]_vars

\* What RegisterHostPort's comment says of repeated calls: a key that is in a pool is
\* added to no other, whichever goroutines register it.
RepeatIsNoOp ==
    [][\A r \in Recs : \A k \in pool'[r] \ pool[r] :
          \A q \in Recs : k \notin pool[q]]_vars

\* Every call of Register and Deregister returns: no registration waits
\* forever on a transition, and no goroutine waits forever for serveMu.
EveryCallReturns ==
    \A c \in Callers : pc[c] # "idle" ~> pc[c] = "idle"
=============================================================================
