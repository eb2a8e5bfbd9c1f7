--------------------------- MODULE ManagerTheorems ---------------------------
(***************************************************************************)
(* Manager's safety properties, for any number of callers, keys, services    *)
(* and records: consequences of the inductive invariant.                    *)
(***************************************************************************)
EXTENDS ManagerProofs, ManagerRefinement

\* Every variable keeps its type, along every interleaving.
THEOREM TypeCorrect ==
    ASSUME ExclusiveKeys
    PROVE  Spec => []TypeOK
<1>1. IInv => TypeOK
  BY DEF IInv
<1> QED
  BY <1>1, InductiveInvariant, PTL

\* Edits of the serve config never overlap (serveMu, manager.go:82-89).
THEOREM EditsAreSerial ==
    ASSUME ExclusiveKeys
    PROVE  Spec => []SerialEdits
<1>1. IInv => SerialEdits
  <2> SUFFICES ASSUME IInv, NEW e \in Editing, NEW f \in Editing
               PROVE  e = f
    BY DEF SerialEdits
  <2>1. \A g \in Editing : serveMu = g
    BY DEF IInv, LockInv, Editing
  <2> QED
    BY <2>1
<1> QED
  BY <1>1, InductiveInvariant, PTL

\* ListenService is never called while the service's handler is still in the
\* serve config.
THEOREM ListenIsNeverRefused ==
    ASSUME ExclusiveKeys
    PROVE  Spec => []ListenNeverRefused
<1>1. IInv => ListenNeverRefused
  <2> SUFFICES ASSUME IInv, NEW c \in Callers, pc[c] \in {"listen", "listening"},
                      NEW r \in open, Name(r) = Name(target[c])
               PROVE  FALSE
    BY DEF ListenNeverRefused, HandlerInConfig
  <2>1. r \in Recs /\ target[c] \in Recs
    BY DEF IInv, TypeOK, StepInv, AdvertiseSteps
  <2>2. target[c] \notin open
    BY DEF IInv, OwnerInv, AdvertiseSteps
  <2>3. advertised[target[c]] = "open"
    BY <2>1 DEF IInv, RecordInv, Advertises, AdvertiseSteps
  <2>4. r = target[c]
    BY <2>1, <2>3 DEF IInv, OccupancyInv, Occupies, Claimed
  <2> QED
    BY <2>2, <2>4
<1> QED
  BY <1>1, InductiveInvariant, PTL

\* No record is torn down twice, by whichever of Close, Deregister and
\* advertise.
THEOREM TornDownOnce ==
    ASSUME ExclusiveKeys
    PROVE  Spec => []TeardownOnce
<1>1. IInv => TeardownOnce
  <2> SUFFICES ASSUME IInv
               PROVE  TeardownOnce
    OBVIOUS
  <2>1. \A t \in Threads : pc[t] = "srvClose" => target[t] \notin srvDown
    BY DEF IInv, OwnerInv, Threads
  <2>2. ASSUME NEW t \in Threads, NEW u \in Threads, pc[t] \in CloseFnSteps,
               pc[u] \in CloseFnSteps, target[t] = target[u]
        PROVE  t = u
    <3>1. CASE t \in Callers /\ u \in Callers
      BY <2>2, <3>1 DEF IInv, OwnerInv, WithdrawSteps
    <3>2. ASSUME NEW c \in Callers, pc[c] \in CloseFnSteps,
                 pc[Main] \in CloseFnSteps, target[c] = target[Main]
          PROVE  FALSE
      <4> DEFINE r == target[c]
      <4>1. r \in Recs /\ ready[r] /\ withdrawing[r] = "nil"
        BY <3>2 DEF IInv, StepInv, OwnerInv, Serving
      <4>2. withdrawing[r] = "open"
        BY <3>2, <4>1 DEF IInv, RecordInv, TearsDown, WithdrawSteps
      <4> QED
        BY <4>1, <4>2
    <3> QED
      BY <2>2, <3>1, <3>2 DEF Threads
  <2>3. pending \cap srvDown = {}
    BY DEF IInv, RecordInv, TypeOK
  <2> QED
    BY <2>1, <2>2, <2>3 DEF TeardownOnce, CloseFnSteps
<1> QED
  BY <1>1, InductiveInvariant, PTL

\* No channel is closed twice, so neither publishing, abandoning nor
\* withdrawing panics.
THEOREM ChannelsAreClosedOnce ==
    ASSUME ExclusiveKeys
    PROVE  Spec => []ChannelsClosedOnce
<1>1. IInv => ChannelsClosedOnce
  <2> SUFFICES ASSUME IInv, NEW c \in Callers
               PROVE  /\ pc[c] \in {"abandon", "publish"} =>
                           advertised[target[c]] = "open"
                      /\ pc[c] = "withdrawn" => withdrawing[target[c]] = "open"
    BY DEF ChannelsClosedOnce
  <2>1. CASE pc[c] \in {"abandon", "publish"}
    <3>1. target[c] \in Recs /\ pc[c] # "withdrawn"
      BY <2>1 DEF IInv, StepInv, AdvertiseSteps
    <3> QED
      BY <2>1, <3>1 DEF IInv, RecordInv, Advertises, AdvertiseSteps
  <2>2. CASE pc[c] = "withdrawn"
    <3>1. target[c] \in Recs /\ ready[target[c]]
      BY <2>2 DEF IInv, StepInv, OwnerInv, WithdrawSteps
    <3> QED
      BY <2>2, <3>1 DEF IInv, RecordInv, TearsDown, WithdrawSteps
  <2> QED
    BY <2>1, <2>2
<1> QED
  BY <1>1, InductiveInvariant, PTL

\* A registration that returned nil stays served until it is deregistered or
\* the manager shuts down.
THEOREM RegistrationsAreServed ==
    ASSUME ExclusiveKeys
    PROVE  Spec => []RegisteredIsServed
<1>1. IInv => RegisteredIsServed
  <2> SUFFICES ASSUME IInv, ~shutdown, NEW k \in holds
               PROVE  /\ byKey[k] # NoService
                      /\ index[byKey[k]] # NoRec
                      /\ Serving(index[byKey[k]])
                      /\ k \in pool[index[byKey[k]]]
                      /\ AcceptMayFail \/ index[byKey[k]] \in open
    BY DEF RegisteredIsServed
  <2>1. k \in Keys /\ byKey[k] # NoService
    BY DEF IInv, TypeOK, PoolInv
  <2>2. /\ index[byKey[k]] # NoRec
        /\ Serving(index[byKey[k]])
        /\ k \in pool[index[byKey[k]]]
    BY <2>1 DEF IInv, KeyInv
  <2>3. index[byKey[k]] \in Recs
    BY <2>1, <2>2 DEF IInv, TypeOK
  <2>4. ~AcceptMayFail => index[byKey[k]] \in open
    BY <2>2, <2>3 DEF IInv, ListenerInv, ListenerUp
  <2> QED
    BY <2>1, <2>2, <2>4
<1> QED
  BY <1>1, InductiveInvariant, PTL

\* No pool has a member that Deregister could not find.
THEOREM NoBackendIsOrphaned ==
    ASSUME ExclusiveKeys
    PROVE  Spec => []NoOrphanBackend
<1>1. IInv => NoOrphanBackend
  <2> SUFFICES ASSUME IInv, ~shutdown, NEW r \in Recs, NEW k \in pool[r]
               PROVE  byKey[k] = Name(r) /\ index[Name(r)] = r
    BY DEF NoOrphanBackend
  <2>1. byKey[k] = Name(r)
    BY DEF IInv, PoolInv
  <2>2. Claimed(r)
    BY DEF IInv, RecordInv, Claimed
  <2> QED
    BY <2>1, <2>2 DEF IInv, OccupancyInv, Occupies
<1> QED
  BY <1>1, InductiveInvariant, PTL

\* After Close and the calls in flight, the serve config and the index are
\* empty.
THEOREM ShutdownLeavesNothing ==
    ASSUME ExclusiveKeys
    PROVE  Spec => []NothingLeftBehind
<1>1. IInv => NothingLeftBehind
  <2> SUFFICES ASSUME IInv, pc[Main] = "done", \A c \in Callers : pc[c] = "idle"
               PROVE  open = {} /\ \A s \in Services : index[s] = NoRec
    BY DEF NothingLeftBehind
  <2>1. shutdown /\ pending = {}
    BY DEF IInv, StepInv
  <2>2. ASSUME NEW r \in open
        PROVE  FALSE
    <3>1. r \in Recs
      BY <2>2 DEF IInv, TypeOK
    <3>2. \A t \in Threads : pc[t] \notin CloseFnSteps \cup {"publish"}
      BY DEF Threads, CloseFnSteps
    <3> QED
      BY <2>1, <2>2, <3>1, <3>2 DEF IInv, ListenerInv, ListenerAccounted, Threads
  <2> QED
    BY <2>1, <2>2 DEF IInv, OccupancyInv
<1> QED
  BY <1>1, InductiveInvariant, PTL

\* What Snapshot returns is the registry, at any moment.
THEOREM SnapshotIsExact ==
    ASSUME ExclusiveKeys
    PROVE  Spec => []SnapshotIsTheRegistry
<1>1. IInv => SnapshotIsTheRegistry
  <2> SUFFICES ASSUME IInv
               PROVE  SnapshotIsTheRegistry
    OBVIOUS
  <2> DEFINE shown == {n \in Services : index[n] # NoRec /\ Serving(index[n])}
             views(k) == {w \in Snapshot : k \in w.keys}
  <2>1. shutdown => shown = {}
    BY DEF IInv, OccupancyInv
  <2>2. \A n \in shown : index[n] \in Recs /\ Name(index[n]) = n
    BY DEF IInv, TypeOK, OccupancyInv
  <2>3. ASSUME NEW v \in Snapshot
        PROVE  v.keys # {}
    <3>1. PICK n \in shown : v = [service |-> n, keys |-> pool[index[n]]]
      BY <2>3 DEF Snapshot
    <3>2. ~shutdown /\ index[n] \in Recs /\ Serving(index[n])
      BY <2>1, <2>2, <3>1
    <3> QED
      BY <3>1, <3>2 DEF IInv, PoolInv
  <2>4. ASSUME NEW k \in Keys
        PROVE  {v.service : v \in views(k)} = {byKey[k]} \ {NoService}
    <3>1. ASSUME NEW w \in views(k)
          PROVE  w.service = byKey[k] /\ w.service # NoService
      <4>1. PICK n \in shown : w = [service |-> n, keys |-> pool[index[n]]]
        BY <3>1 DEF Snapshot
      <4>2. ~shutdown /\ index[n] \in Recs /\ Name(index[n]) = n /\ n \in Services
        BY <2>1, <2>2, <4>1
      <4>3. k \in pool[index[n]] /\ w.service = n
        BY <3>1, <4>1
      <4>4. byKey[k] = n
        BY <4>2, <4>3 DEF IInv, PoolInv
      <4> QED
        BY <4>2, <4>3, <4>4, NamesAssumption
    <3>2. ASSUME byKey[k] # NoService
          PROVE  \E w \in views(k) : w.service = byKey[k]
      <4> DEFINE n == byKey[k]
                 w == [service |-> n, keys |-> pool[index[n]]]
      <4>1. n \in shown /\ k \in pool[index[n]]
        BY <3>2 DEF IInv, KeyInv, TypeOK
      <4>2. w \in Snapshot
        BY <4>1 DEF Snapshot
      <4>3. w.keys = pool[index[n]] /\ w.service = n
        OBVIOUS
      <4> QED
        BY <4>1, <4>2, <4>3
    <3> QED
      BY <3>1, <3>2
  <2> QED
    BY <2>3, <2>4 DEF SnapshotIsTheRegistry
<1> QED
  BY <1>1, InductiveInvariant, PTL

-----------------------------------------------------------------------------

\* Once shut down, no step of any goroutine changes the index, the key map,
\* the flag or the gauges.
LEMMA ShutdownFreezes ==
    ASSUME IInv, shutdown, [Next]_vars
    PROVE  UNCHANGED <<index, byKey, shutdown, active, backends>>
<1> USE DEF registry, records, gauges, serving, threads, history
<1>1. /\ \A s \in Services : index[s] = NoRec
      /\ \A k \in Keys : byKey[k] = NoService
      /\ pc[Main] # "idle"
  BY DEF IInv, OccupancyInv, KeyInv, StepInv
<1>2. /\ index \in [Services -> Recs \cup {NoRec}]
      /\ byKey \in [Keys -> Services \cup {NoService}]
  BY DEF IInv, TypeOK
<1>3. ASSUME NEW c \in Callers, StartCall(c)
      PROVE  UNCHANGED <<index, byKey, shutdown, active, backends>>
  <2>1. PICK k \in Keys : \/ \E d \in Defs : CallRegister(c, k, d)
                         \/ DeregisterUnknown(c, k)
                         \/ Deregister(c, k)
                         \/ DeregisterLast(c, k)
    BY <1>3 DEF StartCall
  <2>2. ~Registered(k)
    BY <1>1 DEF Registered
  <2> QED
    BY <1>1, <1>2, <2>1, <2>2
       DEF CallRegister, DeregisterUnknown, Deregister, DeregisterLast, Leave,
           Forget
<1>4. ASSUME NEW c \in Callers, RegisterStep(c)
      PROVE  UNCHANGED <<index, byKey, shutdown, active, backends>>
  BY <1>4 DEF RegisterStep, RegisterShutdown, RegisterKnown, RegisterClaim,
              RegisterWait, RegisterConflict, RegisterJoin, Awake, Proceeds
<1>5. ASSUME NEW c \in Callers, pc[c] \in AdvertiseSteps \cup WithdrawSteps
      PROVE  index[Name(target[c])] # target[c]
  <2>1. target[c] \in Recs /\ Name(target[c]) \in Services
    BY <1>5, DefsAssumption DEF IInv, StepInv, Name
  <2> QED
    BY <1>1, <2>1, NamesAssumption
<1>6. ASSUME NEW c \in Callers, AdvertiseStep(c)
      PROVE  UNCHANGED <<index, byKey, shutdown, active, backends>>
  BY <1>5, <1>6 DEF AdvertiseStep, ListenLock, ListenOpens, ListenFails, Abandon,
              PublishShutdown, Publish, ReleaseLocked, AdvertiseSteps
<1>7. ASSUME NEW c \in Callers, Withdrawn(c)
      PROVE  UNCHANGED <<index, byKey, shutdown, active, backends>>
  BY <1>5, <1>7 DEF Withdrawn, WithdrawSteps
<1>8. ASSUME NEW t \in Threads, CloseFnStep(t)
      PROVE  UNCHANGED <<index, byKey, shutdown, active, backends>>
  BY <1>8 DEF CloseFnStep, SrvClose, CloseLock, SrvClosed, LnClosed
<1>9. ASSUME Close \/ CloseDone \/ \E r \in Recs : CloseNext(r)
      PROVE  UNCHANGED <<index, byKey, shutdown, active, backends>>
  BY <1>1, <1>9 DEF Close, CloseDone, CloseNext
<1>10. ASSUME NEW r \in Recs, ServeStep(r) \/ AcceptFails(r)
       PROVE  UNCHANGED <<index, byKey, shutdown, active, backends>>
  BY <1>10 DEF ServeStep, ServeStart, ServeReturns, ServeLock, ServeClosed,
               AcceptFails
<1> QED
  BY <1>3, <1>4, <1>6, <1>7, <1>8, <1>9, <1>10
     DEF Next, vars, CallerStep, CloseStep, Threads

\* The shutdown that Close began is final.
THEOREM ShutdownFinal ==
    ASSUME ExclusiveKeys
    PROVE  Spec => ShutdownIsFinal
<1>1. IInv /\ [Next]_vars =>
        [shutdown => UNCHANGED <<index, byKey, shutdown, active, backends>>]_vars
  BY ShutdownFreezes
<1> QED
  BY <1>1, InductiveInvariant, PTL DEF Spec, ShutdownIsFinal

-----------------------------------------------------------------------------

\* A channel that exists goes on existing, and a registration begins to wait
\* only on one that exists.
LEMMA WaiterInduct ==
    ASSUME IInv, WaiterInv, [Next]_vars
    PROVE  WaiterInv'
<1> USE DEF GoTo, registry, records, gauges, serving, threads, history, Threads
<1> DEFINE Keeps == \A r \in Recs :
                       /\ advertised[r] # "nil" => advertised'[r] # "nil"
                       /\ withdrawing[r] # "nil" => withdrawing'[r] # "nil"
           Stays(c) == pc'[c] = pc[c] /\ target'[c] = target[c]
           Others(c) == \A d \in Callers \ {c} : Stays(d)
<1>2. ASSUME NEW c \in Callers, Others(c), Keeps,
             pc'[c] \notin {"waitAdvertised", "waitWithdrawing"}
      PROVE  WaiterInv'
  BY <1>2 DEF WaiterInv, IInv, StepInv
<1>3. ASSUME Keeps, \A c \in Callers : Stays(c)
      PROVE  WaiterInv'
  BY <1>3 DEF WaiterInv, IInv, StepInv
<1>4. ASSUME NEW c \in Callers, StartCall(c)
      PROVE  WaiterInv'
  <2>1. PICK k \in Keys : \/ \E d \in Defs : CallRegister(c, k, d)
                         \/ DeregisterUnknown(c, k)
                         \/ Deregister(c, k)
                         \/ DeregisterLast(c, k)
    BY <1>4 DEF StartCall
  <2>2. Keeps
    BY <2>1 DEF CallRegister, DeregisterUnknown, Deregister, DeregisterLast,
                Leave, IInv, TypeOK
  <2>3. Others(c) /\ pc'[c] \notin {"waitAdvertised", "waitWithdrawing"}
    BY <2>1 DEF CallRegister, DeregisterUnknown, Deregister, DeregisterLast,
                Leave, IInv, TypeOK
  <2> QED
    BY <1>2, <2>2, <2>3
<1>5. ASSUME NEW c \in Callers, RegisterStep(c), ~RegisterWait(c)
      PROVE  WaiterInv'
  <2>1. Keeps
    BY <1>5 DEF RegisterStep, RegisterShutdown, RegisterKnown, RegisterClaim,
                RegisterConflict, RegisterJoin, Awake, IInv, TypeOK
  <2>2. Others(c) /\ pc'[c] \notin {"waitAdvertised", "waitWithdrawing"}
    BY <1>5 DEF RegisterStep, RegisterShutdown, RegisterKnown, RegisterClaim,
                RegisterConflict, RegisterJoin, Awake, ReturnError, ReturnNil,
                Return, IInv, TypeOK
  <2> QED
    BY <1>2, <2>1, <2>2
<1>6. ASSUME NEW c \in Callers, RegisterWait(c)
      PROVE  WaiterInv'
  <2> DEFINE r == index[want[c].service]
  <2>1. /\ r \in Recs /\ Claimed(r) /\ Transition(r) # "none"
        /\ target'[c] = r /\ pc'[c] = Transition(r)
        /\ Others(c) /\ UNCHANGED <<advertised, withdrawing>>
    BY <1>6, DefsAssumption DEF RegisterWait, Proceeds, IInv, TypeOK, StepInv,
                                OccupancyInv
  <2>2. /\ Transition(r) = "waitAdvertised" => advertised[r] # "nil"
        /\ Transition(r) = "waitWithdrawing" => withdrawing[r] # "nil"
    BY <2>1 DEF Transition, Claimed
  <2> QED
    BY <2>1, <2>2 DEF WaiterInv
<1>7. ASSUME NEW c \in Callers, AdvertiseStep(c) \/ Withdrawn(c)
      PROVE  WaiterInv'
  <2>1. Keeps
    BY <1>7 DEF AdvertiseStep, ListenLock, ListenOpens, ListenFails, Abandon,
                PublishShutdown, Publish, ReleaseLocked, Withdrawn, IInv, TypeOK
  <2>2. Others(c) /\ pc'[c] \notin {"waitAdvertised", "waitWithdrawing"}
    BY <1>7 DEF AdvertiseStep, ListenLock, ListenOpens, ListenFails, Abandon,
                PublishShutdown, Publish, Withdrawn, ReturnError, ReturnNil,
                Return, IInv, TypeOK
  <2> QED
    BY <1>2, <2>1, <2>2
<1>8. ASSUME NEW t \in Threads, CloseFnStep(t)
      PROVE  WaiterInv'
  <2>1. Keeps
    BY <1>8 DEF CloseFnStep, SrvClose, CloseLock, SrvClosed, LnClosed
  <2>2. /\ Others(t)
        /\ t \in Callers => pc'[t] \notin {"waitAdvertised", "waitWithdrawing"}
    BY <1>8 DEF CloseFnStep, SrvClose, CloseLock, SrvClosed, LnClosed,
                ReturnError, Return, IInv, TypeOK
  <2> QED
    BY <1>2, <1>3, <2>1, <2>2
<1>9. ASSUME Close \/ CloseDone \/ \E r \in Recs : CloseNext(r)
      PROVE  WaiterInv'
  <2>1. Keeps /\ \A c \in Callers : Stays(c)
    BY <1>9, NamesAssumption DEF Close, CloseDone, CloseNext, IInv, TypeOK
  <2> QED
    BY <1>3, <2>1
<1>10. ASSUME NEW r \in Recs, ServeStep(r) \/ AcceptFails(r)
       PROVE  WaiterInv'
  BY <1>3, <1>10 DEF ServeStep, ServeStart, ServeReturns, ServeLock, ServeClosed,
                     AcceptFails
<1>11. CASE UNCHANGED vars
  BY <1>3, <1>11 DEF vars
<1> QED
  BY <1>4, <1>5, <1>6, <1>7, <1>8, <1>9, <1>10, <1>11
     DEF Next, CallerStep, CloseStep

\* No registration waits for a wake-up that nobody will give: the goroutine
\* that will close its channel is at work.
THEOREM WaitersAreWoken ==
    ASSUME ExclusiveKeys
    PROVE  Spec => []WaiterHasWaker
<1>1. Init => WaiterInv
  BY DEF Init, WaiterInv, Threads
<1>2. IInv /\ WaiterInv => WaiterHasWaker
  <2> SUFFICES ASSUME IInv, WaiterInv, NEW c \in Callers
               PROVE  /\ pc[c] = "waitAdvertised"
                            /\ advertised[target[c]] # "closed" =>
                           \E d \in Callers : Advertises(d, target[c])
                      /\ pc[c] = "waitWithdrawing"
                            /\ withdrawing[target[c]] # "closed" =>
                           \E d \in Callers : TearsDown(d, target[c])
    BY DEF WaiterHasWaker, Advertises, TearsDown, AdvertiseSteps, WithdrawSteps,
           CloseFnSteps
  <2>1. pc[c] \in {"waitAdvertised", "waitWithdrawing"} => target[c] \in Recs
    BY DEF IInv, StepInv
  <2>2. \A r \in Recs : advertised[r] \in Channel /\ withdrawing[r] \in Channel
    BY DEF IInv, TypeOK
  <2> QED
    BY <2>1, <2>2 DEF IInv, RecordInv, WaiterInv, Channel
<1>3. IInv /\ WaiterInv /\ [Next]_vars => WaiterInv'
  BY WaiterInduct
<1> QED
  BY <1>1, <1>2, <1>3, InductiveInvariant, PTL DEF Spec

\* A claim is made with the labels of the registration that makes it.
ClaimInv ==
    \A c \in Callers : pc[c] \in AdvertiseSteps => def[target[c]] = want[c]

\* What PoolsHomogeneous asks of a member and its pool.
Fits(e, d) ==
    /\ e.scheme = d.scheme
    /\ {e.caps[i] : i \in DOMAIN e.caps} = {d.caps[i] : i \in DOMAIN d.caps}

\* Labels that do not conflict fit.
LEMMA NoConflict ==
    ASSUME NEW d, NEW e, ~ConflictWith(d, e)
    PROVE  Fits(e, d)
BY DEF Fits, ConflictWith, SameCaps, CapsSubset

\* PoolsHomogeneous in terms of Fits.
LEMMA AllFit ==
    PoolsHomogeneous <=>
        (~shutdown => \A r \in Recs : \A k \in pool[r] : Fits(offered[k], def[r]))
BY Zenon DEF PoolsHomogeneous, Fits

\* ClaimInv is preserved: only c's own steps move what c claimed.
LEMMA ClaimInduct ==
    ASSUME IInv, ClaimInv, [Next]_vars
    PROVE  ClaimInv'
<1> USE DEF GoTo, registry, records, gauges, serving, threads, history, Threads
<1> DEFINE Stays(c) == pc'[c] = pc[c] /\ target'[c] = target[c] /\ want'[c] = want[c]
           Others(c) == \A d \in Callers \ {c} : Stays(d)
<1>1. \A c \in Callers : pc[c] \in AdvertiseSteps =>
          target[c] \in Recs /\ target[c] \notin Unused
  BY DEF IInv, StepInv, UnusedInv, RecordInv, Advertises, Unused
<1>2. ASSUME def' = def, NEW c \in Callers, Others(c),
             pc'[c] \in AdvertiseSteps => pc[c] \in AdvertiseSteps /\ UNCHANGED <<target, want>>
      PROVE  ClaimInv'
  BY <1>2 DEF ClaimInv
<1>3. ASSUME def' = def, \A c \in Callers : Stays(c)
      PROVE  ClaimInv'
  BY <1>3 DEF ClaimInv
<1>4. ASSUME NEW c \in Callers, StartCall(c)
      PROVE  ClaimInv'
  <2>1. PICK k \in Keys : \/ \E d \in Defs : CallRegister(c, k, d)
                         \/ DeregisterUnknown(c, k)
                         \/ Deregister(c, k)
                         \/ DeregisterLast(c, k)
    BY <1>4 DEF StartCall
  <2>2. def' = def /\ Others(c) /\ pc'[c] \notin AdvertiseSteps
    BY <2>1 DEF CallRegister, DeregisterUnknown, Deregister, DeregisterLast,
                Leave, IInv, TypeOK, AdvertiseSteps
  <2> QED
    BY <1>2, <2>2
<1>5. ASSUME NEW c \in Callers, RegisterStep(c), ~\E r \in Recs : RegisterClaim(c, r)
      PROVE  ClaimInv'
  <2>1. def' = def /\ Others(c) /\ pc'[c] \notin AdvertiseSteps
    BY <1>5 DEF RegisterStep, RegisterShutdown, RegisterKnown, RegisterWait, Transition,
                RegisterConflict, RegisterJoin, Awake, ReturnError, ReturnNil,
                Return, IInv, TypeOK, AdvertiseSteps
  <2> QED
    BY <1>2, <2>1
<1>6. ASSUME NEW c \in Callers, NEW r \in Recs, RegisterClaim(c, r)
      PROVE  ClaimInv'
  <2>1. /\ def' = [def EXCEPT ![r] = want[c]] /\ r \in Unused
        /\ target'[c] = r /\ Others(c) /\ want' = want
    BY <1>6 DEF RegisterClaim, IInv, TypeOK
  <2>2. def'[r] = want[c] /\ \A q \in Recs \ {r} : def'[q] = def[q]
    BY <2>1 DEF IInv, TypeOK
  <2> QED
    BY <1>1, <2>1, <2>2 DEF ClaimInv
<1>7. ASSUME NEW c \in Callers, AdvertiseStep(c) \/ Withdrawn(c)
      PROVE  ClaimInv'
  <2>1. /\ def' = def /\ Others(c)
        /\ pc'[c] \in AdvertiseSteps => pc[c] \in AdvertiseSteps /\ UNCHANGED <<target, want>>
    BY <1>7 DEF AdvertiseStep, ListenLock, ListenOpens, ListenFails, Abandon,
                PublishShutdown, Publish, ReleaseLocked, Withdrawn, ReturnError,
                ReturnNil, Return, IInv, TypeOK, AdvertiseSteps
  <2> QED
    BY <1>2, <2>1
<1>8. ASSUME NEW t \in Threads, CloseFnStep(t)
      PROVE  ClaimInv'
  <2>1. def' = def /\ Others(t) /\ (t \in Callers => pc'[t] \notin AdvertiseSteps)
    BY <1>8 DEF CloseFnStep, SrvClose, CloseLock, SrvClosed, LnClosed,
                ReturnError, Return, IInv, TypeOK, AdvertiseSteps
  <2>2. CASE t \in Callers
    BY <1>2, <2>1, <2>2
  <2>3. CASE t \notin Callers
    BY <1>3, <2>1, <2>3
  <2> QED
    BY <2>2, <2>3
<1>9. ASSUME Close \/ CloseDone \/ \E r \in Recs : CloseNext(r)
      PROVE  ClaimInv'
  <2>1. def' = def /\ \A c \in Callers : Stays(c)
    BY <1>9, NamesAssumption DEF Close, CloseDone, CloseNext, IInv, TypeOK
  <2> QED
    BY <1>3, <2>1
<1>10. ASSUME NEW r \in Recs, ServeStep(r) \/ AcceptFails(r)
       PROVE  ClaimInv'
  BY <1>3, <1>10 DEF ServeStep, ServeStart, ServeReturns, ServeLock, ServeClosed,
                     AcceptFails
<1>11. CASE UNCHANGED vars
  BY <1>3, <1>11 DEF vars
<1> QED
  BY <1>4, <1>5, <1>6, <1>7, <1>8, <1>9, <1>10, <1>11
     DEF Next, CallerStep, CloseStep

\* The same of the next state.
LEMMA AllFitNext ==
    PoolsHomogeneous' <=>
        (~shutdown' => \A r \in Recs : \A k \in pool'[r] : Fits(offered'[k], def'[r]))
BY Zenon DEF PoolsHomogeneous, Fits

\* Until shutdown a member's key leads to its pool.
LEMMA MemberOf ==
    ASSUME IInv, ~shutdown, NEW r \in Recs, NEW k \in pool[r]
    PROVE  k \in Keys /\ byKey[k] = Name(r) /\ Serving(r) /\ index[byKey[k]] = r
<1>1. k \in Keys /\ byKey[k] = Name(r)
  BY DEF IInv, TypeOK, PoolInv
<1>2. ready[r] /\ withdrawing[r] = "nil"
  BY DEF IInv, RecordInv
<1>3. Occupies(r)
  BY <1>2 DEF Occupies, Claimed
<1> QED
  BY <1>1, <1>2, <1>3 DEF IInv, OccupancyInv, Serving

\* A key that is not registered is in no pool.
LEMMA RegisteredIsMember ==
    ASSUME IInv, NEW k \in Keys, ~Registered(k), ~shutdown, NEW r \in Recs
    PROVE  k \notin pool[r]
<1> SUFFICES ASSUME k \in pool[r] PROVE FALSE
  OBVIOUS
<1>1. byKey[k] = Name(r) /\ Serving(r) /\ index[byKey[k]] = r
  BY MemberOf
<1>2. byKey[k] # NoService
  <2>1. def[r] # NoDef
    BY DEF IInv, UnusedInv
  <2>2. def[r] \in Defs
    BY <2>1 DEF IInv, TypeOK
  <2> QED
    BY <1>1, <2>2, DefsAssumption, NamesAssumption DEF Name
<1> QED
  BY <1>1, <1>2, NamesAssumption DEF Registered, Serving

\* PoolsHomogeneous is preserved, given that claims carry their labels.
LEMMA PoolsInduct ==
    ASSUME IInv, ClaimInv, PoolsHomogeneous, [Next]_vars
    PROVE  PoolsHomogeneous'
<1> USE DEF GoTo, registry, records, gauges, serving, threads, history, Threads
<1> DEFINE Same(r, k) == /\ ~shutdown /\ k \in pool[r]
                         /\ offered'[k] = offered[k] /\ def'[r] = def[r]
<1>1. ASSUME ~shutdown' => \A r \in Recs : \A k \in pool'[r] :
                 Same(r, k) \/ ~ConflictWith(def'[r], offered'[k])
      PROVE  PoolsHomogeneous'
  <2> SUFFICES ASSUME ~shutdown', NEW r \in Recs, NEW k \in pool'[r]
               PROVE  Fits(offered'[k], def'[r])
    BY AllFitNext
  <2>1. CASE Same(r, k)
    BY <2>1, AllFit
  <2>2. CASE ~ConflictWith(def'[r], offered'[k])
    BY <2>2, NoConflict
  <2> QED
    BY <1>1, <2>1, <2>2
<1>2. ASSUME shutdown' = shutdown, UNCHANGED <<pool, offered>>,
             \A r \in Recs : pool[r] # {} => def'[r] = def[r]
      PROVE  PoolsHomogeneous'
  BY <1>1, <1>2
<1>3. ASSUME NEW c \in Callers, NEW k \in Keys,
             \/ DeregisterUnknown(c, k) \/ Deregister(c, k) \/ DeregisterLast(c, k)
      PROVE  PoolsHomogeneous'
  <2>1. /\ shutdown' = shutdown /\ def' = def
        /\ \A j \in Keys \ {k} : offered'[j] = offered[j]
    BY <1>3 DEF DeregisterUnknown, Deregister, DeregisterLast, Leave, Forget, IInv, TypeOK
  <2>2. ASSUME ~shutdown, NEW r \in Recs, NEW j \in pool'[r]
        PROVE  j \in pool[r] /\ j # k
    <3>1. CASE DeregisterUnknown(c, k)
      BY <3>1, <2>2, RegisteredIsMember DEF DeregisterUnknown
    <3>2. CASE Leave(c, k, index[byKey[k]])
      <4>1. index[byKey[k]] \in Recs /\ pool \in [Recs -> SUBSET Keys]
        BY <3>2, NamesAssumption DEF Leave, Registered, IInv, TypeOK
      <4>2. pool' = [pool EXCEPT ![index[byKey[k]]] = @ \ {k}]
        BY <3>2 DEF Leave
      <4>3. j \in pool[r]
        BY <2>2, <4>1, <4>2
      <4>4. CASE r = index[byKey[k]]
        BY <2>2, <4>1, <4>2, <4>3, <4>4
      <4>5. CASE r # index[byKey[k]]
        BY <2>2, <4>3, <4>5, MemberOf
      <4> QED
        BY <4>3, <4>4, <4>5
    <3> QED
      BY <1>3, <3>1, <3>2 DEF Deregister, DeregisterLast
  <2>3. \A r \in Recs : pool[r] \subseteq Keys
    BY DEF IInv, TypeOK
  <2> QED
    BY <1>1, <2>1, <2>2, <2>3
<1>4. ASSUME NEW c \in Callers, NEW k \in Keys, NEW d \in Defs, CallRegister(c, k, d)
      PROVE  PoolsHomogeneous'
  BY <1>2, <1>4 DEF CallRegister
<1>5. ASSUME NEW c \in Callers,
             \/ RegisterShutdown(c) \/ RegisterKnown(c) \/ RegisterWait(c)
             \/ RegisterConflict(c) \/ Awake(c)
      PROVE  PoolsHomogeneous'
  BY <1>2, <1>5 DEF RegisterShutdown, RegisterKnown, RegisterWait, RegisterConflict, Awake
<1>6. ASSUME NEW c \in Callers, NEW r \in Recs, RegisterClaim(c, r)
      PROVE  PoolsHomogeneous'
  <2>1. /\ shutdown' = shutdown /\ UNCHANGED <<pool, offered>>
        /\ pool[r] = {} /\ \A q \in Recs \ {r} : def'[q] = def[q]
    BY <1>6 DEF RegisterClaim, Unused, IInv, TypeOK, UnusedInv
  <2> QED
    BY <1>2, <2>1
<1>7. ASSUME NEW c \in Callers, NEW r \in Recs, ~shutdown, ~ConflictWith(def[r], want[c]),
             key[c] \in Keys, ~Registered(key[c]), def' = def,
             pool' = [pool EXCEPT ![r] = @ \cup {key[c]}],
             offered' = [offered EXCEPT ![key[c]] = want[c]]
      PROVE  PoolsHomogeneous'
  <2>1. /\ pool \in [Recs -> SUBSET Keys] /\ offered \in [Keys -> Defs \cup {NoDef}]
    BY DEF IInv, TypeOK
  <2>2. \A q \in Recs : key[c] \notin pool[q]
    BY <1>7, RegisteredIsMember
  <2>3. offered'[key[c]] = want[c] /\ \A k \in Keys \ {key[c]} : offered'[k] = offered[k]
    BY <1>7, <2>1
  <2>4. ASSUME NEW q \in Recs, NEW k \in pool'[q]
        PROVE  Same(q, k) \/ ~ConflictWith(def'[q], offered'[k])
    <3>1. CASE k \in pool[q]
      BY <1>7, <2>1, <2>2, <2>3, <3>1
    <3>2. CASE k \notin pool[q]
      <4>1. q = r /\ k = key[c]
        BY <1>7, <2>1, <2>4, <3>2
      <4> QED
        BY <1>7, <2>3, <4>1
    <3> QED
      BY <3>1, <3>2
  <2> QED
    BY <1>1, <2>4
<1>8. ASSUME NEW c \in Callers, pc[c] \in {"register"} \cup AdvertiseSteps
      PROVE  key[c] \in Keys /\ want[c] \in Defs
  BY <1>8, DrivesAssumption DEF IInv, StepInv
<1>9. ASSUME NEW c \in Callers, RegisterJoin(c)
      PROVE  PoolsHomogeneous'
  <2>1. PICK r \in Recs : r = index[want[c].service]
    BY <1>8, <1>9, DefsAssumption DEF RegisterJoin, Proceeds, IInv, TypeOK
  <2>2. ~shutdown /\ ~Registered(key[c]) /\ key[c] \in Keys
    BY <1>8, <1>9 DEF RegisterJoin, Proceeds, Registered
  <2>3. /\ ~ConflictWith(def[r], want[c]) /\ def' = def
        /\ pool' = [pool EXCEPT ![r] = @ \cup {key[c]}]
        /\ offered' = [offered EXCEPT ![key[c]] = want[c]]
    BY <1>9, <2>1 DEF RegisterJoin
  <2> QED
    BY <1>7, <2>2, <2>3
<1>10. ASSUME NEW c \in Callers, Publish(c)
       PROVE  PoolsHomogeneous'
  <2>1. PICK r \in Recs : r = target[c]
    BY <1>10 DEF Publish, IInv, StepInv, AdvertiseSteps
  <2>2. ~shutdown /\ ~Registered(key[c]) /\ key[c] \in Keys
    BY <1>8, <1>10 DEF Publish, IInv, ProgressInv, AdvertiseSteps, Registered
  <2>3. ~ConflictWith(def[r], want[c])
    <3>1. def[r] = want[c]
      BY <1>10, <2>1 DEF Publish, ClaimInv, AdvertiseSteps
    <3> QED
      BY <3>1 DEF ConflictWith, SameCaps, CapsSubset
  <2>4. /\ def' = def
        /\ pool' = [pool EXCEPT ![r] = @ \cup {key[c]}]
        /\ offered' = [offered EXCEPT ![key[c]] = want[c]]
    BY <1>10, <2>1 DEF Publish
  <2> QED
    BY <1>7, <2>2, <2>3, <2>4
<1>11. ASSUME NEW c \in Callers,
              \/ ListenLock(c) \/ ListenOpens(c) \/ ListenFails(c) \/ Abandon(c)
              \/ PublishShutdown(c) \/ Withdrawn(c)
       PROVE  PoolsHomogeneous'
  BY <1>2, <1>11 DEF ListenLock, ListenOpens, ListenFails, Abandon, PublishShutdown,
                     ReleaseLocked, Withdrawn
<1>12. ASSUME NEW t \in Threads, CloseFnStep(t)
       PROVE  PoolsHomogeneous'
  BY <1>2, <1>12 DEF CloseFnStep, SrvClose, CloseLock, SrvClosed, LnClosed
<1>13. CASE Close
  BY <1>1, <1>13 DEF Close
<1>14. CASE CloseDone \/ \E r \in Recs : CloseNext(r)
  BY <1>2, <1>14 DEF CloseDone, CloseNext
<1>15. ASSUME NEW r \in Recs, ServeStep(r) \/ AcceptFails(r)
       PROVE  PoolsHomogeneous'
  BY <1>2, <1>15 DEF ServeStep, ServeStart, ServeReturns, ServeLock, ServeClosed,
                     AcceptFails
<1>16. CASE UNCHANGED vars
  BY <1>2, <1>16 DEF vars
<1> QED
  BY <1>3, <1>4, <1>5, <1>6, <1>9, <1>10, <1>11, <1>12, <1>13, <1>14, <1>15, <1>16
     DEF Next, StartCall, CallerStep, RegisterStep, AdvertiseStep, CloseStep

\* The backends of one pool agree on scheme and capabilities, though labels
\* change between calls and a record is replaced while a registration waits.
THEOREM PoolsAgree ==
    ASSUME ExclusiveKeys
    PROVE  Spec => []PoolsHomogeneous
<1>1. Init => ClaimInv /\ PoolsHomogeneous
  BY DEF Init, ClaimInv, PoolsHomogeneous, AdvertiseSteps, Threads
<1>2. IInv /\ ClaimInv /\ PoolsHomogeneous /\ [Next]_vars =>
          ClaimInv' /\ PoolsHomogeneous'
  BY ClaimInduct, PoolsInduct
<1> QED
  BY <1>1, <1>2, InductiveInvariant, PTL DEF Spec

\* The services the active gauge counts, and the value of a service's series.
Published == {s \in Services : index[s] # NoRec /\ ready[index[s]]}

Series(s) ==
    IF s \notin Published THEN NoSeries
    ELSE IF Serving(index[s]) THEN Cardinality(pool[index[s]]) ELSE 1

\* GaugesMatchIndex, service by service.
GaugeInv ==
    /\ active = Cardinality(Published)
    /\ \A s \in Services : backends[s] = Series(s)

\* The two forms of the claim agree.
LEMMA GaugesByService ==
    ASSUME TypeOK, GaugeInv
    PROVE  GaugesMatchIndex
<1>1. backends = [s \in Services |-> Series(s)]
  BY DEF TypeOK, GaugeInv
<1>2. Published = {s \in Services : index[s] # NoRec /\ ready[index[s]]}
  BY DEF Published
<1> QED
  BY <1>1, <1>2 DEF GaugesMatchIndex, GaugeInv, Series

\* The record in the index for a service is a record of that service.
LEMMA IndexedRecord ==
    ASSUME IInv, NEW s \in Services, index[s] # NoRec
    PROVE  index[s] \in Recs /\ Name(index[s]) = s
BY DEF IInv, TypeOK, OccupancyInv

\* A step that keeps the count and every series.
LEMMA GaugesKept ==
    ASSUME GaugeInv, active' = active, backends' = backends,
           \A s \in Services : /\ s \in Published' <=> s \in Published
                               /\ Series(s)' = Series(s)
    PROVE  GaugeInv'
<1>1. Published' = Published
  BY DEF Published
<1> QED
  BY <1>1 DEF GaugeInv

\* One that leaves alone all that the gauges are computed from.
LEMMA GaugesUntouched ==
    ASSUME GaugeInv, UNCHANGED <<index, ready, withdrawing, pool, active, backends>>
    PROVE  GaugeInv'
BY GaugesKept DEF Published, Series, Serving

\* A step that changes one service: the others keep theirs.
OthersKept(n) ==
    \A s \in Services \ {n} : /\ index'[s] = index[s]
                              /\ backends'[s] = backends[s]
                              /\ index[s] # NoRec =>
                                    LET q == index[s] IN
                                    /\ ready'[q] = ready[q]
                                    /\ withdrawing'[q] = withdrawing[q]
                                    /\ pool'[q] = pool[q]

\* The active gauge follows the one service that is published or withdrawn.
LEMMA OneService ==
    ASSUME GaugeInv, IsFiniteSet(Services), NEW n \in Services, OthersKept(n),
           backends'[n] = Series(n)',
           n \in Published' /\ n \notin Published => active' = active + 1,
           n \notin Published' /\ n \in Published => active' = active - 1,
           (n \in Published' <=> n \in Published) => active' = active
    PROVE  GaugeInv'
<1>1. ASSUME NEW s \in Services \ {n}
      PROVE  /\ s \in Published' <=> s \in Published
             /\ Series(s)' = Series(s)
  BY <1>1 DEF OthersKept, Published, Series, Serving
<1>2. Published \subseteq Services /\ Published' \subseteq Services
  BY DEF Published
<1>3. IsFiniteSet(Published)
  BY <1>2, FS_Subset
<1>4. active' = Cardinality(Published')
  <2>1. CASE n \in Published' /\ n \notin Published
    <3>1. Published' = Published \cup {n}
      BY <1>1, <1>2, <2>1
    <3> QED
      BY <1>3, <2>1, <3>1, FS_AddElement DEF GaugeInv
  <2>2. CASE n \notin Published' /\ n \in Published
    <3>1. Published' = Published \ {n}
      BY <1>1, <1>2, <2>2
    <3> QED
      BY <1>3, <2>2, <3>1, FS_RemoveElement DEF GaugeInv
  <2>3. CASE n \in Published' <=> n \in Published
    <3>1. Published' = Published
      BY <1>1, <1>2, <2>3
    <3> QED
      BY <2>3, <3>1 DEF GaugeInv
  <2> QED
    BY <2>1, <2>2, <2>3
<1>5. \A s \in Services : backends'[s] = Series(s)'
  BY <1>1 DEF OthersKept, GaugeInv
<1> QED
  BY <1>4, <1>5 DEF GaugeInv

\* GaugeInv is preserved by every step of the manager.
LEMMA GaugeInduct ==
    ASSUME IInv, GaugeInv, IsFiniteSet(Services), [Next]_vars
    PROVE  GaugeInv'
<1> USE DEF GoTo, registry, records, gauges, serving, threads, history, Threads
<1>1. /\ index \in [Services -> Recs \cup {NoRec}] /\ pool \in [Recs -> SUBSET Keys]
      /\ ready \in [Recs -> BOOLEAN] /\ withdrawing \in [Recs -> Channel]
      /\ backends \in [Services -> Int] /\ active \in Int
      /\ byKey \in [Keys -> Services \cup {NoService}]
  BY DEF IInv, TypeOK
<1>2. ASSUME NEW c \in Callers, NEW r \in Recs, RegisterClaim(c, r)
      PROVE  GaugeInv'
  <2>1. PICK n \in Services : n = want[c].service
    BY <1>2, DefsAssumption DEF RegisterClaim, Proceeds, IInv, StepInv
  <2>2. /\ index' = [index EXCEPT ![n] = r] /\ index[n] = NoRec
        /\ UNCHANGED <<ready, withdrawing, pool, active, backends>> /\ ~ready[r]
    BY <1>2, <2>1 DEF RegisterClaim, Unused, IInv, UnusedInv
  <2>3. n \notin Published /\ n \notin Published'
    BY <1>1, <2>2 DEF Published
  <2>4. OthersKept(n)
    BY <1>1, <2>2 DEF OthersKept
  <2>5. backends'[n] = Series(n)'
    BY <2>2, <2>3 DEF GaugeInv, Series
  <2> QED
    BY <2>2, <2>3, <2>4, <2>5, OneService
<1>3. ASSUME NEW r \in Recs, ReleaseLocked(r), ~ready[r], def[r] \in Defs, UNCHANGED gauges
      PROVE  GaugeInv'
  <2>1. Name(r) \in Services
    BY <1>3, DefsAssumption DEF Name
  <2>2. CASE index[Name(r)] = r
    <3>1. PICK n \in Services : n = Name(r)
      BY <2>1
    <3>2. /\ index' = [index EXCEPT ![n] = NoRec] /\ index[n] = r
          /\ UNCHANGED <<ready, withdrawing, pool, active, backends>>
      BY <1>3, <2>2, <3>1 DEF ReleaseLocked
    <3>3. n \notin Published /\ n \notin Published'
      BY <1>1, <1>3, <3>2 DEF Published
    <3>4. OthersKept(n)
      BY <1>1, <3>2 DEF OthersKept
    <3>5. backends'[n] = Series(n)'
      BY <3>2, <3>3 DEF GaugeInv, Series
    <3> QED
      BY <3>2, <3>3, <3>4, <3>5, OneService
  <2>3. CASE index[Name(r)] # r
    BY <1>3, <2>3, GaugesUntouched DEF ReleaseLocked
  <2> QED
    BY <2>2, <2>3
<1>4. ASSUME NEW c \in Callers, Abandon(c) \/ PublishShutdown(c)
      PROVE  GaugeInv'
  <2>1. pc[c] \in AdvertiseSteps
    BY <1>4 DEF Abandon, PublishShutdown, AdvertiseSteps
  <2>2. PICK r \in Recs : r = target[c] /\ def[r] \in Defs
    BY <2>1 DEF IInv, StepInv
  <2>3. ~ready[r]
    BY <2>1, <2>2 DEF IInv, RecordInv, Advertises
  <2>4. ReleaseLocked(r) /\ UNCHANGED gauges
    BY <1>4, <2>2 DEF Abandon, PublishShutdown
  <2> QED
    BY <1>3, <2>2, <2>3, <2>4
<1>5. ASSUME NEW c \in Callers, RegisterJoin(c)
      PROVE  GaugeInv'
  <2>1. PICK n \in Services : n = want[c].service
    BY <1>5, DefsAssumption DEF RegisterJoin, Proceeds, IInv, StepInv
  <2>2. PICK r \in Recs : r = index[n] /\ Name(r) = n
    BY <1>5, <2>1, IndexedRecord DEF RegisterJoin
  <2>3. /\ pool' = [pool EXCEPT ![r] = @ \cup {key[c]}]
        /\ backends' = [backends EXCEPT ![n] = Cardinality(pool'[r])]
        /\ UNCHANGED <<index, ready, withdrawing, active>> /\ Serving(r)
    BY <1>5, <2>1, <2>2 DEF RegisterJoin, Transition, Serving
  <2>4. n \in Published /\ n \in Published'
    BY <2>2, <2>3, NamesAssumption DEF Published, Serving
  <2>5. OthersKept(n)
    BY <1>1, <2>2, <2>3, IndexedRecord DEF OthersKept
  <2>6. backends'[n] = Series(n)'
    BY <1>1, <2>2, <2>3, <2>4 DEF Series, Serving
  <2> QED
    BY <2>3, <2>4, <2>5, <2>6, OneService
<1>6. ASSUME NEW c \in Callers, Publish(c)
      PROVE  GaugeInv'
  <2>1. PICK r \in Recs : r = target[c] /\ def[r] \in Defs
    BY <1>6 DEF Publish, IInv, StepInv, AdvertiseSteps
  <2>2. /\ ~ready[r] /\ withdrawing[r] = "nil" /\ advertised[r] = "open" /\ ~shutdown
    BY <1>6, <2>1 DEF Publish, IInv, RecordInv, Advertises, AdvertiseSteps
  <2>3. PICK n \in Services : n = Name(r) /\ index[n] = r
    BY <2>1, <2>2, DefsAssumption DEF IInv, OccupancyInv, Occupies, Claimed, Name
  <2>4. /\ pool' = [pool EXCEPT ![r] = @ \cup {key[c]}]
        /\ ready' = [ready EXCEPT ![r] = TRUE]
        /\ backends' = [backends EXCEPT ![n] = Cardinality(pool'[r])]
        /\ active' = active + 1
        /\ UNCHANGED <<index, withdrawing>>
    BY <1>6, <2>1, <2>3 DEF Publish
  <2>5. n \notin Published /\ n \in Published'
    BY <1>1, <2>2, <2>3, <2>4, NamesAssumption DEF Published
  <2>6. OthersKept(n)
    BY <1>1, <2>3, <2>4, IndexedRecord DEF OthersKept
  <2>7. Serving(r)'
    BY <1>1, <2>2, <2>4 DEF Serving
  <2>8. backends'[n] = Series(n)'
    BY <1>1, <2>3, <2>4, <2>5, <2>7 DEF Series
  <2> QED
    BY <2>4, <2>5, <2>6, <2>8, OneService
<1>7. ASSUME NEW c \in Callers, NEW k \in Keys, NEW r, r = index[byKey[k]], Leave(c, k, r)
      PROVE  /\ r \in Recs /\ byKey[k] \in Services /\ Name(r) = byKey[k]
             /\ Serving(r) /\ k \in pool[r] /\ byKey[k] \in Published
             /\ pool' = [pool EXCEPT ![r] = @ \ {k}]
             /\ UNCHANGED <<index, ready, active>>
  <2>1. /\ byKey[k] # NoService /\ byKey[k] \in Services /\ r # NoRec
        /\ pool' = [pool EXCEPT ![r] = @ \ {k}]
        /\ UNCHANGED <<index, ready, active>>
    BY <1>1, <1>7 DEF Leave, Registered, Forget
  <2>2. Serving(r) /\ k \in pool[r]
    BY <1>7, <2>1 DEF IInv, KeyInv
  <2>3. r \in Recs /\ Name(r) = byKey[k]
    BY <1>7, <2>1, IndexedRecord
  <2> QED
    BY <1>7, <2>1, <2>2, <2>3 DEF Published, Serving
<1>8. ASSUME NEW c \in Callers, NEW k \in Keys, Deregister(c, k)
      PROVE  GaugeInv'
  <2>1. PICK r : r = index[byKey[k]]
    OBVIOUS
  <2>2. PICK n : n = byKey[k]
    OBVIOUS
  <2>3. Leave(c, k, r) /\ withdrawing' = withdrawing
        /\ backends' = [backends EXCEPT ![n] = Cardinality(pool'[r])]
    BY <1>8, <2>1, <2>2 DEF Deregister
  <2>4. /\ r \in Recs /\ n \in Services /\ Name(r) = n /\ Serving(r) /\ n \in Published
        /\ pool' = [pool EXCEPT ![r] = @ \ {k}]
        /\ UNCHANGED <<index, ready, active>> /\ index[n] = r
    BY <1>7, <2>1, <2>2, <2>3
  <2>5. n \in Published'
    BY <2>4 DEF Published
  <2>6. OthersKept(n)
    BY <1>1, <2>3, <2>4, IndexedRecord DEF OthersKept
  <2>7. backends'[n] = Series(n)'
    BY <1>1, <2>3, <2>4, <2>5 DEF Series, Serving
  <2> QED
    BY <2>4, <2>5, <2>6, <2>7, OneService
<1>9. ASSUME NEW c \in Callers, NEW k \in Keys, DeregisterLast(c, k)
      PROVE  GaugeInv'
  <2>1. PICK r : r = index[byKey[k]]
    OBVIOUS
  <2>2. PICK n : n = byKey[k]
    OBVIOUS
  <2>3. Leave(c, k, r) /\ withdrawing' = [withdrawing EXCEPT ![r] = "open"]
        /\ backends' = backends /\ pool'[r] = {}
    BY <1>9, <2>1, <2>2 DEF DeregisterLast
  <2>4. /\ r \in Recs /\ n \in Services /\ Name(r) = n /\ Serving(r) /\ n \in Published
        /\ pool' = [pool EXCEPT ![r] = @ \ {k}] /\ k \in pool[r]
        /\ UNCHANGED <<index, ready, active>> /\ index[n] = r
    BY <1>7, <2>1, <2>2, <2>3
  <2>5. n \in Published'
    BY <2>4 DEF Published
  <2>6. OthersKept(n)
    BY <1>1, <2>3, <2>4, IndexedRecord DEF OthersKept
  <2>7. Cardinality(pool[r]) = 1
    <3>1. pool[r] = {k}
      BY <1>1, <2>3, <2>4
    <3> QED
      BY <3>1, FS_Singleton
  <2>8. backends[n] = 1
    BY <2>4, <2>7 DEF GaugeInv, Series
  <2>9. ~Serving(r)'
    BY <1>1, <2>3, <2>4 DEF Serving
  <2>10. backends'[n] = Series(n)'
    BY <2>3, <2>4, <2>5, <2>8, <2>9 DEF Series
  <2> QED
    BY <2>4, <2>5, <2>6, <2>10, OneService
<1>10. ASSUME NEW c \in Callers, Withdrawn(c)
       PROVE  GaugeInv'
  <2>1. PICK r \in Recs : r = target[c] /\ def[r] \in Defs /\ ready[r]
    BY <1>10 DEF Withdrawn, IInv, StepInv, OwnerInv, WithdrawSteps
  <2>2. PICK n \in Services : n = Name(r)
    BY <2>1, DefsAssumption DEF Name
  <2>3. /\ withdrawing' = [withdrawing EXCEPT ![r] = "closed"]
        /\ UNCHANGED <<ready, pool>>
    BY <1>10, <2>1 DEF Withdrawn
  <2>4. CASE index[n] = r
    <3>1. /\ index' = [index EXCEPT ![n] = NoRec]
          /\ active' = active - 1
          /\ backends' = [backends EXCEPT ![n] = NoSeries]
      BY <1>10, <2>1, <2>2, <2>4 DEF Withdrawn
    <3>2. n \in Published /\ n \notin Published'
      BY <1>1, <2>1, <2>4, <3>1, NamesAssumption DEF Published
    <3>3. OthersKept(n)
      BY <1>1, <2>2, <2>3, <3>1, IndexedRecord DEF OthersKept
    <3>4. backends'[n] = Series(n)'
      BY <1>1, <3>1, <3>2 DEF Series
    <3> QED
      BY <3>1, <3>2, <3>3, <3>4, OneService
  <2>5. CASE index[n] # r
    <3>1. UNCHANGED <<index, active, backends>>
      BY <1>10, <2>1, <2>2, <2>5 DEF Withdrawn
    <3>2. \A s \in Services : index[s] # r
      BY <2>1, <2>2, <2>5, IndexedRecord, NamesAssumption
    <3>3. OthersKept(n) /\ index'[n] = index[n] /\ backends'[n] = backends[n]
      BY <1>1, <2>3, <3>1, <3>2 DEF OthersKept
    <3>4. (n \in Published' <=> n \in Published) /\ Series(n)' = Series(n)
      BY <1>1, <2>3, <3>1, <3>2 DEF Published, Series, Serving
    <3> QED
      BY <3>1, <3>3, <3>4, OneService DEF GaugeInv
  <2> QED
    BY <2>4, <2>5
<1>11. CASE Close
  <2>1. /\ active' = 0 /\ backends' = [s \in Services |-> NoSeries]
        /\ index' = [s \in Services |-> NoRec]
    BY <1>11 DEF Close
  <2>2. Published' = {}
    BY <2>1 DEF Published
  <2> QED
    BY <2>1, <2>2, FS_EmptySet DEF GaugeInv, Series
<1>12. ASSUME NEW c \in Callers,
              \/ \E k \in Keys : \E d \in Defs : CallRegister(c, k, d)
              \/ \E k \in Keys : DeregisterUnknown(c, k)
              \/ RegisterShutdown(c) \/ RegisterKnown(c) \/ RegisterWait(c)
              \/ RegisterConflict(c) \/ Awake(c)
              \/ ListenLock(c) \/ ListenOpens(c) \/ ListenFails(c)
       PROVE  GaugeInv'
  BY <1>12, GaugesUntouched DEF CallRegister, DeregisterUnknown, Forget, RegisterShutdown,
        RegisterKnown, RegisterWait, RegisterConflict, Awake, ListenLock, ListenOpens,
        ListenFails
<1>13. ASSUME NEW t \in Threads, CloseFnStep(t)
       PROVE  GaugeInv'
  BY <1>13, GaugesUntouched DEF CloseFnStep, SrvClose, CloseLock, SrvClosed, LnClosed
<1>14. CASE CloseDone \/ \E r \in Recs : CloseNext(r)
  BY <1>14, GaugesUntouched DEF CloseDone, CloseNext
<1>15. ASSUME NEW r \in Recs, ServeStep(r) \/ AcceptFails(r)
       PROVE  GaugeInv'
  BY <1>15, GaugesUntouched DEF ServeStep, ServeStart, ServeReturns, ServeLock,
        ServeClosed, AcceptFails
<1>16. CASE UNCHANGED vars
  BY <1>16, GaugesUntouched DEF vars
<1> QED
  BY <1>2, <1>4, <1>5, <1>6, <1>8, <1>9, <1>10, <1>11, <1>12, <1>13, <1>14, <1>15, <1>16
     DEF Next, StartCall, CallerStep, RegisterStep, AdvertiseStep, CloseStep

\* The gauges are functions of the index, though Close resets them while
\* withdrawals and publications are in flight.
THEOREM GaugesAreExact ==
    ASSUME ExclusiveKeys, IsFiniteSet(Services)
    PROVE  Spec => []GaugesMatchIndex
<1>1. Init => GaugeInv
  <2> SUFFICES ASSUME Init PROVE GaugeInv
    OBVIOUS
  <2>1. Published = {}
    BY DEF Init, Published
  <2> QED
    BY <2>1, FS_EmptySet DEF Init, GaugeInv, Series
<1>2. IInv /\ GaugeInv => GaugesMatchIndex
  BY GaugesByService DEF IInv
<1>3. IInv /\ GaugeInv /\ [Next]_vars => GaugeInv'
  BY GaugeInduct
<1> QED
  BY <1>1, <1>2, <1>3, InductiveInvariant, PTL DEF Spec

-----------------------------------------------------------------------------
(* The refinement of ServiceRegistry.                                       *)

\* A record whose listener is open occupies its service's name.
LEMMA OpenRecord ==
    ASSUME IInv, NEW r \in open
    PROVE  r \in Recs /\ Name(r) \in Services /\ Occupies(r)
<1>1. r \in Recs /\ def[r] # NoDef
  BY DEF IInv, TypeOK, UnusedInv
<1>2. def[r] \in Defs
  BY <1>1 DEF IInv, TypeOK
<1> QED
  BY <1>1, <1>2, DefsAssumption DEF Name, Occupies

\* So does one whose listener is being opened.
LEMMA OpeningRecord ==
    ASSUME IInv, NEW c \in Callers, pc[c] \in {"listen", "listening"}
    PROVE  /\ target[c] \in Recs /\ Name(target[c]) \in Services
           /\ Occupies(target[c]) /\ target[c] \notin open
<1>1. pc[c] \in AdvertiseSteps /\ pc[c] # "publish"
  BY DEF AdvertiseSteps
<1>2. target[c] \in Recs /\ def[target[c]] \in Defs /\ target[c] \notin open
  BY <1>1 DEF IInv, StepInv, OwnerInv
<1>3. advertised[target[c]] = "open"
  BY <1>1, <1>2 DEF IInv, RecordInv, Advertises
<1> QED
  BY <1>2, <1>3, DefsAssumption DEF Name, Occupies, Claimed

\* Of a service, one listener is open or one is being opened, not both.
LEMMA OneListener ==
    ASSUME IInv, NEW s \in Services
    PROVE  /\ HandlerInConfig(s) => ~Opening(s)
           /\ \A q, r \in open : Name(q) = s /\ Name(r) = s => q = r
           /\ \A c, d \in Callers :
                 /\ pc[c] \in {"listen", "listening"} /\ Name(target[c]) = s
                 /\ pc[d] \in {"listen", "listening"} /\ Name(target[d]) = s
                 => c = d
<1>1. \A q, r \in Recs : Occupies(q) /\ Occupies(r) /\ Name(q) = Name(r) => q = r
  BY DEF IInv, OccupancyInv
<1>2. ASSUME NEW c \in Callers, NEW d \in Callers, target[c] = target[d],
             pc[c] \in AdvertiseSteps, pc[d] \in AdvertiseSteps
      PROVE  c = d
  BY <1>2 DEF IInv, OwnerInv
<1> QED
  BY <1>1, <1>2, OpenRecord, OpeningRecord DEF HandlerInConfig, Opening, AdvertiseSteps

\* A step that changes no listener, key or flag is no step of the registry.
LEMMA Stutters ==
    ASSUME IInv, open' = open, \A r \in open : def'[r] = def[r],
           \A s \in Services : Opening(s)' <=> Opening(s)
    PROVE  \A s \in Services : Status(s)' = Status(s)
<1>1. \A s \in Services : HandlerInConfig(s)' <=> HandlerInConfig(s)
  BY DEF HandlerInConfig, Name
<1> QED
  BY <1>1 DEF Status

\* Opening depends on the callers that listen alone.
LEMMA SameOpening ==
    ASSUME IInv, def' = def,
           \A c \in Callers :
              \/ pc'[c] = pc[c] /\ target'[c] = target[c]
              \/ /\ pc[c] \notin {"listen", "listening"}
                 /\ pc'[c] \notin {"listen", "listening"}
              \/ /\ pc[c] \in {"listen", "listening"} /\ pc'[c] \in {"listen", "listening"}
                 /\ target'[c] = target[c]
    PROVE  \A s \in Services : Opening(s)' <=> Opening(s)
BY DEF Opening, Name

\* A listener closes: nobody is registered with its service any more.
LEMMA Darkens ==
    ASSUME IInv, NEW r \in open, open' = open \ {r}, def' = def, UNCHANGED <<byKey, shutdown>>,
           \A s \in Services : Opening(s)' <=> Opening(s),
           shutdown \/ ~Serving(r)
    PROVE  Registry!Darken(Name(r))
<1>1. r \in Recs /\ Name(r) \in Services /\ Occupies(r)
  BY OpenRecord
<1>2. PICK s \in Services : s = Name(r)
  BY <1>1
<1>3. HandlerInConfig(s) /\ ~Opening(s)
  BY <1>2, OneListener DEF HandlerInConfig
<1>4. ~HandlerInConfig(s)'
  BY <1>2, OneListener DEF HandlerInConfig, Name
<1>5. \A u \in Services \ {s} : HandlerInConfig(u)' <=> HandlerInConfig(u)
  BY <1>2 DEF HandlerInConfig, Name
<1>6. Status(s) = "lit" /\ Status(s)' = "dark"
  BY <1>3, <1>4 DEF Status
<1>7. \A u \in Services \ {s} : Status(u)' = Status(u)
  BY <1>5 DEF Status
<1>8. ASSUME NEW k \in Keys, byKey[k] = s PROVE FALSE
  <2>1. ~shutdown /\ index[s] # NoRec /\ Serving(index[s])
    BY <1>2, <1>8, NamesAssumption DEF IInv, KeyInv
  <2>2. index[s] = r
    BY <1>1, <1>2, <2>1 DEF IInv, OccupancyInv
  <2> QED
    BY <2>1, <2>2
<1> QED
  BY <1>2, <1>6, <1>7, <1>8 DEF Registry!Darken

\* Who closes a listener finds its service withdrawn, or the manager shut down.
LEMMA Withdraws ==
    ASSUME IInv, NEW t \in Threads, pc[t] \in CloseFnSteps
    PROVE  shutdown \/ ~Serving(target[t])
<1>1. CASE t = Main
  BY <1>1 DEF IInv, StepInv, CloseFnSteps
<1>2. CASE t \in Callers
  <2>1. target[t] \in Recs
    BY <1>2 DEF IInv, StepInv, WithdrawSteps
  <2>2. CASE ready[target[t]]
    BY <1>2, <2>1, <2>2 DEF IInv, RecordInv, TearsDown, WithdrawSteps, Serving
  <2>3. CASE ~ready[target[t]]
    BY <2>3 DEF Serving
  <2> QED
    BY <2>2, <2>3
<1> QED
  BY <1>1, <1>2 DEF Threads

\* A step of the manager is a step of the registry, or changes nothing that the
\* registry shows.
LEMMA RegistryStep ==
    ASSUME IInv, ~AcceptMayFail, [Next]_vars
    PROVE  [Registry!Next]_(Registry!vars)
<1> USE DEF GoTo, registry, records, gauges, serving, threads, history, Threads
<1> DEFINE Listens == {"listen", "listening"}
           Quiet(c) == \/ pc'[c] = pc[c] /\ target'[c] = target[c]
                       \/ pc[c] \notin Listens /\ pc'[c] \notin Listens
                       \/ pc[c] \in Listens /\ pc'[c] \in Listens /\ target'[c] = target[c]
<1>0. /\ pc \in [Threads -> Steps] /\ target \in [Threads -> Recs \cup {NoRec}]
      /\ byKey \in [Keys -> Services \cup {NoService}] /\ def \in [Recs -> Defs \cup {NoDef}]
      /\ open \subseteq Recs
  BY DEF IInv, TypeOK
<1>1. ASSUME open' = open, def' = def, \A c \in Callers : Quiet(c), UNCHANGED <<byKey, shutdown>>
      PROVE  UNCHANGED Registry!vars
  <2>1. \A s \in Services : Status(s)' = Status(s)
    BY <1>1, SameOpening, Stutters
  <2> QED
    BY <1>1, <2>1 DEF Registry!vars
<1>2. ASSUME NEW c \in Callers,
             \/ \E k \in Keys : \E d \in Defs : CallRegister(c, k, d)
             \/ RegisterShutdown(c) \/ RegisterKnown(c) \/ RegisterWait(c)
             \/ RegisterConflict(c) \/ Awake(c)
             \/ ListenLock(c) \/ Abandon(c) \/ PublishShutdown(c) \/ Withdrawn(c)
      PROVE  UNCHANGED Registry!vars
  <2>1. open' = open /\ def' = def /\ UNCHANGED <<byKey, shutdown>>
    BY <1>2 DEF CallRegister, RegisterShutdown, RegisterKnown, RegisterWait, RegisterConflict,
                Awake, ListenLock, Abandon, PublishShutdown, ReleaseLocked, Withdrawn
  <2>2. \A d \in Callers : Quiet(d)
    BY <1>0, <1>2 DEF CallRegister, RegisterShutdown, RegisterKnown, RegisterWait, Transition,
                RegisterConflict, Awake, ListenLock, Abandon, PublishShutdown, Withdrawn,
                ReturnError, ReturnNil, Return, Proceeds
  <2> QED
    BY <1>1, <2>1, <2>2
<1>3. ASSUME NEW c \in Callers, NEW k \in Keys, DeregisterUnknown(c, k)
      PROVE  UNCHANGED Registry!vars
  <2>1. byKey[k] = NoService
    BY <1>3 DEF DeregisterUnknown, Registered, IInv, KeyInv, Serving
  <2>2. byKey' = byKey
    BY <1>0, <1>3, <2>1 DEF DeregisterUnknown, Forget
  <2> QED
    BY <1>1, <1>3, <2>2 DEF DeregisterUnknown, Forget
<1>4. ASSUME NEW c \in Callers, NEW k \in Keys, Deregister(c, k) \/ DeregisterLast(c, k)
      PROVE  Registry!Leave(k)
  <2>1. PICK r : Leave(c, k, r)
    BY <1>4 DEF Deregister, DeregisterLast
  <2>2. /\ byKey[k] # NoService /\ byKey' = [byKey EXCEPT ![k] = NoService]
        /\ UNCHANGED <<shutdown, open, def>>
    BY <2>1 DEF Leave, Registered, Forget
  <2>3. \A d \in Callers : Quiet(d)
    BY <1>0, <1>4 DEF Deregister, DeregisterLast, Leave
  <2>4. \A s \in Services : Status(s)' = Status(s)
    BY <2>2, <2>3, SameOpening, Stutters
  <2> QED
    BY <2>2, <2>4 DEF Registry!Leave
<1>5. ASSUME NEW c \in Callers, NEW r \in Recs, RegisterClaim(c, r)
      PROVE  \E s \in Services : Registry!Claim(s)
  <2>1. PICK s \in Services : s = want[c].service
    BY <1>5, DefsAssumption DEF RegisterClaim, Proceeds, IInv, StepInv
  <2>2. /\ ~shutdown /\ index[s] = NoRec /\ def[r] = NoDef /\ pc[c] = "register"
        /\ def' = [def EXCEPT ![r] = want[c]] /\ target' = [target EXCEPT ![c] = r]
        /\ pc' = [pc EXCEPT ![c] = "listen"] /\ UNCHANGED <<byKey, shutdown, open>>
    BY <1>5, <2>1 DEF RegisterClaim, Proceeds, Unused
  <2>3. r \notin open /\ \A d \in Callers : pc[d] \in Listens => target[d] # r
    BY <2>2, OpeningRecord DEF IInv, UnusedInv, Occupies, Claimed
  <2>4. ~HandlerInConfig(s) /\ ~Opening(s)
    <3>1. \A q \in Recs : Occupies(q) => Name(q) # s
      BY <2>2, NamesAssumption DEF IInv, OccupancyInv
    <3> QED
      BY <3>1, OpenRecord, OpeningRecord DEF HandlerInConfig, Opening
  <2>5. \A u \in Services : HandlerInConfig(u)' <=> HandlerInConfig(u)
    BY <1>0, <2>2, <2>3 DEF HandlerInConfig, Name
  <2>6. Opening(s)'
    BY <1>0, <2>1, <2>2 DEF Opening, Name
  <2>7. \A u \in Services \ {s} : Opening(u)' <=> Opening(u)
    BY <1>0, <2>1, <2>2, <2>3, OpeningRecord DEF Opening, Name
  <2>8. Status(s) = "dark" /\ Status(s)' = "opening"
    BY <2>4, <2>5, <2>6 DEF Status
  <2>9. \A u \in Services \ {s} : Status(u)' = Status(u)
    BY <2>5, <2>7 DEF Status
  <2> QED
    BY <2>2, <2>8, <2>9 DEF Registry!Claim
<1>6. ASSUME NEW c \in Callers, NEW s \in Services, NEW k \in Keys,
             ~shutdown, byKey[k] = NoService, HandlerInConfig(s),
             byKey' = [byKey EXCEPT ![k] = s], UNCHANGED <<shutdown, open, def>>,
             \A d \in Callers : Quiet(d)
      PROVE  Registry!Join(k, s)
  <2>1. \A u \in Services : Status(u)' = Status(u)
    BY <1>6, SameOpening, Stutters
  <2>2. Status(s) = "lit"
    BY <1>6 DEF Status
  <2> QED
    BY <1>6, <2>1, <2>2 DEF Registry!Join
<1>7. ASSUME NEW c \in Callers, RegisterJoin(c)
      PROVE  \E k \in Keys : \E s \in Services : Registry!Join(k, s)
  <2>1. PICK s \in Services : s = want[c].service
    BY <1>7, DefsAssumption DEF RegisterJoin, Proceeds, IInv, StepInv
  <2>2. PICK k \in Keys : k = key[c]
    BY <1>7, DrivesAssumption DEF RegisterJoin, Proceeds, IInv, StepInv
  <2>3. PICK r \in Recs : r = index[s] /\ Name(r) = s
    BY <1>7, <2>1, IndexedRecord DEF RegisterJoin
  <2>4. /\ ~shutdown /\ byKey[k] = NoService /\ byKey' = [byKey EXCEPT ![k] = s]
        /\ UNCHANGED <<shutdown, open, def>> /\ Serving(r)
    BY <1>7, <2>1, <2>2, <2>3 DEF RegisterJoin, Proceeds, Transition, Serving
  <2>5. HandlerInConfig(s)
    BY <2>3, <2>4 DEF IInv, ListenerInv, ListenerUp, HandlerInConfig
  <2>6. \A d \in Callers : Quiet(d)
    BY <1>0, <1>7 DEF RegisterJoin, Proceeds, ReturnNil, Return
  <2> QED
    BY <1>6, <2>4, <2>5, <2>6
<1>8. ASSUME NEW c \in Callers, Publish(c)
      PROVE  \E k \in Keys : \E s \in Services : Registry!Join(k, s)
  <2>1. pc[c] = "publish" /\ pc[c] \in AdvertiseSteps
    BY <1>8 DEF Publish, AdvertiseSteps
  <2>2. PICK r \in Recs : r = target[c] /\ r \in open
    BY <2>1 DEF IInv, StepInv, OwnerInv
  <2>3. PICK s \in Services : s = Name(r)
    BY <2>2, OpenRecord
  <2>4. PICK k \in Keys : k = key[c] /\ byKey[k] = NoService
    BY <2>1, DrivesAssumption DEF IInv, StepInv, ProgressInv
  <2>5. /\ ~shutdown /\ byKey' = [byKey EXCEPT ![k] = s] /\ UNCHANGED <<shutdown, open, def>>
    BY <1>8, <2>2, <2>3, <2>4 DEF Publish
  <2>6. HandlerInConfig(s)
    BY <2>2, <2>3 DEF HandlerInConfig
  <2>7. \A d \in Callers : Quiet(d)
    BY <1>0, <1>8 DEF Publish, ReturnNil, Return
  <2> QED
    BY <1>6, <2>4, <2>5, <2>6, <2>7
<1>9. ASSUME NEW c \in Callers, ListenOpens(c) \/ ListenFails(c)
      PROVE  \E s \in Services : Registry!Open(s)
  <2>1. pc[c] = "listening" /\ pc[c] \in Listens
    BY <1>9 DEF ListenOpens, ListenFails
  <2>2. PICK s \in Services : s = Name(target[c]) /\ target[c] \in Recs \ open
    BY <2>1, OpeningRecord
  <2>3. Opening(s) /\ ~HandlerInConfig(s)
    BY <2>1, <2>2, OneListener DEF Opening
  <2>4. /\ def' = def /\ target' = target /\ UNCHANGED <<byKey, shutdown>>
        /\ \A d \in Callers \ {c} : pc'[d] = pc[d]
        /\ pc'[c] \notin Listens
    BY <1>0, <1>9 DEF ListenOpens, ListenFails
  <2>5. \A u \in Services \ {s} : Opening(u)' <=> Opening(u)
    BY <2>2, <2>4 DEF Opening, Name
  <2>6. ~Opening(s)'
    BY <2>1, <2>2, <2>4, OneListener DEF Opening, Name
  <2>7. open' = open \/ open' = open \cup {target[c]}
    BY <1>9 DEF ListenOpens, ListenFails
  <2>8. \A u \in Services \ {s} : HandlerInConfig(u)' <=> HandlerInConfig(u)
    BY <2>2, <2>4, <2>7 DEF HandlerInConfig, Name
  <2>9. Status(s) = "opening" /\ Status(s)' \in {"lit", "dark"}
    BY <2>3, <2>6 DEF Status
  <2>10. \A u \in Services \ {s} : Status(u)' = Status(u)
    BY <2>5, <2>8 DEF Status
  <2> QED
    BY <2>4, <2>9, <2>10 DEF Registry!Open
<1>10. ASSUME NEW r \in Recs, open' = open \ {r}, def' = def, UNCHANGED <<byKey, shutdown>>,
              \A c \in Callers : Quiet(c), shutdown \/ ~Serving(r)
       PROVE  UNCHANGED Registry!vars \/ \E s \in Services : Registry!Darken(s)
  <2>1. CASE r \in open
    BY <1>10, <2>1, SameOpening, Darkens, OpenRecord
  <2>2. CASE r \notin open
    BY <1>0, <1>1, <1>10, <2>2
  <2> QED
    BY <2>1, <2>2
<1>11. ASSUME NEW t \in Threads, CloseFnStep(t)
       PROVE  UNCHANGED Registry!vars \/ \E s \in Services : Registry!Darken(s)
  <2>1. \A c \in Callers : Quiet(c)
    BY <1>0, <1>11 DEF CloseFnStep, SrvClose, CloseLock, SrvClosed, LnClosed, ReturnError, Return
  <2>2. def' = def /\ UNCHANGED <<byKey, shutdown>> /\ pc[t] \in CloseFnSteps
    BY <1>11 DEF CloseFnStep, SrvClose, CloseLock, SrvClosed, LnClosed, CloseFnSteps
  <2>3. CASE SrvClose(t) \/ CloseLock(t)
    BY <1>1, <2>1, <2>2, <2>3 DEF SrvClose, CloseLock
  <2>4. CASE SrvClosed(t) \/ LnClosed(t)
    <3>1. target[t] \in Recs
      BY <2>2 DEF IInv, StepInv, WithdrawSteps
    <3>2. open' = open \ {target[t]}
      BY <2>4 DEF SrvClosed, LnClosed
    <3> QED
      BY <1>10, <2>1, <2>2, <3>1, <3>2, Withdraws
  <2> QED
    BY <1>11, <2>3, <2>4 DEF CloseFnStep
<1>12. CASE Close
  <2>1. /\ ~shutdown /\ shutdown' = TRUE /\ byKey' = [k \in Keys |-> NoService]
        /\ UNCHANGED <<open, def>>
    BY <1>12 DEF Close, IInv, StepInv
  <2>2. \A c \in Callers : Quiet(c)
    BY <1>0, <1>12, NamesAssumption DEF Close
  <2>3. \A s \in Services : Status(s)' = Status(s)
    BY <2>1, <2>2, SameOpening, Stutters
  <2> QED
    BY <2>1, <2>3 DEF Registry!Shutdown, Registry!Next
<1>13. ASSUME CloseDone \/ \E r \in Recs : CloseNext(r)
       PROVE  UNCHANGED Registry!vars
  <2>1. \A c \in Callers : Quiet(c)
    BY <1>0, <1>13, NamesAssumption DEF CloseDone, CloseNext
  <2> QED
    BY <1>1, <1>13, <2>1 DEF CloseDone, CloseNext
<1>14. ASSUME NEW r \in Recs, ServeStep(r)
       PROVE  UNCHANGED Registry!vars \/ \E s \in Services : Registry!Darken(s)
  <2>1. CASE ServeStart(r) \/ ServeReturns(r) \/ ServeLock(r)
    BY <1>1, <2>1 DEF ServeStart, ServeReturns, ServeLock
  <2>2. CASE ServeClosed(r)
    <3>1. shutdown \/ ~Serving(r)
      BY <2>2 DEF ServeClosed, IInv, ListenerInv, ListenerUp, RecordInv
    <3> QED
      BY <1>10, <2>2, <3>1 DEF ServeClosed
  <2> QED
    BY <1>14, <2>1, <2>2 DEF ServeStep
<1>15. ASSUME NEW r \in Recs, AcceptFails(r)
       PROVE  FALSE
  BY <1>15 DEF AcceptFails
<1>16. CASE UNCHANGED vars
  BY <1>1, <1>16 DEF vars
<1> QED
  BY <1>2, <1>3, <1>4, <1>5, <1>7, <1>8, <1>9, <1>11, <1>12, <1>13, <1>14, <1>15, <1>16
     DEF Next, StartCall, CallerStep, RegisterStep, AdvertiseStep, CloseStep, Registry!Next

\* Manager implements ServiceRegistry: seen from a watcher, registrations join
\* open listeners, and a listener closes when nobody is registered, though each
\* takes the code many steps; where Accept does not fail on its own.
THEOREM ImplementsRegistry ==
    ASSUME ExclusiveKeys, ~AcceptMayFail
    PROVE  Spec => RegistrySpec
<1>1. Init => Registry!Init
  <2> SUFFICES ASSUME Init PROVE Registry!Init
    OBVIOUS
  <2>1. \A s \in Services : Status(s) = "dark"
    BY DEF Init, Status, HandlerInConfig, Opening, Threads
  <2> QED
    BY <2>1 DEF Init, Registry!Init
<1>2. IInv /\ [Next]_vars => [Registry!Next]_(Registry!vars)
  BY RegistryStep
<1> QED
  BY <1>1, <1>2, InductiveInvariant, PTL DEF Spec, RegistrySpec, Registry!Spec

-----------------------------------------------------------------------------
(* What the other components rely on.                                        *)

\* What a step may do to the pool of record r: leave it alone; add a key that is
\* in no pool, to a pool that is serving and has a member, or as the first of a
\* record it publishes; or take a member out of a serving pool, which withdraws
\* the record exactly when it was the last.
PoolMove(r) ==
    \/ pool'[r] = pool[r]
    \/ \E k \in Keys :
          /\ pool'[r] = pool[r] \cup {k}
          /\ \A q \in Recs : k \notin pool[q]
          /\ \/ Serving(r) /\ pool[r] # {}
             \/ ~ready[r] /\ pool[r] = {} /\ ready'[r]
    \/ \E k \in pool[r] :
          /\ Serving(r)
          /\ pool'[r] = pool[r] \ {k}
          /\ pool'[r] = {} <=> withdrawing'[r] # "nil"

\* What the requests of a service rely on: its pool changes by one backend at a
\* time, one that was emptied is never filled again, and the scheme of a record
\* is fixed (register, Deregister, backendPool.add and remove).
PoolContract ==
    [][\A r \in Recs : PoolMove(r) /\ (def[r] # NoDef => def'[r] = def[r])]_vars

\* What the watchers rely on: until shutdown a key is registered exactly if the
\* last call made for it was a registration that returned nil, so a watcher that
\* keeps the result of its calls knows the registry (Register's contract).
ToldIsTrue == ~shutdown => \A k \in Keys : k \in holds <=> byKey[k] # NoService

\* The goroutines that would take serveMu, and those that cannot because another
\* has it (serveMu.Lock in advertise and in serialisedListener.Close).
WaitsForLock(g) ==
    /\ serveMu # Free
    /\ \/ g \in Threads /\ pc[g] \in {"listen", "srvLock", "lnLock"}
       \/ g \in Recs /\ serve[g] = "returning"

\* The callers whose channel is not closed yet (<-wait in register).
WaitsForChannel(g) ==
    /\ g \in Callers
    /\ \/ pc[g] = "waitAdvertised" /\ advertised[target[g]] # "closed"
       \/ pc[g] = "waitWithdrawing" /\ withdrawing[target[g]] # "closed"

Waits(g) == WaitsForLock(g) \/ WaitsForChannel(g)

\* Goroutine h is on its way to releasing the lock or closing the channel that g
\* waits for.
EndsWait(g, h) ==
    \/ WaitsForLock(g) /\ h = serveMu
    \/ /\ WaitsForChannel(g)
       /\ h \in Callers
       /\ \/ pc[g] = "waitAdvertised" /\ Advertises(h, target[g])
          \/ pc[g] = "waitWithdrawing" /\ TearsDown(h, target[g])

\* No deadlock between the transition channels and serveMu: whoever waits, waits
\* for a goroutine that waits for nobody, or for one that waits for such a one.
WaitsAreShallow ==
    \A g \in Threads \cup Recs : Waits(g) =>
        \E h \in Threads \cup Recs :
            /\ EndsWait(g, h)
            /\ ~Waits(h) \/ \E i \in Threads \cup Recs : EndsWait(h, i) /\ ~Waits(i)

\* A registration that goes on finds its key in no pool.
LEMMA KeyIsFree ==
    ASSUME IInv, NEW c \in Callers, ~shutdown, pc[c] \in {"register"} \cup AdvertiseSteps,
           byKey[key[c]] = NoService
    PROVE  key[c] \in Keys /\ \A q \in Recs : key[c] \notin pool[q]
<1>1. key[c] \in Keys
  BY DrivesAssumption DEF IInv, StepInv
<1> QED
  BY <1>1, RegisteredIsMember DEF Registered

\* Every step moves every pool as PoolMove says, and no step changes the
\* definition of a claimed record.
LEMMA PoolSteps ==
    ASSUME IInv, [Next]_vars, NEW r \in Recs
    PROVE  PoolMove(r) /\ (def[r] # NoDef => def'[r] = def[r])
<1> USE DEF GoTo, registry, records, gauges, serving, threads, history, Threads
<1> DEFINE Moves == PoolMove(r) /\ (def[r] # NoDef => def'[r] = def[r])
<1>1. /\ pool \in [Recs -> SUBSET Keys] /\ def \in [Recs -> Defs \cup {NoDef}]
      /\ ready \in [Recs -> BOOLEAN] /\ withdrawing \in [Recs -> Channel]
      /\ index \in [Services -> Recs \cup {NoRec}]
      /\ byKey \in [Keys -> Services \cup {NoService}]
  BY DEF IInv, TypeOK
<1>2. ASSUME UNCHANGED <<pool, def>>
      PROVE  Moves
  BY <1>2 DEF PoolMove
<1>3. ASSUME NEW c \in Callers, NEW k \in Keys,
             DeregisterUnknown(c, k) \/ \E d \in Defs : CallRegister(c, k, d)
      PROVE  Moves
  BY <1>2, <1>3 DEF CallRegister, DeregisterUnknown
<1>4. ASSUME NEW c \in Callers, NEW k \in Keys, Deregister(c, k) \/ DeregisterLast(c, k)
      PROVE  Moves
  <2>1. PICK q \in Recs : q = index[byKey[k]] /\ k \in pool[q] /\ Serving(q)
    <3>1. Leave(c, k, index[byKey[k]])
      BY <1>4 DEF Deregister, DeregisterLast
    <3>2. byKey[k] # NoService
      BY <3>1 DEF Leave, Registered
    <3> QED
      BY <1>1, <3>2 DEF IInv, KeyInv
  <2>2. def' = def /\ pool' = [pool EXCEPT ![q] = @ \ {k}]
    BY <1>4, <2>1 DEF Deregister, DeregisterLast, Leave
  <2>3. CASE q # r
    BY <1>1, <2>1, <2>2, <2>3 DEF PoolMove
  <2>4. CASE q = r
    <3>1. pool'[r] = pool[r] \ {k}
      BY <1>1, <2>1, <2>2, <2>4
    <3>2. pool'[r] = {} <=> withdrawing'[r] # "nil"
      <4>1. CASE Deregister(c, k)
        BY <2>1, <2>4, <4>1 DEF Deregister, Serving
      <4>2. CASE DeregisterLast(c, k)
        BY <1>1, <2>1, <2>4, <4>2 DEF DeregisterLast
      <4> QED
        BY <1>4, <4>1, <4>2
    <3> QED
      BY <2>1, <2>2, <2>4, <3>1, <3>2 DEF PoolMove
  <2> QED
    BY <2>3, <2>4
<1>5. ASSUME NEW c \in Callers,
             \/ RegisterShutdown(c) \/ RegisterKnown(c) \/ RegisterWait(c)
             \/ RegisterConflict(c) \/ Awake(c)
      PROVE  Moves
  BY <1>2, <1>5 DEF RegisterShutdown, RegisterKnown, RegisterWait, RegisterConflict, Awake
<1>6. ASSUME NEW c \in Callers, NEW q \in Recs, RegisterClaim(c, q)
      PROVE  Moves
  BY <1>1, <1>6 DEF RegisterClaim, Unused, PoolMove
<1>7. ASSUME NEW c \in Callers, RegisterJoin(c)
      PROVE  Moves
  <2>1. want[c].service \in Services
    BY <1>7, DefsAssumption DEF RegisterJoin, Proceeds, IInv, StepInv
  <2>2. PICK q \in Recs : q = index[want[c].service]
    BY <1>1, <1>7, <2>1 DEF RegisterJoin
  <2>3. def' = def /\ pool' = [pool EXCEPT ![q] = @ \cup {key[c]}] /\ Serving(q)
    BY <1>7, <2>2 DEF RegisterJoin, Transition, Serving
  <2>4. ~shutdown /\ key[c] \in Keys /\ \A p \in Recs : key[c] \notin pool[p]
    BY <1>7, KeyIsFree DEF RegisterJoin, Proceeds
  <2>5. pool[q] # {}
    BY <2>3, <2>4 DEF IInv, PoolInv
  <2>6. CASE q # r
    BY <1>1, <2>3, <2>6 DEF PoolMove
  <2>7. CASE q = r
    <3>1. pool'[r] = pool[r] \cup {key[c]}
      BY <1>1, <2>3, <2>7
    <3> QED
      BY <2>3, <2>4, <2>5, <2>7, <3>1 DEF PoolMove
  <2> QED
    BY <2>6, <2>7
<1>8. ASSUME NEW c \in Callers, Publish(c)
      PROVE  Moves
  <2>1. PICK q \in Recs : q = target[c]
    BY <1>8 DEF Publish, IInv, StepInv, AdvertiseSteps
  <2>2. def' = def /\ pool' = [pool EXCEPT ![q] = @ \cup {key[c]}]
        /\ ready' = [ready EXCEPT ![q] = TRUE]
    BY <1>8, <2>1 DEF Publish
  <2>3. pc[c] \in AdvertiseSteps /\ ~shutdown
    BY <1>8 DEF Publish, AdvertiseSteps
  <2>4. key[c] \in Keys /\ \A p \in Recs : key[c] \notin pool[p]
    BY <2>3, KeyIsFree DEF IInv, ProgressInv
  <2>5. ~ready[q] /\ pool[q] = {}
    BY <2>1, <2>3 DEF IInv, RecordInv, Advertises
  <2>6. CASE q # r
    BY <1>1, <2>2, <2>6 DEF PoolMove
  <2>7. CASE q = r
    <3>1. pool'[r] = pool[r] \cup {key[c]} /\ ready'[r]
      BY <1>1, <2>2, <2>7
    <3> QED
      BY <2>2, <2>4, <2>5, <2>7, <3>1 DEF PoolMove
  <2> QED
    BY <2>6, <2>7
<1>9. ASSUME NEW c \in Callers,
             \/ ListenLock(c) \/ ListenOpens(c) \/ ListenFails(c) \/ Abandon(c)
             \/ PublishShutdown(c) \/ Withdrawn(c)
      PROVE  Moves
  BY <1>2, <1>9 DEF ListenLock, ListenOpens, ListenFails, Abandon, PublishShutdown,
                    ReleaseLocked, Withdrawn
<1>10. ASSUME NEW t \in Threads, CloseFnStep(t)
       PROVE  Moves
  BY <1>2, <1>10 DEF CloseFnStep, SrvClose, CloseLock, SrvClosed, LnClosed
<1>11. CASE Close \/ CloseDone \/ \E q \in Recs : CloseNext(q)
  BY <1>2, <1>11 DEF Close, CloseDone, CloseNext
<1>12. ASSUME NEW q \in Recs, ServeStep(q) \/ AcceptFails(q)
       PROVE  Moves
  BY <1>2, <1>12 DEF ServeStep, ServeStart, ServeReturns, ServeLock, ServeClosed, AcceptFails
<1>13. CASE UNCHANGED vars
  BY <1>2, <1>13 DEF vars
<1> QED
  BY <1>3, <1>4, <1>5, <1>6, <1>7, <1>8, <1>9, <1>10, <1>11, <1>12, <1>13
     DEF Next, StartCall, CallerStep, RegisterStep, AdvertiseStep, CloseStep

\* Pools change by one backend at a time and an emptied pool stays empty, however
\* registrations, withdrawals and Close interleave (register, Deregister).
THEOREM PoolsKeepTheirContract ==
    ASSUME ExclusiveKeys
    PROVE  Spec => PoolContract
<1>1. IInv /\ [Next]_vars =>
        [\A r \in Recs : PoolMove(r) /\ (def[r] # NoDef => def'[r] = def[r])]_vars
  BY PoolSteps
<1> QED
  BY <1>1, InductiveInvariant, PTL DEF Spec, PoolContract

\* With one goroutine driving each key, a repeated registration is a no-op as
\* RegisterHostPort's comment says: no key is ever in two pools (register).
THEOREM RepeatsAreNoOps ==
    ASSUME ExclusiveKeys
    PROVE  Spec => RepeatIsNoOp
<1>1. IInv /\ [Next]_vars =>
        [\A r \in Recs : \A k \in pool'[r] \ pool[r] : \A q \in Recs : k \notin pool[q]]_vars
  BY PoolSteps DEF PoolMove
<1> QED
  BY <1>1, InductiveInvariant, PTL DEF Spec, RepeatIsNoOp

\* Only the driver of a key changes what was said of it, and says what is so.
LEMMA ToldInduct ==
    ASSUME IInv, \A k \in Keys : byKey[k] # NoService => k \in holds, [Next]_vars
    PROVE  \A k \in Keys : byKey'[k] # NoService => k \in holds'
<1> USE DEF GoTo, registry, records, gauges, serving, threads, history, Threads
<1> DEFINE ToldNext == \A k \in Keys : byKey'[k] # NoService => k \in holds'
<1>1. byKey \in [Keys -> Services \cup {NoService}] /\ holds \subseteq Keys
  BY DEF IInv, TypeOK
<1>2. ASSUME byKey' = byKey, holds \subseteq holds'
      PROVE  ToldNext
  BY <1>2
<1>3. ASSUME NEW c \in Callers, NEW k \in Keys,
             \/ DeregisterUnknown(c, k) \/ Deregister(c, k) \/ DeregisterLast(c, k)
      PROVE  ToldNext
  <2>1. Forget(k)
    BY <1>3 DEF DeregisterUnknown, Deregister, DeregisterLast, Leave
  <2> QED
    BY <1>1, <2>1 DEF Forget
<1>4. ASSUME NEW c \in Callers, NEW k \in Keys, NEW d \in Defs, CallRegister(c, k, d)
      PROVE  ToldNext
  BY <1>2, <1>4 DEF CallRegister
<1>5. ASSUME NEW c \in Callers,
             \/ RegisterKnown(c) \/ RegisterWait(c) \/ Awake(c)
             \/ \E r \in Recs : RegisterClaim(c, r)
      PROVE  ToldNext
  BY <1>2, <1>5 DEF RegisterKnown, RegisterWait, Awake, RegisterClaim, ReturnNil
<1>6. ASSUME NEW c \in Callers, ReturnError(c), byKey' = byKey, byKey[key[c]] = NoService
      PROVE  ToldNext
  BY <1>6 DEF ReturnError
<1>7. ASSUME NEW c \in Callers, byKey' = byKey, shutdown
      PROVE  ToldNext
  BY <1>7 DEF IInv, KeyInv
<1>8. ASSUME NEW c \in Callers, RegisterShutdown(c) \/ RegisterConflict(c) \/ Abandon(c)
      PROVE  ToldNext
  <2>1. CASE RegisterShutdown(c)
    BY <1>7, <2>1 DEF RegisterShutdown
  <2>2. CASE RegisterConflict(c)
    BY <1>6, <2>2 DEF RegisterConflict, Proceeds
  <2>3. CASE Abandon(c)
    BY <1>6, <2>3 DEF Abandon, ReleaseLocked, IInv, ProgressInv, AdvertiseSteps
  <2> QED
    BY <1>8, <2>1, <2>2, <2>3
<1>9. ASSUME NEW c \in Callers, RegisterJoin(c) \/ Publish(c)
      PROVE  ToldNext
  <2>1. ReturnNil(c) /\ \A k \in Keys \ {key[c]} : byKey'[k] = byKey[k]
    BY <1>1, <1>9 DEF RegisterJoin, Publish
  <2> QED
    BY <2>1 DEF ReturnNil
<1>10. ASSUME NEW c \in Callers,
              \/ ListenLock(c) \/ ListenOpens(c) \/ ListenFails(c) \/ PublishShutdown(c)
              \/ Withdrawn(c)
       PROVE  ToldNext
  BY <1>2, <1>10 DEF ListenLock, ListenOpens, ListenFails, PublishShutdown, ReleaseLocked,
                     Withdrawn
<1>11. ASSUME NEW t \in Threads, CloseFnStep(t)
       PROVE  ToldNext
  <2>1. CASE LnClosed(t)
    <3>1. CASE t \in Callers /\ ~ready[target[t]]
      <4>1. shutdown /\ byKey' = byKey
        BY <2>1, <3>1 DEF LnClosed, IInv, OwnerInv, CloseFnSteps
      <4> QED
        BY <1>7, <3>1, <4>1
    <3>2. CASE ~(t \in Callers /\ ~ready[target[t]])
      BY <1>2, <2>1, <3>2 DEF LnClosed
    <3> QED
      BY <3>1, <3>2
  <2>2. CASE SrvClose(t) \/ CloseLock(t) \/ SrvClosed(t)
    BY <1>2, <2>2 DEF SrvClose, CloseLock, SrvClosed
  <2> QED
    BY <1>11, <2>1, <2>2 DEF CloseFnStep
<1>12. CASE Close
  BY <1>12 DEF Close
<1>13. CASE CloseDone \/ \E r \in Recs : CloseNext(r)
  BY <1>2, <1>13 DEF CloseDone, CloseNext
<1>14. ASSUME NEW r \in Recs, ServeStep(r) \/ AcceptFails(r)
       PROVE  ToldNext
  BY <1>2, <1>14 DEF ServeStep, ServeStart, ServeReturns, ServeLock, ServeClosed, AcceptFails
<1>15. CASE UNCHANGED vars
  BY <1>2, <1>15 DEF vars
<1> QED
  BY <1>3, <1>4, <1>5, <1>8, <1>9, <1>10, <1>11, <1>12, <1>13, <1>14, <1>15
     DEF Next, StartCall, CallerStep, RegisterStep, AdvertiseStep, CloseStep

\* The registry is what its callers were told it is: what a watcher's own books
\* say of its keys until shutdown (Register, Deregister).
THEOREM CallersKnowTheRegistry ==
    ASSUME ExclusiveKeys
    PROVE  Spec => []ToldIsTrue
<1> DEFINE Told == \A k \in Keys : byKey[k] # NoService => k \in holds
<1>1. Init => Told
  BY DEF Init
<1>2. IInv /\ Told /\ [Next]_vars => Told'
  BY ToldInduct
<1>3. IInv /\ Told => ToldIsTrue
  BY DEF IInv, PoolInv, ToldIsTrue
<1> QED
  BY <1>1, <1>2, <1>3, InductiveInvariant, PTL DEF Spec

-----------------------------------------------------------------------------

\* The goroutine that holds serveMu waits for nobody.
LEMMA HolderGoesOn ==
    ASSUME IInv, serveMu # Free
    PROVE  serveMu \in Threads \cup Recs /\ ~Waits(serveMu)
<1>1. serveMu \in Threads \cup Recs
  BY DEF IInv, TypeOK
<1>2. CASE serveMu \in Threads
  <2>1. serveMu \notin Recs /\ pc[serveMu] \in {"listening", "srvClosing", "lnClosing"}
    BY <1>2, NamesAssumption DEF IInv, LockInv, Threads
  <2> QED
    BY <1>2, <2>1 DEF Waits, WaitsForLock, WaitsForChannel
<1>3. CASE serveMu \in Recs
  <2>1. serveMu \notin Threads /\ serve[serveMu] = "closing"
    BY <1>3, NamesAssumption DEF IInv, LockInv, Threads
  <2> QED
    BY <1>3, <2>1 DEF Waits, WaitsForLock, WaitsForChannel, Threads
<1> QED
  BY <1>1, <1>2, <1>3

\* Nobody waits in a circle: the goroutine that ends a wait for a channel waits
\* for serveMu at most, and its holder for nothing (register, advertise,
\* serialisedListener.Close).
THEOREM WaitsEnd ==
    ASSUME ExclusiveKeys
    PROVE  Spec => []WaitsAreShallow
<1>1. IInv /\ WaiterHasWaker => WaitsAreShallow
  <2> SUFFICES ASSUME IInv, WaiterHasWaker, NEW g \in Threads \cup Recs, Waits(g)
               PROVE  \E h \in Threads \cup Recs :
                         /\ EndsWait(g, h)
                         /\ ~Waits(h) \/ \E i \in Threads \cup Recs : EndsWait(h, i) /\ ~Waits(i)
    BY DEF WaitsAreShallow
  <2>1. CASE WaitsForLock(g)
    <3>1. serveMu \in Threads \cup Recs /\ ~Waits(serveMu)
      BY <2>1, HolderGoesOn DEF WaitsForLock
    <3> QED
      BY <2>1, <3>1 DEF EndsWait
  <2>2. CASE WaitsForChannel(g)
    <3>1. PICK h \in Callers :
             /\ EndsWait(g, h)
             /\ pc[h] \in AdvertiseSteps \cup WithdrawSteps
      BY <2>2 DEF WaitsForChannel, WaiterHasWaker, EndsWait, Advertises, TearsDown,
                  AdvertiseSteps, WithdrawSteps, CloseFnSteps
    <3>2. h \in Threads \cup Recs
      BY DEF Threads
    <3>3. CASE ~Waits(h)
      BY <3>1, <3>2, <3>3
    <3>4. CASE Waits(h)
      <4>1. ~WaitsForChannel(h)
        BY <3>1 DEF WaitsForChannel, AdvertiseSteps, WithdrawSteps, CloseFnSteps
      <4>2. WaitsForLock(h)
        BY <3>4, <4>1 DEF Waits
      <4>3. serveMu \in Threads \cup Recs /\ ~Waits(serveMu)
        BY <4>2, HolderGoesOn DEF WaitsForLock
      <4>4. EndsWait(h, serveMu)
        BY <4>2 DEF EndsWait
      <4> QED
        BY <3>1, <3>2, <4>3, <4>4
    <3> QED
      BY <3>3, <3>4
  <2> QED
    BY <2>1, <2>2 DEF Waits
<1> QED
  BY <1>1, InductiveInvariant, WaitersAreWoken, PTL
=============================================================================
