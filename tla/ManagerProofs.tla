---------------------------- MODULE ManagerProofs ----------------------------
(***************************************************************************)
(* The inductive invariant of Manager is an invariant.  One lemma for each   *)
(* part of IInv shows that every step preserves it; the lemmas before them   *)
(* collect what a goroutine may rely on in the middle of its call.           *)
(***************************************************************************)
EXTENDS ManagerInvariant, FiniteSetTheorems, TLAPS

\* The size of a pool, as pool.add and pool.remove return it, is a number.
LEMMA PoolSize ==
    ASSUME NEW S \in SUBSET Keys
    PROVE  Cardinality(S) \in Int
  BY KeysAssumption, FS_Subset, FS_CardinalityType

\* The definition of an unclaimed record names no service.
LEMMA NoDefName == NoDef.service = NoService
  BY DEF NoDef

\* A record's name is a service, or none.
LEMMA NameType ==
    ASSUME TypeOK, NEW r \in Recs
    PROVE  Name(r) \in Services \cup {NoService}
<1>1. CASE def[r] \in Defs
  BY <1>1, DefsAssumption DEF Name
<1>2. CASE def[r] = NoDef
  <2>1. NoDef.service = NoService
    BY DEF NoDef
  <2> QED
    BY <1>2, <2>1 DEF Name
<1> QED
  BY <1>1, <1>2 DEF TypeOK

\* What a caller inside advertise may rely on at every step: its record is
\* untouched by the other goroutines, Close included.
LEMMA AdvertiserFacts ==
    ASSUME IInv, NEW c \in Callers, pc[c] \in AdvertiseSteps
    PROVE  /\ target[c] \in Recs
           /\ def[target[c]] \in Defs
           /\ advertised[target[c]] = "open"
           /\ ~ready[target[c]]
           /\ withdrawing[target[c]] = "nil"
           /\ pool[target[c]] = {}
           /\ serve[target[c]] = "none"
           /\ target[c] \notin srvDown \cup pending
           /\ key[c] \in Drives[c] /\ key[c] \in Keys /\ want[c] \in Defs
<1>1. target[c] \in Recs /\ def[target[c]] \in Defs /\ key[c] \in Drives[c]
      /\ key[c] \in Keys /\ want[c] \in Defs
  BY DrivesAssumption DEF IInv, StepInv, TypeOK
<1>2. advertised[target[c]] = "open"
  BY <1>1 DEF IInv, RecordInv, Advertises
<1> QED
  BY <1>1, <1>2 DEF IInv, RecordInv, TypeOK, Serving

\* What a caller inside closeFn may rely on: its record is its own, either one
\* whose pool it emptied or one it never published.
LEMMA WithdrawerFacts ==
    ASSUME IInv, NEW c \in Callers, pc[c] \in WithdrawSteps
    PROVE  /\ target[c] \in Recs
           /\ def[target[c]] \in Defs
           /\ advertised[target[c]] # "open"
           /\ pool[target[c]] = {}
           /\ target[c] \notin pending
           /\ ready[target[c]] => withdrawing[target[c]] = "open"
           /\ ~ready[target[c]] =>
                /\ withdrawing[target[c]] = "nil"
                /\ shutdown
                /\ pc[c] \in CloseFnSteps
<1>1. target[c] \in Recs /\ def[target[c]] \in Defs
  BY DEF IInv, StepInv
<1>2. ready[target[c]] => withdrawing[target[c]] = "open"
  BY <1>1 DEF IInv, RecordInv, TearsDown
<1>3. ~ready[target[c]] =>
        /\ withdrawing[target[c]] = "nil"
        /\ advertised[target[c]] = "closed"
        /\ shutdown
        /\ pc[c] \in CloseFnSteps
  BY <1>1 DEF IInv, RecordInv, OwnerInv, WithdrawSteps
<1> QED
  BY <1>1, <1>2, <1>3 DEF IInv, RecordInv, TypeOK, Serving

\* A record in the index is a claimed one, under its own name.
LEMMA IndexedFacts ==
    ASSUME IInv, NEW s \in Services, index[s] # NoRec
    PROVE  /\ index[s] \in Recs
           /\ def[index[s]] \in Defs
           /\ Name(index[s]) = s
<1>1. index[s] \in Recs /\ Name(index[s]) = s
  BY DEF IInv, TypeOK, OccupancyInv
<1> QED
  BY <1>1, NamesAssumption, NoDefName DEF IInv, TypeOK, Name

\* A key that Deregister finds in byKey leads it to a serving record that no
\* other goroutine is working on.
LEMMA RegisteredFacts ==
    ASSUME IInv, NEW k \in Keys, Registered(k)
    PROVE  /\ ~shutdown
           /\ index[byKey[k]] \in Recs
           /\ def[index[byKey[k]]] \in Defs
           /\ Name(index[byKey[k]]) = byKey[k]
           /\ Serving(index[byKey[k]])
           /\ advertised[index[byKey[k]]] = "closed"
           /\ index[byKey[k]] \notin srvDown
           /\ k \in pool[index[byKey[k]]]
           /\ \A c \in Callers :
                 pc[c] \in AdvertiseSteps \cup WithdrawSteps =>
                    target[c] # index[byKey[k]]
<1> DEFINE r == index[byKey[k]]
<1>1. ~shutdown /\ byKey[k] \in Services /\ r # NoRec
  BY NamesAssumption DEF Registered, IInv, TypeOK, KeyInv
<1>2. r \in Recs /\ def[r] \in Defs /\ Name(r) = byKey[k]
  BY <1>1, IndexedFacts
<1>3. Serving(r) /\ k \in pool[r]
  BY <1>1, NamesAssumption DEF IInv, KeyInv
<1>4. advertised[r] = "closed" /\ r \notin srvDown
  BY <1>1, <1>2, <1>3 DEF IInv, RecordInv, Serving
<1>5. ASSUME NEW c \in Callers, pc[c] \in AdvertiseSteps \cup WithdrawSteps
      PROVE  target[c] # r
  BY <1>3, <1>4, <1>5, AdvertiserFacts, WithdrawerFacts DEF Serving
<1> QED
  BY <1>1, <1>2, <1>3, <1>4, <1>5

\* Dropping a record that no longer occupies its name, as releaseLocked and
\* the end of Deregister do, leaves every other record in place.
LEMMA OccupancyDrop ==
    ASSUME IInv, NEW q \in Recs,
           UNCHANGED <<shutdown, def>>,
           \A r \in Recs : Occupies(r)' => r # q /\ Occupies(r),
           \A r \in Recs : r # q => (Claimed(r)' <=> Claimed(r)),
           index' = IF index[Name(q)] = q
                    THEN [index EXCEPT ![Name(q)] = NoRec] ELSE index
    PROVE  OccupancyInv'
<1>1. \A s \in Services : index[s] = q => s = Name(q)
  BY IndexedFacts, NamesAssumption
<1>2. \A s \in Services :
        /\ index'[s] # q
        /\ index'[s] # NoRec => index'[s] = index[s]
        /\ index[s] # q => index'[s] = index[s]
  BY <1>1, NamesAssumption DEF IInv, TypeOK
<1>3. \A r \in Recs : Name(r)' = Name(r)
  BY DEF Name
<1>4. \A s \in Services : index'[s] # NoRec =>
        index'[s] \in Recs /\ Name(index'[s]) = s /\ ~shutdown
  BY <1>2, IndexedFacts DEF IInv, OccupancyInv
<1>5. ~shutdown => \A r \in Recs : Occupies(r)' => index'[Name(r)] = r
  <2> SUFFICES ASSUME ~shutdown, NEW r \in Recs, Occupies(r)'
               PROVE  index'[Name(r)] = r
    OBVIOUS
  <2>1. r # q /\ index[Name(r)] = r
    BY DEF IInv, OccupancyInv
  <2> QED
    BY <2>1, NamesAssumption DEF IInv, TypeOK
<1>6. ~shutdown => \A s \in Services : index'[s] # NoRec => Claimed(index[s])'
  <2> SUFFICES ASSUME ~shutdown, NEW s \in Services, index'[s] # NoRec
               PROVE  Claimed(index[s])'
    OBVIOUS
  <2>1. index'[s] = index[s] /\ index[s] # q /\ index[s] \in Recs
    BY <1>2, <1>4
  <2>2. Claimed(index[s])
    BY <2>1 DEF IInv, OccupancyInv
  <2>3. \A r \in Recs : r # q /\ Claimed(r) => Claimed(r)'
    OBVIOUS
  <2> QED
    BY <2>1, <2>2 DEF Claimed
<1>7. \A p, r \in Recs : Occupies(p)' /\ Occupies(r)' /\ Name(p) = Name(r) => p = r
  BY DEF IInv, OccupancyInv
<1> QED
  BY <1>3, <1>4, <1>5, <1>6, <1>7 DEF OccupancyInv, Name

\* Before shutdown, the record whose pool holds a key is the one byKey and the
\* index lead to.
LEMMA PoolFacts ==
    ASSUME IInv, ~shutdown, NEW r \in Recs, NEW k \in pool[r]
    PROVE  /\ k \in Keys /\ byKey[k] = Name(r) /\ byKey[k] # NoService
           /\ index[byKey[k]] = r /\ Serving(r)
<1>1. k \in Keys /\ byKey[k] = Name(r)
  BY DEF IInv, TypeOK, PoolInv
<1>2. Serving(r)
  BY DEF IInv, RecordInv, Serving
<1>3. index[Name(r)] = r
  BY <1>2 DEF IInv, OccupancyInv, Occupies, Claimed, Serving
<1>4. def[r] \in Defs
  BY DEF IInv, TypeOK, UnusedInv
<1>5. Name(r) # NoService
  BY <1>4, DefsAssumption, NamesAssumption DEF Name
<1> QED
  BY <1>1, <1>2, <1>3, <1>5

\* What a registration that joins a pool finds and does.
LEMMA JoinFacts ==
    ASSUME IInv, NEW c \in Callers, RegisterJoin(c)
    PROVE  \E q \in Recs :
              /\ q = index[want[c].service] /\ index[Name(q)] = q
              /\ Name(q) \in Services /\ Serving(q) /\ ~shutdown
              /\ key[c] \in Keys /\ byKey[key[c]] = NoService
              /\ pool' = [pool EXCEPT ![q] = @ \cup {key[c]}]
              /\ byKey' = [byKey EXCEPT ![key[c]] = Name(q)]
              /\ holds' = holds \cup {key[c]}
              /\ UNCHANGED <<index, shutdown, def, ready, withdrawing>>
<1> DEFINE q == index[want[c].service]
<1>1. key[c] \in Keys /\ want[c].service \in Services
  BY DefsAssumption, DrivesAssumption
     DEF RegisterJoin, Proceeds, IInv, StepInv, TypeOK
<1>2. q \in Recs /\ Name(q) = want[c].service
  BY <1>1, IndexedFacts DEF RegisterJoin
<1>3. Serving(q)
  BY <1>2 DEF RegisterJoin, Transition, Serving
<1> QED
  BY <1>1, <1>2, <1>3 DEF RegisterJoin, Proceeds, ReturnNil

\* What a registration that publishes its record finds and does.
LEMMA PublishFacts ==
    ASSUME IInv, NEW c \in Callers, Publish(c)
    PROVE  \E q \in Recs :
              /\ q = target[c] /\ index[Name(q)] = q
              /\ Name(q) \in Services /\ ~shutdown
              /\ ~ready[q] /\ withdrawing[q] = "nil" /\ pool[q] = {}
              /\ key[c] \in Keys /\ byKey[key[c]] = NoService
              /\ pool' = [pool EXCEPT ![q] = @ \cup {key[c]}]
              /\ byKey' = [byKey EXCEPT ![key[c]] = Name(q)]
              /\ ready' = [ready EXCEPT ![q] = TRUE]
              /\ holds' = holds \cup {key[c]}
              /\ UNCHANGED <<index, shutdown, def, withdrawing>>
<1> DEFINE q == target[c]
<1>1. pc[c] \in AdvertiseSteps /\ ~shutdown
  BY DEF Publish, AdvertiseSteps
<1>2. /\ q \in Recs /\ def[q] \in Defs /\ advertised[q] = "open" /\ ~ready[q]
      /\ withdrawing[q] = "nil" /\ pool[q] = {} /\ key[c] \in Keys
  BY <1>1, AdvertiserFacts
<1>3. index[Name(q)] = q /\ Name(q) \in Services
  BY <1>1, <1>2, DefsAssumption DEF IInv, OccupancyInv, Occupies, Claimed, Name
<1>4. byKey[key[c]] = NoService
  BY <1>1 DEF IInv, ProgressInv
<1> QED
  BY <1>1, <1>2, <1>3, <1>4 DEF Publish, ReturnNil

-----------------------------------------------------------------------------
(* Every step preserves every part of the invariant.                       *)

\* Every action keeps the variables in their types.
LEMMA TypeInduct ==
    ASSUME TypeOK, StepInv, [Next]_vars
    PROVE  TypeOK'
<1> USE DEF TypeOK, GoTo, registry, records, gauges, serving, threads, history,
            Threads, Steps, Channel, ServeState
<1>1. ASSUME NEW c \in Callers, NEW k \in Keys, NEW d \in Defs, CallRegister(c, k, d) PROVE TypeOK'
  BY <1>1 DEF CallRegister
<1>2. ASSUME NEW c \in Callers, NEW k \in Keys, DeregisterUnknown(c, k) PROVE TypeOK'
  BY <1>2 DEF DeregisterUnknown, Forget
<1>3. ASSUME NEW c \in Callers, NEW k \in Keys, Deregister(c, k) PROVE TypeOK'
  <2> DEFINE q == index[byKey[k]]
  <2>1. q \in Recs
    BY <1>3 DEF Deregister, Leave, Registered
  <2>2. pool' = [pool EXCEPT ![q] = @ \ {k}] /\ pool' \in [Recs -> SUBSET Keys]
    BY <1>3 DEF Deregister, Leave
  <2>3. Cardinality(pool'[q]) \in Int
    BY <2>1, <2>2, PoolSize
  <2>4. backends' \in [Services -> Int]
    BY <1>3, <2>3 DEF Deregister
  <2> QED
    BY <1>3, <2>2, <2>4 DEF Deregister, Leave, Forget
<1>4. ASSUME NEW c \in Callers, NEW k \in Keys, DeregisterLast(c, k) PROVE TypeOK'
  <2>1. index[byKey[k]] \in Recs
    BY <1>4 DEF DeregisterLast, Leave, Registered
  <2>2. pool' \in [Recs -> SUBSET Keys]
    BY <1>4 DEF DeregisterLast, Leave
  <2> QED
    BY <1>4, <2>1, <2>2 DEF DeregisterLast, Leave, Forget
<1>5. ASSUME NEW c \in Callers, RegisterShutdown(c) PROVE TypeOK'
  BY <1>5 DEF RegisterShutdown, ReturnError, Return
<1>6. ASSUME NEW c \in Callers, RegisterKnown(c) PROVE TypeOK'
  BY <1>6, DrivesAssumption DEF StepInv, RegisterKnown, ReturnNil, Return
<1>7. ASSUME NEW c \in Callers, NEW r \in Recs, RegisterClaim(c, r) PROVE TypeOK'
  BY <1>7 DEF StepInv, RegisterClaim, Proceeds, Unused
<1>8. ASSUME NEW c \in Callers, RegisterWait(c) PROVE TypeOK'
  BY <1>8, DefsAssumption DEF StepInv, RegisterWait, Proceeds, Transition
<1>9. ASSUME NEW c \in Callers, RegisterConflict(c) PROVE TypeOK'
  BY <1>9 DEF RegisterConflict, Proceeds, ReturnError, Return
<1>10. ASSUME NEW c \in Callers, RegisterJoin(c) PROVE TypeOK'
  <2> DEFINE q == index[want[c].service]
  <2>1. q \in Recs /\ key[c] \in Keys /\ want[c] \in Defs
    BY <1>10, DefsAssumption, DrivesAssumption DEF RegisterJoin, Proceeds, StepInv
  <2>2. pool' \in [Recs -> SUBSET Keys]
    BY <1>10, <2>1 DEF RegisterJoin
  <2>3. Cardinality(pool'[q]) \in Int
    BY <2>1, <2>2, PoolSize
  <2>4. byKey' \in [Keys -> Services \cup {NoService}]
    BY <1>10, <2>1, NameType DEF RegisterJoin
  <2>5. backends' \in [Services -> Int]
    BY <1>10, <2>3 DEF RegisterJoin
  <2> QED
    BY <1>10, <2>1, <2>2, <2>4, <2>5 DEF RegisterJoin, ReturnNil, Return
<1>11. ASSUME NEW c \in Callers, Awake(c) PROVE TypeOK'
  BY <1>11 DEF Awake
<1>12. ASSUME NEW c \in Callers, ListenLock(c) PROVE TypeOK'
  BY <1>12 DEF ListenLock
<1>13. ASSUME NEW c \in Callers, ListenOpens(c) PROVE TypeOK'
  BY <1>13 DEF StepInv, AdvertiseSteps, ListenOpens
<1>14. ASSUME NEW c \in Callers, ListenFails(c) PROVE TypeOK'
  BY <1>14 DEF ListenFails
<1>15. ASSUME NEW c \in Callers, Abandon(c) PROVE TypeOK'
  BY <1>15 DEF Abandon, ReleaseLocked, ReturnError, Return
<1>16. ASSUME NEW c \in Callers, PublishShutdown(c) PROVE TypeOK'
  BY <1>16 DEF PublishShutdown, ReleaseLocked
<1>17. ASSUME NEW c \in Callers, Publish(c) PROVE TypeOK'
  <2> DEFINE q == target[c]
  <2>1. q \in Recs /\ key[c] \in Keys /\ want[c] \in Defs
    BY <1>17, DrivesAssumption DEF Publish, StepInv, AdvertiseSteps
  <2>2. pool' \in [Recs -> SUBSET Keys]
    BY <1>17, <2>1 DEF Publish
  <2>3. Cardinality(pool'[q]) \in Int
    BY <2>1, <2>2, PoolSize
  <2>4. byKey' \in [Keys -> Services \cup {NoService}]
    BY <1>17, <2>1, NameType DEF Publish
  <2>5. backends' \in [Services -> Int]
    BY <1>17, <2>3 DEF Publish
  <2>6. active' \in Int
    BY <1>17 DEF Publish
  <2> QED
    BY <1>17, <2>1, <2>2, <2>4, <2>5, <2>6 DEF Publish, ReturnNil, Return
<1>18. ASSUME NEW c \in Callers, Withdrawn(c) PROVE TypeOK'
  <2>1. index' \in [Services -> Recs \cup {NoRec}]
    BY <1>18 DEF Withdrawn
  <2>2. active' \in Int /\ backends' \in [Services -> Int]
    BY <1>18 DEF Withdrawn, NoSeries
  <2> QED
    BY <1>18, <2>1, <2>2 DEF Withdrawn, Return
<1>19. ASSUME NEW t \in Threads, SrvClose(t) PROVE TypeOK'
  BY <1>19 DEF StepInv, AdvertiseSteps, WithdrawSteps, CloseFnSteps, SrvClose
<1>20. ASSUME NEW t \in Threads, CloseLock(t) PROVE TypeOK'
  BY <1>20 DEF CloseLock
<1>21. ASSUME NEW t \in Threads, SrvClosed(t) PROVE TypeOK'
  BY <1>21 DEF SrvClosed
<1>22. ASSUME NEW t \in Threads, LnClosed(t) PROVE TypeOK'
  <2>1. open' \in SUBSET Recs /\ serveMu' \in Threads \cup Recs \cup {Free}
    BY <1>22 DEF LnClosed
  <2>2. CASE t \in Callers /\ ~ready[target[t]]
    BY <1>22, <2>1, <2>2 DEF LnClosed, ReturnError, Return
  <2>3. CASE ~(t \in Callers /\ ~ready[target[t]])
    BY <1>22, <2>1, <2>3 DEF LnClosed
  <2> QED
    BY <2>2, <2>3
<1>23. ASSUME Close PROVE TypeOK'
  <2>1. pending' \in SUBSET Recs
    BY <1>23 DEF Close
  <2>2. index' \in [Services -> Recs \cup {NoRec}]
    BY <1>23 DEF Close
  <2>3. byKey' \in [Keys -> Services \cup {NoService}]
    BY <1>23 DEF Close
  <2>4. active' \in Int /\ backends' \in [Services -> Int]
    BY <1>23 DEF Close, NoSeries
  <2>5. pc' \in [Threads -> Steps] /\ shutdown' \in BOOLEAN
    BY <1>23 DEF Close
  <2> QED
    BY <1>23, <2>1, <2>2, <2>3, <2>4, <2>5 DEF Close
<1>24. ASSUME NEW r \in Recs, CloseNext(r) PROVE TypeOK'
  BY <1>24 DEF CloseNext
<1>25. ASSUME CloseDone PROVE TypeOK'
  BY <1>25 DEF CloseDone
<1>26. ASSUME NEW r \in Recs, ServeStart(r) PROVE TypeOK'
  BY <1>26 DEF ServeStart, ServeTo
<1>27. ASSUME NEW r \in Recs, ServeReturns(r) PROVE TypeOK'
  BY <1>27 DEF ServeReturns, ServeTo
<1>28. ASSUME NEW r \in Recs, AcceptFails(r) PROVE TypeOK'
  BY <1>28 DEF AcceptFails, ServeTo
<1>29. ASSUME NEW r \in Recs, ServeLock(r) PROVE TypeOK'
  BY <1>29 DEF ServeLock, ServeTo
<1>30. ASSUME NEW r \in Recs, ServeClosed(r) PROVE TypeOK'
  BY <1>30 DEF ServeClosed, ServeTo
<1>31. CASE UNCHANGED vars
  BY <1>31 DEF vars
<1> QED
  BY <1>1, <1>2, <1>3, <1>4, <1>5, <1>6, <1>7, <1>8, <1>9, <1>10, <1>11,
     <1>12, <1>13, <1>14, <1>15, <1>16, <1>17, <1>18, <1>19, <1>20, <1>21,
     <1>22, <1>23, <1>24, <1>25, <1>26, <1>27, <1>28, <1>29, <1>30, <1>31 DEF
     Next, StartCall, CallerStep, RegisterStep, AdvertiseStep, CloseFnStep,
     CloseStep, ServeStep, Threads

\* serveMu belongs to one goroutine at a time: an edit of the serve config
\* begins by taking it and ends by giving it back.
LEMMA LockInduct ==
    ASSUME IInv, [Next]_vars
    PROVE  LockInv'
<1> USE DEF GoTo, registry, records, gauges, serving, threads, history,
            Threads
<1>1. ASSUME NEW c \in Callers, NEW k \in Keys, NEW d \in Defs, CallRegister(c, k, d) PROVE LockInv'
  BY <1>1 DEF IInv, TypeOK, LockInv, CallRegister
<1>2. ASSUME NEW c \in Callers, NEW k \in Keys, DeregisterUnknown(c, k) PROVE LockInv'
  BY <1>2 DEF IInv, TypeOK, LockInv, DeregisterUnknown, Forget
<1>3. ASSUME NEW c \in Callers, NEW k \in Keys, Deregister(c, k) PROVE LockInv'
  BY <1>3 DEF IInv, TypeOK, LockInv, Deregister, Leave, Forget
<1>4. ASSUME NEW c \in Callers, NEW k \in Keys, DeregisterLast(c, k) PROVE LockInv'
  BY <1>4 DEF IInv, TypeOK, LockInv, DeregisterLast, Leave, Forget
<1>5. ASSUME NEW c \in Callers, RegisterShutdown(c) PROVE LockInv'
  BY <1>5 DEF IInv, TypeOK, LockInv, RegisterShutdown, ReturnError, Return
<1>6. ASSUME NEW c \in Callers, RegisterKnown(c) PROVE LockInv'
  BY <1>6 DEF IInv, TypeOK, LockInv, RegisterKnown, ReturnNil, Return
<1>7. ASSUME NEW c \in Callers, NEW r \in Recs, RegisterClaim(c, r) PROVE LockInv'
  BY <1>7 DEF IInv, TypeOK, LockInv, RegisterClaim, Proceeds, Unused
<1>8. ASSUME NEW c \in Callers, RegisterWait(c) PROVE LockInv'
  BY <1>8 DEF IInv, TypeOK, LockInv, RegisterWait, Proceeds, Transition
<1>9. ASSUME NEW c \in Callers, RegisterConflict(c) PROVE LockInv'
  BY <1>9 DEF IInv, TypeOK, LockInv, RegisterConflict, Proceeds, ReturnError,
     Return
<1>10. ASSUME NEW c \in Callers, RegisterJoin(c) PROVE LockInv'
  BY <1>10 DEF IInv, TypeOK, LockInv, RegisterJoin, Proceeds, Transition,
     ReturnNil, Return
<1>11. ASSUME NEW c \in Callers, Awake(c) PROVE LockInv'
  BY <1>11 DEF IInv, TypeOK, LockInv, Awake
<1>12. ASSUME NEW c \in Callers, ListenLock(c) PROVE LockInv'
  BY <1>12, NamesAssumption DEF IInv, TypeOK, LockInv, ListenLock
<1>13. ASSUME NEW c \in Callers, ListenOpens(c) PROVE LockInv'
  BY <1>13, NamesAssumption DEF IInv, TypeOK, LockInv, ListenOpens
<1>14. ASSUME NEW c \in Callers, ListenFails(c) PROVE LockInv'
  BY <1>14, NamesAssumption DEF IInv, TypeOK, LockInv, ListenFails
<1>15. ASSUME NEW c \in Callers, Abandon(c) PROVE LockInv'
  BY <1>15 DEF IInv, TypeOK, LockInv, Abandon, ReleaseLocked, ReturnError,
     Return
<1>16. ASSUME NEW c \in Callers, PublishShutdown(c) PROVE LockInv'
  BY <1>16 DEF IInv, TypeOK, LockInv, PublishShutdown, ReleaseLocked
<1>17. ASSUME NEW c \in Callers, Publish(c) PROVE LockInv'
  BY <1>17, AdvertiserFacts DEF IInv, TypeOK, LockInv, AdvertiseSteps,
     Publish, ReturnNil, Return
<1>18. ASSUME NEW c \in Callers, Withdrawn(c) PROVE LockInv'
  BY <1>18 DEF IInv, TypeOK, LockInv, Withdrawn, Return
<1>19. ASSUME NEW t \in Threads, SrvClose(t) PROVE LockInv'
  BY <1>19 DEF IInv, TypeOK, LockInv, SrvClose
<1>20. ASSUME NEW t \in Threads, CloseLock(t) PROVE LockInv'
  BY <1>20, NamesAssumption DEF IInv, TypeOK, LockInv, CloseLock
<1>21. ASSUME NEW t \in Threads, SrvClosed(t) PROVE LockInv'
  BY <1>21, NamesAssumption DEF IInv, TypeOK, LockInv, SrvClosed
<1>22. ASSUME NEW t \in Threads, LnClosed(t) PROVE LockInv'
  BY <1>22, NamesAssumption DEF IInv, TypeOK, LockInv, LnClosed, ReturnError,
     Return
<1>23. ASSUME Close PROVE LockInv'
  BY <1>23 DEF IInv, TypeOK, LockInv, Close
<1>24. ASSUME NEW r \in Recs, CloseNext(r) PROVE LockInv'
  BY <1>24 DEF IInv, TypeOK, LockInv, CloseNext
<1>25. ASSUME CloseDone PROVE LockInv'
  BY <1>25 DEF IInv, TypeOK, LockInv, CloseDone
<1>26. ASSUME NEW r \in Recs, ServeStart(r) PROVE LockInv'
  BY <1>26 DEF IInv, TypeOK, LockInv, ServeStart, ServeTo
<1>27. ASSUME NEW r \in Recs, ServeReturns(r) PROVE LockInv'
  BY <1>27 DEF IInv, TypeOK, LockInv, ServeReturns, ServeTo
<1>28. ASSUME NEW r \in Recs, AcceptFails(r) PROVE LockInv'
  BY <1>28 DEF IInv, TypeOK, LockInv, AcceptFails, ServeTo
<1>29. ASSUME NEW r \in Recs, ServeLock(r) PROVE LockInv'
  BY <1>29, NamesAssumption DEF IInv, TypeOK, LockInv, ServeLock, ServeTo
<1>30. ASSUME NEW r \in Recs, ServeClosed(r) PROVE LockInv'
  BY <1>30, NamesAssumption DEF IInv, TypeOK, LockInv, ServeClosed, ServeTo
<1>31. CASE UNCHANGED vars
  BY <1>31 DEF vars, LockInv, IInv, TypeOK
<1> QED
  BY <1>1, <1>2, <1>3, <1>4, <1>5, <1>6, <1>7, <1>8, <1>9, <1>10, <1>11,
     <1>12, <1>13, <1>14, <1>15, <1>16, <1>17, <1>18, <1>19, <1>20, <1>21,
     <1>22, <1>23, <1>24, <1>25, <1>26, <1>27, <1>28, <1>29, <1>30, <1>31 DEF
     Next, StartCall, CallerStep, RegisterStep, AdvertiseStep, CloseFnStep,
     CloseStep, ServeStep

\* Each goroutine keeps to its own program: Close alone sets shutdown, and a
\* goroutine inside advertise or closeFn has a claimed record to work on.
LEMMA StepInduct ==
    ASSUME IInv, [Next]_vars
    PROVE  StepInv'
<1> USE DEF GoTo, registry, records, gauges, serving, threads, history,
            Threads
<1>1. ASSUME NEW c \in Callers, NEW k \in Keys, NEW d \in Defs, CallRegister(c, k, d) PROVE StepInv'
  BY <1>1, NamesAssumption DEF IInv, TypeOK, StepInv, AdvertiseSteps,
     CloseFnSteps, WithdrawSteps, CallRegister
<1>2. ASSUME NEW c \in Callers, NEW k \in Keys, DeregisterUnknown(c, k) PROVE StepInv'
  BY <1>2 DEF IInv, TypeOK, StepInv, DeregisterUnknown, Forget
<1>3. ASSUME NEW c \in Callers, NEW k \in Keys, Deregister(c, k) PROVE StepInv'
  BY <1>3 DEF IInv, TypeOK, StepInv, Deregister, Leave, Forget
<1>4. ASSUME NEW c \in Callers, NEW k \in Keys, DeregisterLast(c, k) PROVE StepInv'
  BY <1>4, NamesAssumption, IndexedFacts DEF IInv, TypeOK, StepInv,
     AdvertiseSteps, Registered, DeregisterLast, Leave, Forget
<1>5. ASSUME NEW c \in Callers, RegisterShutdown(c) PROVE StepInv'
  BY <1>5 DEF IInv, TypeOK, StepInv, AdvertiseSteps, CloseFnSteps,
     WithdrawSteps, RegisterShutdown, ReturnError, Return
<1>6. ASSUME NEW c \in Callers, RegisterKnown(c) PROVE StepInv'
  BY <1>6 DEF IInv, TypeOK, StepInv, AdvertiseSteps, CloseFnSteps,
     WithdrawSteps, RegisterKnown, ReturnNil, Return
<1>7. ASSUME NEW c \in Callers, NEW r \in Recs, RegisterClaim(c, r) PROVE StepInv'
  BY <1>7 DEF IInv, TypeOK, StepInv, RegisterClaim, Proceeds, Unused
<1>8. ASSUME NEW c \in Callers, RegisterWait(c) PROVE StepInv'
  BY <1>8, DefsAssumption DEF IInv, TypeOK, StepInv, AdvertiseSteps,
     CloseFnSteps, WithdrawSteps, RegisterWait, Proceeds, Transition
<1>9. ASSUME NEW c \in Callers, RegisterConflict(c) PROVE StepInv'
  BY <1>9 DEF IInv, TypeOK, StepInv, AdvertiseSteps, CloseFnSteps,
     WithdrawSteps, RegisterConflict, Proceeds, ReturnError, Return
<1>10. ASSUME NEW c \in Callers, RegisterJoin(c) PROVE StepInv'
  BY <1>10 DEF IInv, TypeOK, StepInv, AdvertiseSteps, CloseFnSteps,
     WithdrawSteps, RegisterJoin, Proceeds, Transition, ReturnNil, Return
<1>11. ASSUME NEW c \in Callers, Awake(c) PROVE StepInv'
  BY <1>11 DEF IInv, TypeOK, StepInv, AdvertiseSteps, CloseFnSteps,
     WithdrawSteps, Awake
<1>12. ASSUME NEW c \in Callers, ListenLock(c) PROVE StepInv'
  BY <1>12 DEF IInv, TypeOK, StepInv, AdvertiseSteps, CloseFnSteps, ListenLock
<1>13. ASSUME NEW c \in Callers, ListenOpens(c) PROVE StepInv'
  BY <1>13 DEF IInv, TypeOK, StepInv, AdvertiseSteps, CloseFnSteps,
     ListenOpens
<1>14. ASSUME NEW c \in Callers, ListenFails(c) PROVE StepInv'
  BY <1>14 DEF IInv, TypeOK, StepInv, AdvertiseSteps, CloseFnSteps,
     ListenFails
<1>15. ASSUME NEW c \in Callers, Abandon(c) PROVE StepInv'
  BY <1>15 DEF IInv, TypeOK, StepInv, AdvertiseSteps, CloseFnSteps,
     WithdrawSteps, Abandon, ReleaseLocked, ReturnError, Return
<1>16. ASSUME NEW c \in Callers, PublishShutdown(c) PROVE StepInv'
  BY <1>16 DEF IInv, TypeOK, StepInv, AdvertiseSteps, CloseFnSteps,
     PublishShutdown, ReleaseLocked
<1>17. ASSUME NEW c \in Callers, Publish(c) PROVE StepInv'
  BY <1>17 DEF IInv, TypeOK, StepInv, AdvertiseSteps, CloseFnSteps,
     WithdrawSteps, Publish, ReturnNil, Return
<1>18. ASSUME NEW c \in Callers, Withdrawn(c) PROVE StepInv'
  BY <1>18 DEF IInv, TypeOK, StepInv, AdvertiseSteps, CloseFnSteps,
     WithdrawSteps, Withdrawn, Return
<1>19. ASSUME NEW t \in Threads, SrvClose(t) PROVE StepInv'
  BY <1>19 DEF IInv, TypeOK, StepInv, AdvertiseSteps, CloseFnSteps,
     WithdrawSteps, SrvClose
<1>20. ASSUME NEW t \in Threads, CloseLock(t) PROVE StepInv'
  BY <1>20 DEF IInv, TypeOK, StepInv, AdvertiseSteps, CloseFnSteps,
     WithdrawSteps, CloseLock
<1>21. ASSUME NEW t \in Threads, SrvClosed(t) PROVE StepInv'
  BY <1>21 DEF IInv, TypeOK, StepInv, AdvertiseSteps, CloseFnSteps,
     WithdrawSteps, SrvClosed
<1>22. ASSUME NEW t \in Threads, LnClosed(t) PROVE StepInv'
  BY <1>22, NamesAssumption DEF IInv, TypeOK, StepInv, AdvertiseSteps,
     CloseFnSteps, WithdrawSteps, LnClosed, ReturnError, Return
<1>23. ASSUME Close PROVE StepInv'
  BY <1>23, NamesAssumption DEF IInv, TypeOK, StepInv, CloseFnSteps, Close
<1>24. ASSUME NEW r \in Recs, CloseNext(r) PROVE StepInv'
  BY <1>24 DEF IInv, TypeOK, StepInv, CloseFnSteps, CloseNext
<1>25. ASSUME CloseDone PROVE StepInv'
  BY <1>25 DEF IInv, TypeOK, StepInv, CloseFnSteps, CloseDone
<1>26. ASSUME NEW r \in Recs, ServeStart(r) PROVE StepInv'
  BY <1>26 DEF IInv, TypeOK, StepInv, ServeStart, ServeTo
<1>27. ASSUME NEW r \in Recs, ServeReturns(r) PROVE StepInv'
  BY <1>27 DEF IInv, TypeOK, StepInv, ServeReturns, ServeTo
<1>28. ASSUME NEW r \in Recs, AcceptFails(r) PROVE StepInv'
  BY <1>28 DEF IInv, TypeOK, StepInv, AcceptFails, ServeTo
<1>29. ASSUME NEW r \in Recs, ServeLock(r) PROVE StepInv'
  BY <1>29 DEF IInv, TypeOK, StepInv, ServeLock, ServeTo
<1>30. ASSUME NEW r \in Recs, ServeClosed(r) PROVE StepInv'
  BY <1>30 DEF IInv, TypeOK, StepInv, ServeClosed, ServeTo
<1>31. CASE UNCHANGED vars
  BY <1>31 DEF vars, StepInv, IInv, TypeOK
<1> QED
  BY <1>1, <1>2, <1>3, <1>4, <1>5, <1>6, <1>7, <1>8, <1>9, <1>10, <1>11,
     <1>12, <1>13, <1>14, <1>15, <1>16, <1>17, <1>18, <1>19, <1>20, <1>21,
     <1>22, <1>23, <1>24, <1>25, <1>26, <1>27, <1>28, <1>29, <1>30, <1>31 DEF
     Next, StartCall, CallerStep, RegisterStep, AdvertiseStep, CloseFnStep,
     CloseStep, ServeStep

\* Nothing happens to a record before register creates it.
LEMMA UnusedInduct ==
    ASSUME IInv, [Next]_vars
    PROVE  UnusedInv'
<1> USE DEF GoTo, registry, records, gauges, serving, threads, history,
            Threads
<1>1. ASSUME NEW c \in Callers, NEW k \in Keys, NEW d \in Defs, CallRegister(c, k, d) PROVE UnusedInv'
  BY <1>1 DEF IInv, TypeOK, UnusedInv, CallRegister
<1>2. ASSUME NEW c \in Callers, NEW k \in Keys, DeregisterUnknown(c, k) PROVE UnusedInv'
  BY <1>2 DEF IInv, TypeOK, UnusedInv, DeregisterUnknown, Forget
<1>3. ASSUME NEW c \in Callers, NEW k \in Keys, Deregister(c, k) PROVE UnusedInv'
  BY <1>3 DEF IInv, TypeOK, UnusedInv, Deregister, Leave, Forget
<1>4. ASSUME NEW c \in Callers, NEW k \in Keys, DeregisterLast(c, k) PROVE UnusedInv'
  BY <1>4, RegisteredFacts DEF IInv, TypeOK, UnusedInv, DeregisterLast, Leave,
     Forget
<1>5. ASSUME NEW c \in Callers, RegisterShutdown(c) PROVE UnusedInv'
  BY <1>5 DEF IInv, TypeOK, UnusedInv, RegisterShutdown, ReturnError, Return
<1>6. ASSUME NEW c \in Callers, RegisterKnown(c) PROVE UnusedInv'
  BY <1>6 DEF IInv, TypeOK, UnusedInv, RegisterKnown, ReturnNil, Return
<1>7. ASSUME NEW c \in Callers, NEW r \in Recs, RegisterClaim(c, r) PROVE UnusedInv'
  BY <1>7, NamesAssumption, DefsAssumption, NoDefName DEF IInv, TypeOK,
     StepInv, UnusedInv, RegisterClaim, Proceeds, Unused
<1>8. ASSUME NEW c \in Callers, RegisterWait(c) PROVE UnusedInv'
  BY <1>8 DEF IInv, TypeOK, UnusedInv, RegisterWait, Proceeds, Transition
<1>9. ASSUME NEW c \in Callers, RegisterConflict(c) PROVE UnusedInv'
  BY <1>9 DEF IInv, TypeOK, UnusedInv, RegisterConflict, Proceeds,
     ReturnError, Return
<1>10. ASSUME NEW c \in Callers, RegisterJoin(c) PROVE UnusedInv'
  BY <1>10 DEF IInv, TypeOK, UnusedInv, RegisterJoin, Proceeds, Transition,
     ReturnNil, Return
<1>11. ASSUME NEW c \in Callers, Awake(c) PROVE UnusedInv'
  BY <1>11 DEF IInv, TypeOK, UnusedInv, Awake
<1>12. ASSUME NEW c \in Callers, ListenLock(c) PROVE UnusedInv'
  BY <1>12 DEF IInv, TypeOK, UnusedInv, ListenLock
<1>13. ASSUME NEW c \in Callers, ListenOpens(c) PROVE UnusedInv'
  BY <1>13, AdvertiserFacts DEF IInv, TypeOK, UnusedInv, AdvertiseSteps,
     ListenOpens
<1>14. ASSUME NEW c \in Callers, ListenFails(c) PROVE UnusedInv'
  BY <1>14 DEF IInv, TypeOK, UnusedInv, ListenFails
<1>15. ASSUME NEW c \in Callers, Abandon(c) PROVE UnusedInv'
  BY <1>15, AdvertiserFacts DEF IInv, TypeOK, UnusedInv, AdvertiseSteps,
     Abandon, ReleaseLocked, ReturnError, Return
<1>16. ASSUME NEW c \in Callers, PublishShutdown(c) PROVE UnusedInv'
  BY <1>16, AdvertiserFacts DEF IInv, TypeOK, UnusedInv, AdvertiseSteps,
     PublishShutdown, ReleaseLocked
<1>17. ASSUME NEW c \in Callers, Publish(c) PROVE UnusedInv'
  BY <1>17, AdvertiserFacts DEF IInv, TypeOK, UnusedInv, AdvertiseSteps,
     Publish, ReturnNil, Return
<1>18. ASSUME NEW c \in Callers, Withdrawn(c) PROVE UnusedInv'
  BY <1>18, WithdrawerFacts DEF IInv, TypeOK, UnusedInv, CloseFnSteps,
     WithdrawSteps, Withdrawn, Return
<1>19. ASSUME NEW t \in Threads, SrvClose(t) PROVE UnusedInv'
  BY <1>19 DEF IInv, TypeOK, UnusedInv, Serving, CloseFnSteps, OwnerInv,
     SrvClose
<1>20. ASSUME NEW t \in Threads, CloseLock(t) PROVE UnusedInv'
  BY <1>20 DEF IInv, TypeOK, UnusedInv, CloseLock
<1>21. ASSUME NEW t \in Threads, SrvClosed(t) PROVE UnusedInv'
  BY <1>21 DEF IInv, TypeOK, UnusedInv, SrvClosed
<1>22. ASSUME NEW t \in Threads, LnClosed(t) PROVE UnusedInv'
  <2>1. CASE t \in Callers /\ ~ready[target[t]]
    BY <1>22, <2>1, AdvertiserFacts, WithdrawerFacts, NamesAssumption
       DEF LnClosed, ReturnError, Return, IInv, TypeOK, StepInv, UnusedInv, Serving, AdvertiseSteps, CloseFnSteps, WithdrawSteps
  <2>2. CASE t \in Callers /\ ready[target[t]]
    BY <1>22, <2>2, AdvertiserFacts, WithdrawerFacts, NamesAssumption
       DEF LnClosed, IInv, TypeOK, StepInv, UnusedInv, Serving, AdvertiseSteps, CloseFnSteps, WithdrawSteps
  <2>3. CASE t = Main
    BY <1>22, <2>3, AdvertiserFacts, NamesAssumption
       DEF LnClosed, IInv, TypeOK, StepInv, UnusedInv, Serving, AdvertiseSteps, CloseFnSteps, WithdrawSteps
  <2> QED
    BY <2>1, <2>2, <2>3
<1>23. ASSUME Close PROVE UnusedInv'
  BY <1>23 DEF IInv, TypeOK, UnusedInv, Serving, Close
<1>24. ASSUME NEW r \in Recs, CloseNext(r) PROVE UnusedInv'
  BY <1>24 DEF IInv, TypeOK, UnusedInv, CloseNext
<1>25. ASSUME CloseDone PROVE UnusedInv'
  BY <1>25 DEF IInv, TypeOK, UnusedInv, CloseDone
<1>26. ASSUME NEW r \in Recs, ServeStart(r) PROVE UnusedInv'
  BY <1>26 DEF IInv, TypeOK, UnusedInv, ServeStart, ServeTo
<1>27. ASSUME NEW r \in Recs, ServeReturns(r) PROVE UnusedInv'
  BY <1>27 DEF IInv, TypeOK, UnusedInv, ServeReturns, ServeTo
<1>28. ASSUME NEW r \in Recs, AcceptFails(r) PROVE UnusedInv'
  BY <1>28 DEF IInv, TypeOK, UnusedInv, AcceptFails, ServeTo
<1>29. ASSUME NEW r \in Recs, ServeLock(r) PROVE UnusedInv'
  BY <1>29 DEF IInv, TypeOK, UnusedInv, ServeLock, ServeTo
<1>30. ASSUME NEW r \in Recs, ServeClosed(r) PROVE UnusedInv'
  BY <1>30 DEF IInv, TypeOK, UnusedInv, ServeClosed, ServeTo
<1>31. CASE UNCHANGED vars
  BY <1>31 DEF vars, UnusedInv, IInv, TypeOK
<1> QED
  BY <1>1, <1>2, <1>3, <1>4, <1>5, <1>6, <1>7, <1>8, <1>9, <1>10, <1>11,
     <1>12, <1>13, <1>14, <1>15, <1>16, <1>17, <1>18, <1>19, <1>20, <1>21,
     <1>22, <1>23, <1>24, <1>25, <1>26, <1>27, <1>28, <1>29, <1>30, <1>31 DEF
     Next, StartCall, CallerStep, RegisterStep, AdvertiseStep, CloseFnStep,
     CloseStep, ServeStep

\* The channels of a record are open exactly while a call is on its way to
\* closing them, and Close leaves records in transition to those calls.
LEMMA RecordInduct ==
    ASSUME IInv, [Next]_vars
    PROVE  RecordInv'
<1> USE DEF GoTo, registry, records, gauges, serving, threads, history,
            Threads
<1>1. ASSUME NEW c \in Callers, NEW k \in Keys, NEW d \in Defs, CallRegister(c, k, d) PROVE RecordInv'
  BY <1>1 DEF IInv, TypeOK, RecordInv, Serving, Advertises, TearsDown,
     AdvertiseSteps, CloseFnSteps, WithdrawSteps, CallRegister
<1>2. ASSUME NEW c \in Callers, NEW k \in Keys, DeregisterUnknown(c, k) PROVE RecordInv'
  BY <1>2 DEF IInv, TypeOK, RecordInv, Serving, Advertises, TearsDown,
     DeregisterUnknown, Forget
<1>3. ASSUME NEW c \in Callers, NEW k \in Keys, Deregister(c, k) PROVE RecordInv'
  BY <1>3 DEF IInv, TypeOK, RecordInv, Serving, Advertises, TearsDown,
     Deregister, Leave, Forget
<1>4. ASSUME NEW c \in Callers, NEW k \in Keys, DeregisterLast(c, k) PROVE RecordInv'
  BY <1>4, RegisteredFacts DEF IInv, TypeOK, StepInv, RecordInv, Serving,
     Advertises, TearsDown, AdvertiseSteps, CloseFnSteps, WithdrawSteps,
     DeregisterLast, Leave, Forget
<1>5. ASSUME NEW c \in Callers, RegisterShutdown(c) PROVE RecordInv'
  BY <1>5, AdvertiserFacts, IndexedFacts DEF IInv, TypeOK, RecordInv, Serving,
     Advertises, TearsDown, AdvertiseSteps, CloseFnSteps, WithdrawSteps,
     RegisterShutdown, ReturnError, Return
<1>6. ASSUME NEW c \in Callers, RegisterKnown(c) PROVE RecordInv'
  BY <1>6, WithdrawerFacts DEF IInv, TypeOK, RecordInv, Serving, Advertises,
     TearsDown, AdvertiseSteps, CloseFnSteps, WithdrawSteps, RegisterKnown,
     ReturnNil, Return
<1>7. ASSUME NEW c \in Callers, NEW r \in Recs, RegisterClaim(c, r) PROVE RecordInv'
  BY <1>7 DEF IInv, TypeOK, UnusedInv, RecordInv, Serving, Advertises,
     TearsDown, AdvertiseSteps, CloseFnSteps, WithdrawSteps, RegisterClaim,
     Proceeds, Unused
<1>8. ASSUME NEW c \in Callers, RegisterWait(c) PROVE RecordInv'
  BY <1>8 DEF IInv, TypeOK, RecordInv, Serving, Advertises, TearsDown,
     AdvertiseSteps, CloseFnSteps, WithdrawSteps, RegisterWait, Proceeds,
     Transition
<1>9. ASSUME NEW c \in Callers, RegisterConflict(c) PROVE RecordInv'
  <2>1. /\ pc[c] = "register" /\ pc' = [pc EXCEPT ![c] = "idle"]
        /\ target' = [target EXCEPT ![c] = NoRec]
        /\ UNCHANGED <<registry, records, serving, pending>>
    BY <1>9 DEF RegisterConflict, Proceeds, ReturnError, Return, GoTo
  <2> QED
    BY <2>1 DEF IInv, TypeOK, RecordInv, Serving, Advertises, TearsDown, AdvertiseSteps,
       CloseFnSteps, WithdrawSteps, registry, records, serving
<1>10. ASSUME NEW c \in Callers, RegisterJoin(c) PROVE RecordInv'
  <2> DEFINE r == index[want[c].service]
  <2>1. /\ r # NoRec /\ Serving(r)
        /\ pool' = [pool EXCEPT ![r] = @ \cup {key[c]}]
        /\ pc[c] = "register" /\ pc' = [pc EXCEPT ![c] = "idle"]
        /\ target' = [target EXCEPT ![c] = NoRec]
        /\ UNCHANGED <<shutdown, def, ready, advertised, withdrawing, serving, pending>>
    BY <1>10 DEF Serving, RegisterJoin, Proceeds, Transition, ReturnNil, Return, GoTo
  <2>2. want[c].service \in Services
    BY <2>1, DefsAssumption DEF IInv, StepInv
  <2>3. r \in Recs
    BY <2>1, <2>2, IndexedFacts
  <2> HIDE DEF r
  <2> QED
    BY <2>1, <2>3 DEF IInv, TypeOK, RecordInv, Serving, Advertises, TearsDown, AdvertiseSteps,
       CloseFnSteps, WithdrawSteps, serving
<1>11. ASSUME NEW c \in Callers, Awake(c) PROVE RecordInv'
  BY <1>11 DEF IInv, TypeOK, RecordInv, Serving, Advertises, TearsDown,
     AdvertiseSteps, CloseFnSteps, WithdrawSteps, Awake
<1>12. ASSUME NEW c \in Callers, ListenLock(c) PROVE RecordInv'
  BY <1>12 DEF IInv, TypeOK, RecordInv, Serving, Advertises, TearsDown,
     AdvertiseSteps, ListenLock
<1>13. ASSUME NEW c \in Callers, ListenOpens(c) PROVE RecordInv'
  BY <1>13 DEF IInv, TypeOK, RecordInv, Serving, Advertises, TearsDown,
     AdvertiseSteps, ListenOpens
<1>14. ASSUME NEW c \in Callers, ListenFails(c) PROVE RecordInv'
  BY <1>14 DEF IInv, TypeOK, RecordInv, Serving, Advertises, TearsDown,
     AdvertiseSteps, ListenFails
<1>15. ASSUME NEW c \in Callers, Abandon(c) PROVE RecordInv'
  BY <1>15 DEF IInv, TypeOK, RecordInv, OwnerInv, Serving, Advertises,
     TearsDown, AdvertiseSteps, CloseFnSteps, WithdrawSteps, Abandon,
     ReleaseLocked, ReturnError, Return
<1>16. ASSUME NEW c \in Callers, PublishShutdown(c) PROVE RecordInv'
  BY <1>16 DEF IInv, TypeOK, RecordInv, OwnerInv, Serving, Advertises,
     TearsDown, AdvertiseSteps, PublishShutdown, ReleaseLocked
<1>17. ASSUME NEW c \in Callers, Publish(c) PROVE RecordInv'
  BY <1>17 DEF IInv, TypeOK, RecordInv, OwnerInv, Serving, Advertises,
     TearsDown, AdvertiseSteps, CloseFnSteps, WithdrawSteps, Publish,
     ReturnNil, Return
<1>18. ASSUME NEW c \in Callers, Withdrawn(c) PROVE RecordInv'
  BY <1>18 DEF IInv, TypeOK, RecordInv, OwnerInv, Serving, Advertises,
     TearsDown, AdvertiseSteps, CloseFnSteps, WithdrawSteps, Withdrawn, Return
<1>19. ASSUME NEW t \in Threads, SrvClose(t) PROVE RecordInv'
  BY <1>19 DEF IInv, TypeOK, StepInv, RecordInv, OwnerInv, Serving,
     Advertises, TearsDown, AdvertiseSteps, CloseFnSteps, WithdrawSteps,
     SrvClose
<1>20. ASSUME NEW t \in Threads, CloseLock(t) PROVE RecordInv'
  BY <1>20 DEF IInv, TypeOK, RecordInv, Serving, Advertises, TearsDown,
     AdvertiseSteps, CloseFnSteps, WithdrawSteps, CloseLock
<1>21. ASSUME NEW t \in Threads, SrvClosed(t) PROVE RecordInv'
  BY <1>21 DEF IInv, TypeOK, RecordInv, Serving, Advertises, TearsDown,
     AdvertiseSteps, CloseFnSteps, WithdrawSteps, SrvClosed
<1>22. ASSUME NEW t \in Threads, LnClosed(t) PROVE RecordInv'
  <2>1. CASE t \in Callers /\ ~ready[target[t]]
    <3>1. UNCHANGED <<records, srvDown, serve, pending, shutdown>>
      BY <1>22, <2>1 DEF LnClosed, ReturnError, Return
    <3>2. \A c \in Callers \ {t} : pc'[c] = pc[c] /\ target'[c] = target[c]
      BY <1>22, <2>1 DEF LnClosed, ReturnError, Return, IInv, TypeOK
    <3>3. /\ pc[t] \notin AdvertiseSteps
          /\ pc'[t] \notin AdvertiseSteps \cup WithdrawSteps
      BY <1>22, <2>1 DEF LnClosed, ReturnError, Return, IInv, TypeOK,
         AdvertiseSteps, WithdrawSteps, CloseFnSteps
    <3>4. ASSUME NEW r \in Recs
          PROVE  /\ (\E c \in Callers : Advertises(c, r))' <=>
                       \E c \in Callers : Advertises(c, r)
                 /\ ready[r] => ((\E c \in Callers : TearsDown(c, r))' <=>
                       \E c \in Callers : TearsDown(c, r))
      BY <2>1, <3>2, <3>3 DEF Advertises, TearsDown
    <3> QED
      BY <3>1, <3>4 DEF IInv, RecordInv, Serving
  <2>2. CASE t \in Callers /\ ready[target[t]]
    BY <1>22, <2>2, AdvertiserFacts, WithdrawerFacts, NamesAssumption
       DEF LnClosed, IInv, TypeOK, StepInv, UnusedInv, RecordInv, OwnerInv, Serving, Advertises, TearsDown, AdvertiseSteps, CloseFnSteps, WithdrawSteps
  <2>3. CASE t = Main
    BY <1>22, <2>3, AdvertiserFacts, NamesAssumption
       DEF LnClosed, IInv, TypeOK, StepInv, UnusedInv, RecordInv, OwnerInv, Serving, Advertises, TearsDown, AdvertiseSteps, CloseFnSteps, WithdrawSteps
  <2> QED
    BY <2>1, <2>2, <2>3
<1>23. ASSUME Close PROVE RecordInv'
  BY <1>23 DEF IInv, TypeOK, StepInv, UnusedInv, RecordInv, Serving,
     Advertises, TearsDown, AdvertiseSteps, CloseFnSteps, WithdrawSteps, Close
<1>24. ASSUME NEW r \in Recs, CloseNext(r) PROVE RecordInv'
  BY <1>24 DEF IInv, TypeOK, StepInv, RecordInv, Serving, Advertises,
     TearsDown, CloseNext
<1>25. ASSUME CloseDone PROVE RecordInv'
  BY <1>25 DEF IInv, TypeOK, RecordInv, Serving, Advertises, TearsDown,
     AdvertiseSteps, CloseFnSteps, WithdrawSteps, CloseDone
<1>26. ASSUME NEW r \in Recs, ServeStart(r) PROVE RecordInv'
  BY <1>26 DEF IInv, TypeOK, RecordInv, Serving, Advertises, TearsDown,
     ServeStart, ServeTo
<1>27. ASSUME NEW r \in Recs, ServeReturns(r) PROVE RecordInv'
  BY <1>27 DEF IInv, TypeOK, RecordInv, Serving, Advertises, TearsDown,
     ServeReturns, ServeTo
<1>28. ASSUME NEW r \in Recs, AcceptFails(r) PROVE RecordInv'
  BY <1>28 DEF IInv, TypeOK, RecordInv, Serving, Advertises, TearsDown,
     AcceptFails, ServeTo
<1>29. ASSUME NEW r \in Recs, ServeLock(r) PROVE RecordInv'
  BY <1>29 DEF IInv, TypeOK, RecordInv, Serving, Advertises, TearsDown,
     ServeLock, ServeTo
<1>30. ASSUME NEW r \in Recs, ServeClosed(r) PROVE RecordInv'
  BY <1>30 DEF IInv, TypeOK, RecordInv, Serving, Advertises, TearsDown,
     ServeClosed, ServeTo
<1>31. CASE UNCHANGED vars
  BY <1>31 DEF vars, RecordInv, IInv, TypeOK, Serving, Advertises, TearsDown
<1> QED
  BY <1>1, <1>2, <1>3, <1>4, <1>5, <1>6, <1>7, <1>8, <1>9, <1>10, <1>11,
     <1>12, <1>13, <1>14, <1>15, <1>16, <1>17, <1>18, <1>19, <1>20, <1>21,
     <1>22, <1>23, <1>24, <1>25, <1>26, <1>27, <1>28, <1>29, <1>30, <1>31 DEF
     Next, StartCall, CallerStep, RegisterStep, AdvertiseStep, CloseFnStep,
     CloseStep, ServeStep

\* A record in transition has one goroutine working on it: register, advertise,
\* Deregister and Close never hand the same record to two.
LEMMA OwnerInduct ==
    ASSUME IInv, [Next]_vars
    PROVE  OwnerInv'
<1> USE DEF GoTo, registry, records, gauges, serving, threads, history,
            Threads
<1>1. ASSUME NEW c \in Callers, NEW k \in Keys, NEW d \in Defs, CallRegister(c, k, d) PROVE OwnerInv'
  BY <1>1 DEF IInv, TypeOK, OwnerInv, Serving, AdvertiseSteps, CloseFnSteps,
     WithdrawSteps, CallRegister
<1>2. ASSUME NEW c \in Callers, NEW k \in Keys, DeregisterUnknown(c, k) PROVE OwnerInv'
  BY <1>2 DEF IInv, TypeOK, OwnerInv, Serving, DeregisterUnknown, Forget
<1>3. ASSUME NEW c \in Callers, NEW k \in Keys, Deregister(c, k) PROVE OwnerInv'
  BY <1>3 DEF IInv, TypeOK, OwnerInv, Serving, Deregister, Leave, Forget
<1>4. ASSUME NEW c \in Callers, NEW k \in Keys, DeregisterLast(c, k) PROVE OwnerInv'
  BY <1>4, AdvertiserFacts, NamesAssumption, RegisteredFacts DEF IInv, TypeOK,
     StepInv, OwnerInv, Serving, AdvertiseSteps, DeregisterLast, Leave, Forget
<1>5. ASSUME NEW c \in Callers, RegisterShutdown(c) PROVE OwnerInv'
  BY <1>5 DEF IInv, TypeOK, OwnerInv, Serving, AdvertiseSteps, CloseFnSteps,
     WithdrawSteps, RegisterShutdown, ReturnError, Return
<1>6. ASSUME NEW c \in Callers, RegisterKnown(c) PROVE OwnerInv'
  BY <1>6 DEF IInv, TypeOK, OwnerInv, Serving, AdvertiseSteps, CloseFnSteps,
     WithdrawSteps, RegisterKnown, ReturnNil, Return
<1>7. ASSUME NEW c \in Callers, NEW r \in Recs, RegisterClaim(c, r) PROVE OwnerInv'
  BY <1>7, NamesAssumption, DefsAssumption, NoDefName DEF IInv, TypeOK,
     StepInv, UnusedInv, OwnerInv, CloseFnSteps, RegisterClaim, Proceeds,
     Unused
<1>8. ASSUME NEW c \in Callers, RegisterWait(c) PROVE OwnerInv'
  <2>1. PICK step \in {"waitAdvertised", "waitWithdrawing"} :
          /\ pc' = [pc EXCEPT ![c] = step]
          /\ target' = [target EXCEPT ![c] = index[want[c].service]]
          /\ UNCHANGED <<registry, records, serving, pending>>
    BY <1>8 DEF RegisterWait, Transition, GoTo
  <2> QED
    BY <2>1, NamesAssumption DEF IInv, TypeOK, OwnerInv, Serving, AdvertiseSteps,
       CloseFnSteps, WithdrawSteps, Threads, registry, records, serving
<1>9. ASSUME NEW c \in Callers, RegisterConflict(c) PROVE OwnerInv'
  BY <1>9 DEF IInv, TypeOK, OwnerInv, Serving, AdvertiseSteps, CloseFnSteps,
     WithdrawSteps, RegisterConflict, Proceeds, ReturnError, Return
<1>10. ASSUME NEW c \in Callers, RegisterJoin(c) PROVE OwnerInv'
  BY <1>10 DEF IInv, TypeOK, OwnerInv, Serving, AdvertiseSteps, CloseFnSteps,
     WithdrawSteps, RegisterJoin, Proceeds, Transition, ReturnNil, Return
<1>11. ASSUME NEW c \in Callers, Awake(c) PROVE OwnerInv'
  BY <1>11 DEF IInv, TypeOK, OwnerInv, Serving, AdvertiseSteps, CloseFnSteps,
     WithdrawSteps, Awake
<1>12. ASSUME NEW c \in Callers, ListenLock(c) PROVE OwnerInv'
  BY <1>12 DEF IInv, TypeOK, OwnerInv, Serving, AdvertiseSteps, CloseFnSteps,
     WithdrawSteps, ListenLock
<1>13. ASSUME NEW c \in Callers, ListenOpens(c) PROVE OwnerInv'
  BY <1>13, AdvertiserFacts DEF IInv, TypeOK, OwnerInv, Serving,
     AdvertiseSteps, CloseFnSteps, WithdrawSteps, ListenOpens
<1>14. ASSUME NEW c \in Callers, ListenFails(c) PROVE OwnerInv'
  BY <1>14 DEF IInv, TypeOK, OwnerInv, Serving, AdvertiseSteps, CloseFnSteps,
     WithdrawSteps, ListenFails
<1>15. ASSUME NEW c \in Callers, Abandon(c) PROVE OwnerInv'
  BY <1>15 DEF IInv, TypeOK, OwnerInv, Serving, AdvertiseSteps, CloseFnSteps,
     WithdrawSteps, Abandon, ReleaseLocked, ReturnError, Return
<1>16. ASSUME NEW c \in Callers, PublishShutdown(c) PROVE OwnerInv'
  BY <1>16, AdvertiserFacts DEF IInv, TypeOK, StepInv, OwnerInv, Serving,
     AdvertiseSteps, WithdrawSteps, PublishShutdown, ReleaseLocked
<1>17. ASSUME NEW c \in Callers, Publish(c) PROVE OwnerInv'
  BY <1>17 DEF IInv, TypeOK, OwnerInv, Serving, AdvertiseSteps, CloseFnSteps,
     WithdrawSteps, Publish, ReturnNil, Return
<1>18. ASSUME NEW c \in Callers, Withdrawn(c) PROVE OwnerInv'
  BY <1>18, WithdrawerFacts DEF IInv, TypeOK, OwnerInv, Serving,
     AdvertiseSteps, CloseFnSteps, WithdrawSteps, Withdrawn, Return
<1>19. ASSUME NEW t \in Threads, SrvClose(t) PROVE OwnerInv'
  BY <1>19, WithdrawerFacts DEF IInv, TypeOK, OwnerInv, Serving,
     AdvertiseSteps, CloseFnSteps, WithdrawSteps, SrvClose
<1>20. ASSUME NEW t \in Threads, CloseLock(t) PROVE OwnerInv'
  BY <1>20 DEF IInv, TypeOK, OwnerInv, Serving, AdvertiseSteps, CloseFnSteps,
     WithdrawSteps, CloseLock
<1>21. ASSUME NEW t \in Threads, SrvClosed(t) PROVE OwnerInv'
  BY <1>21, AdvertiserFacts DEF IInv, TypeOK, OwnerInv, Serving, CloseFnSteps,
     WithdrawSteps, SrvClosed
<1>22. ASSUME NEW t \in Threads, LnClosed(t) PROVE OwnerInv'
  <2>1. CASE t \in Callers /\ ~ready[target[t]]
    <3>1. /\ pc[t] = "lnClosing" /\ pc' = [pc EXCEPT ![t] = "idle"]
          /\ target' = [target EXCEPT ![t] = NoRec]
          /\ open' = open \ {target[t]}
          /\ UNCHANGED <<registry, records, srvDown, pending>>
      BY <1>22, <2>1 DEF LnClosed, ReturnError, Return, GoTo
    <3>2. ASSUME NEW c \in Callers, pc[c] \in AdvertiseSteps PROVE target[c] # target[t]
      BY <2>1, <3>1, <3>2, AdvertiserFacts, WithdrawerFacts DEF WithdrawSteps, CloseFnSteps
    <3> QED
      BY <2>1, <3>1, <3>2, NamesAssumption
         DEF IInv, TypeOK, OwnerInv, Serving, AdvertiseSteps, CloseFnSteps, WithdrawSteps,
         registry, records
  <2>2. CASE t \in Callers /\ ready[target[t]]
    <3>1. /\ pc[t] = "lnClosing" /\ pc' = [pc EXCEPT ![t] = "withdrawn"]
          /\ open' = open \ {target[t]}
          /\ UNCHANGED <<registry, records, srvDown, target, pending>>
      BY <1>22, <2>2, NamesAssumption DEF LnClosed, GoTo
    <3>2. ASSUME NEW c \in Callers, pc[c] \in AdvertiseSteps PROVE target[c] # target[t]
      BY <2>2, <3>2, AdvertiserFacts
    <3> QED
      BY <2>2, <3>1, <3>2, NamesAssumption
         DEF IInv, TypeOK, OwnerInv, Serving, AdvertiseSteps, CloseFnSteps, WithdrawSteps,
         registry, records
  <2>3. CASE t = Main
    BY <1>22, <2>3, AdvertiserFacts, NamesAssumption
       DEF LnClosed, IInv, TypeOK, StepInv, UnusedInv, OwnerInv, RecordInv, Serving, AdvertiseSteps, CloseFnSteps, WithdrawSteps
  <2> QED
    BY <2>1, <2>2, <2>3
<1>23. ASSUME Close PROVE OwnerInv'
  BY <1>23 DEF IInv, TypeOK, OwnerInv, AdvertiseSteps, CloseFnSteps,
     WithdrawSteps, Close
<1>24. ASSUME NEW r \in Recs, CloseNext(r) PROVE OwnerInv'
  BY <1>24 DEF IInv, TypeOK, StepInv, OwnerInv, RecordInv, Serving, CloseNext
<1>25. ASSUME CloseDone PROVE OwnerInv'
  BY <1>25 DEF IInv, TypeOK, OwnerInv, AdvertiseSteps, CloseFnSteps,
     WithdrawSteps, CloseDone
<1>26. ASSUME NEW r \in Recs, ServeStart(r) PROVE OwnerInv'
  BY <1>26 DEF IInv, TypeOK, OwnerInv, Serving, ServeStart, ServeTo
<1>27. ASSUME NEW r \in Recs, ServeReturns(r) PROVE OwnerInv'
  BY <1>27 DEF IInv, TypeOK, OwnerInv, Serving, ServeReturns, ServeTo
<1>28. ASSUME NEW r \in Recs, AcceptFails(r) PROVE OwnerInv'
  BY <1>28 DEF IInv, TypeOK, OwnerInv, Serving, AcceptFails, ServeTo
<1>29. ASSUME NEW r \in Recs, ServeLock(r) PROVE OwnerInv'
  BY <1>29 DEF IInv, TypeOK, OwnerInv, Serving, ServeLock, ServeTo
<1>30. ASSUME NEW r \in Recs, ServeClosed(r) PROVE OwnerInv'
  BY <1>30, AdvertiserFacts DEF IInv, TypeOK, OwnerInv, Serving, ServeClosed,
     ServeTo
<1>31. CASE UNCHANGED vars
  BY <1>31 DEF vars, OwnerInv, IInv, TypeOK, Serving
<1> QED
  BY <1>1, <1>2, <1>3, <1>4, <1>5, <1>6, <1>7, <1>8, <1>9, <1>10, <1>11,
     <1>12, <1>13, <1>14, <1>15, <1>16, <1>17, <1>18, <1>19, <1>20, <1>21,
     <1>22, <1>23, <1>24, <1>25, <1>26, <1>27, <1>28, <1>29, <1>30, <1>31 DEF
     Next, StartCall, CallerStep, RegisterStep, AdvertiseStep, CloseFnStep,
     CloseStep, ServeStep

\* A name is occupied by one record at a time, from the claim in register to
\* the end of its withdrawal or of its failed advertisement.
LEMMA OccupancyInduct ==
    ASSUME IInv, [Next]_vars
    PROVE  OccupancyInv'
<1> USE DEF GoTo, registry, records, gauges, serving, threads, history,
            Threads
<1>1. ASSUME NEW c \in Callers, NEW k \in Keys, NEW d \in Defs, CallRegister(c, k, d) PROVE OccupancyInv'
  BY <1>1 DEF IInv, TypeOK, OccupancyInv, Occupies, Claimed, Name,
     CallRegister
<1>2. ASSUME NEW c \in Callers, NEW k \in Keys, DeregisterUnknown(c, k) PROVE OccupancyInv'
  BY <1>2 DEF IInv, TypeOK, OccupancyInv, Occupies, Claimed, Name,
     DeregisterUnknown, Forget
<1>3. ASSUME NEW c \in Callers, NEW k \in Keys, Deregister(c, k) PROVE OccupancyInv'
  BY <1>3 DEF IInv, TypeOK, OccupancyInv, Occupies, Claimed, Name, Deregister,
     Leave, Forget
<1>4. ASSUME NEW c \in Callers, NEW k \in Keys, DeregisterLast(c, k) PROVE OccupancyInv'
  BY <1>4, RegisteredFacts DEF IInv, TypeOK, OccupancyInv, Occupies, Claimed,
     Name, DeregisterLast, Leave, Forget
<1>5. ASSUME NEW c \in Callers, RegisterShutdown(c) PROVE OccupancyInv'
  BY <1>5 DEF IInv, TypeOK, OccupancyInv, Occupies, Claimed, Name,
     RegisterShutdown, ReturnError, Return
<1>6. ASSUME NEW c \in Callers, RegisterKnown(c) PROVE OccupancyInv'
  BY <1>6 DEF IInv, TypeOK, OccupancyInv, Occupies, Claimed, Name,
     RegisterKnown, ReturnNil, Return
<1>7. ASSUME NEW c \in Callers, NEW r \in Recs, RegisterClaim(c, r) PROVE OccupancyInv'
  BY <1>7, NamesAssumption, DefsAssumption DEF IInv, TypeOK, StepInv,
     OccupancyInv, Occupies, Claimed, Name, UnusedInv, RegisterClaim,
     Proceeds, Unused
<1>8. ASSUME NEW c \in Callers, RegisterWait(c) PROVE OccupancyInv'
  BY <1>8 DEF IInv, TypeOK, OccupancyInv, Occupies, Claimed, Name,
     RegisterWait, Proceeds, Transition
<1>9. ASSUME NEW c \in Callers, RegisterConflict(c) PROVE OccupancyInv'
  BY <1>9 DEF IInv, TypeOK, OccupancyInv, Occupies, Claimed, Name,
     RegisterConflict, Proceeds, ReturnError, Return
<1>10. ASSUME NEW c \in Callers, RegisterJoin(c) PROVE OccupancyInv'
  BY <1>10 DEF IInv, TypeOK, OccupancyInv, Occupies, Claimed, Name,
     RegisterJoin, Proceeds, Transition, ReturnNil, Return
<1>11. ASSUME NEW c \in Callers, Awake(c) PROVE OccupancyInv'
  BY <1>11 DEF IInv, TypeOK, OccupancyInv, Occupies, Claimed, Name, Awake
<1>12. ASSUME NEW c \in Callers, ListenLock(c) PROVE OccupancyInv'
  BY <1>12 DEF IInv, TypeOK, OccupancyInv, Occupies, Claimed, Name, ListenLock
<1>13. ASSUME NEW c \in Callers, ListenOpens(c) PROVE OccupancyInv'
  BY <1>13, AdvertiserFacts DEF IInv, TypeOK, OccupancyInv, Occupies, Claimed,
     Name, AdvertiseSteps, ListenOpens
<1>14. ASSUME NEW c \in Callers, ListenFails(c) PROVE OccupancyInv'
  BY <1>14 DEF IInv, TypeOK, OccupancyInv, Occupies, Claimed, Name,
     ListenFails
<1>15. ASSUME NEW c \in Callers, Abandon(c) PROVE OccupancyInv'
  <2>1. /\ target[c] \in Recs /\ ~ready[target[c]]
        /\ target[c] \notin open
    BY <1>15, AdvertiserFacts DEF Abandon, AdvertiseSteps, IInv, OwnerInv
  <2>2. \A r \in Recs : Occupies(r)' => r # target[c] /\ Occupies(r)
    BY <1>15, <2>1 DEF Abandon, ReleaseLocked, Occupies, Claimed, IInv, TypeOK
  <2>3. \A r \in Recs : r # target[c] => (Claimed(r)' <=> Claimed(r))
    BY <1>15, <2>1 DEF Abandon, ReleaseLocked, Claimed, IInv, TypeOK
  <2> QED
    BY <1>15, <2>1, <2>2, <2>3, OccupancyDrop DEF Abandon, ReleaseLocked
<1>16. ASSUME NEW c \in Callers, PublishShutdown(c) PROVE OccupancyInv'
  BY <1>16 DEF IInv, TypeOK, OccupancyInv, Occupies, Claimed, Name,
     PublishShutdown, ReleaseLocked
<1>17. ASSUME NEW c \in Callers, Publish(c) PROVE OccupancyInv'
  BY <1>17, AdvertiserFacts DEF IInv, TypeOK, OccupancyInv, Occupies, Claimed,
     Name, AdvertiseSteps, Publish, ReturnNil, Return
<1>18. ASSUME NEW c \in Callers, Withdrawn(c) PROVE OccupancyInv'
  <2>1. /\ target[c] \in Recs /\ advertised[target[c]] # "open"
        /\ target[c] \notin open
    BY <1>18, WithdrawerFacts DEF Withdrawn, WithdrawSteps, IInv, OwnerInv
  <2>2. \A r \in Recs : Occupies(r)' => r # target[c] /\ Occupies(r)
    BY <1>18, <2>1 DEF Withdrawn, Occupies, Claimed, IInv, TypeOK
  <2>3. \A r \in Recs : r # target[c] => (Claimed(r)' <=> Claimed(r))
    BY <1>18, <2>1 DEF Withdrawn, Claimed, IInv, TypeOK
  <2>4. index' = IF index[Name(target[c])] = target[c]
                 THEN [index EXCEPT ![Name(target[c])] = NoRec] ELSE index
    BY <1>18 DEF Withdrawn
  <2> QED
    BY <1>18, <2>1, <2>2, <2>3, <2>4, OccupancyDrop DEF Withdrawn
<1>19. ASSUME NEW t \in Threads, SrvClose(t) PROVE OccupancyInv'
  BY <1>19 DEF IInv, TypeOK, OccupancyInv, Occupies, Claimed, Name, SrvClose
<1>20. ASSUME NEW t \in Threads, CloseLock(t) PROVE OccupancyInv'
  BY <1>20 DEF IInv, TypeOK, OccupancyInv, Occupies, Claimed, Name, CloseLock
<1>21. ASSUME NEW t \in Threads, SrvClosed(t) PROVE OccupancyInv'
  BY <1>21 DEF IInv, TypeOK, OccupancyInv, Occupies, Claimed, Name, SrvClosed
<1>22. ASSUME NEW t \in Threads, LnClosed(t) PROVE OccupancyInv'
  BY <1>22 DEF IInv, TypeOK, OccupancyInv, Occupies, Claimed, Name, LnClosed,
     ReturnError, Return
<1>23. ASSUME Close PROVE OccupancyInv'
  BY <1>23 DEF IInv, TypeOK, OccupancyInv, Occupies, Claimed, Name, Close
<1>24. ASSUME NEW r \in Recs, CloseNext(r) PROVE OccupancyInv'
  BY <1>24 DEF IInv, TypeOK, OccupancyInv, Occupies, Claimed, Name, CloseNext
<1>25. ASSUME CloseDone PROVE OccupancyInv'
  BY <1>25 DEF IInv, TypeOK, OccupancyInv, Occupies, Claimed, Name, CloseDone
<1>26. ASSUME NEW r \in Recs, ServeStart(r) PROVE OccupancyInv'
  BY <1>26 DEF IInv, TypeOK, OccupancyInv, Occupies, Claimed, Name,
     ServeStart, ServeTo
<1>27. ASSUME NEW r \in Recs, ServeReturns(r) PROVE OccupancyInv'
  BY <1>27 DEF IInv, TypeOK, OccupancyInv, Occupies, Claimed, Name,
     ServeReturns, ServeTo
<1>28. ASSUME NEW r \in Recs, AcceptFails(r) PROVE OccupancyInv'
  BY <1>28 DEF IInv, TypeOK, OccupancyInv, Occupies, Claimed, Name,
     AcceptFails, ServeTo
<1>29. ASSUME NEW r \in Recs, ServeLock(r) PROVE OccupancyInv'
  BY <1>29 DEF IInv, TypeOK, OccupancyInv, Occupies, Claimed, Name, ServeLock,
     ServeTo
<1>30. ASSUME NEW r \in Recs, ServeClosed(r) PROVE OccupancyInv'
  BY <1>30 DEF IInv, TypeOK, OccupancyInv, Occupies, Claimed, Name,
     ServeClosed, ServeTo
<1>31. CASE UNCHANGED vars
  BY <1>31 DEF vars, OccupancyInv, IInv, TypeOK, Occupies, Claimed, Name
<1> QED
  BY <1>1, <1>2, <1>3, <1>4, <1>5, <1>6, <1>7, <1>8, <1>9, <1>10, <1>11,
     <1>12, <1>13, <1>14, <1>15, <1>16, <1>17, <1>18, <1>19, <1>20, <1>21,
     <1>22, <1>23, <1>24, <1>25, <1>26, <1>27, <1>28, <1>29, <1>30, <1>31 DEF
     Next, StartCall, CallerStep, RegisterStep, AdvertiseStep, CloseFnStep,
     CloseStep, ServeStep

\* Every open listener is accounted for, and a serving record's listener is
\* open unless its Accept failed.
LEMMA ListenerInduct ==
    ASSUME IInv, [Next]_vars
    PROVE  ListenerInv'
<1> USE DEF GoTo, registry, records, gauges, serving, threads, history,
            Threads
<1>1. ASSUME NEW c \in Callers, NEW k \in Keys, NEW d \in Defs, CallRegister(c, k, d) PROVE ListenerInv'
  BY <1>1 DEF IInv, TypeOK, ListenerInv, ListenerAccounted, ListenerUp,
     Serving, CloseFnSteps, CallRegister
<1>2. ASSUME NEW c \in Callers, NEW k \in Keys, DeregisterUnknown(c, k) PROVE ListenerInv'
  BY <1>2 DEF IInv, TypeOK, ListenerInv, ListenerAccounted, ListenerUp,
     Serving, DeregisterUnknown, Forget
<1>3. ASSUME NEW c \in Callers, NEW k \in Keys, Deregister(c, k) PROVE ListenerInv'
  BY <1>3 DEF IInv, TypeOK, ListenerInv, ListenerAccounted, ListenerUp,
     Serving, Deregister, Leave, Forget
<1>4. ASSUME NEW c \in Callers, NEW k \in Keys, DeregisterLast(c, k) PROVE ListenerInv'
  BY <1>4 DEF IInv, TypeOK, ListenerInv, ListenerAccounted, ListenerUp,
     Serving, CloseFnSteps, DeregisterLast, Leave, Forget
<1>5. ASSUME NEW c \in Callers, RegisterShutdown(c) PROVE ListenerInv'
  BY <1>5, AdvertiserFacts, WithdrawerFacts DEF IInv, TypeOK, ListenerInv,
     ListenerAccounted, ListenerUp, Serving, CloseFnSteps, RegisterShutdown,
     ReturnError, Return
<1>6. ASSUME NEW c \in Callers, RegisterKnown(c) PROVE ListenerInv'
  BY <1>6 DEF IInv, TypeOK, ListenerInv, ListenerAccounted, ListenerUp,
     Serving, CloseFnSteps, RegisterKnown, ReturnNil, Return
<1>7. ASSUME NEW c \in Callers, NEW r \in Recs, RegisterClaim(c, r) PROVE ListenerInv'
  BY <1>7 DEF IInv, TypeOK, ListenerInv, ListenerAccounted, ListenerUp,
     Serving, CloseFnSteps, RegisterClaim, Proceeds, Unused
<1>8. ASSUME NEW c \in Callers, RegisterWait(c) PROVE ListenerInv'
  BY <1>8 DEF IInv, TypeOK, ListenerInv, ListenerAccounted, ListenerUp,
     Serving, CloseFnSteps, RegisterWait, Proceeds, Transition
<1>9. ASSUME NEW c \in Callers, RegisterConflict(c) PROVE ListenerInv'
  BY <1>9, WithdrawerFacts DEF IInv, TypeOK, ListenerInv, ListenerAccounted,
     ListenerUp, Serving, CloseFnSteps, RegisterConflict, Proceeds,
     ReturnError, Return
<1>10. ASSUME NEW c \in Callers, RegisterJoin(c) PROVE ListenerInv'
  BY <1>10, WithdrawerFacts, IndexedFacts, NamesAssumption DEF IInv, TypeOK,
     ListenerInv, ListenerAccounted, ListenerUp, Serving, UnusedInv,
     CloseFnSteps, RegisterJoin, Proceeds, Transition, ReturnNil, Return
<1>11. ASSUME NEW c \in Callers, Awake(c) PROVE ListenerInv'
  BY <1>11 DEF IInv, TypeOK, ListenerInv, ListenerAccounted, ListenerUp,
     Serving, CloseFnSteps, Awake
<1>12. ASSUME NEW c \in Callers, ListenLock(c) PROVE ListenerInv'
  BY <1>12 DEF IInv, TypeOK, ListenerInv, ListenerAccounted, ListenerUp,
     Serving, CloseFnSteps, ListenLock
<1>13. ASSUME NEW c \in Callers, ListenOpens(c) PROVE ListenerInv'
  BY <1>13 DEF IInv, TypeOK, ListenerInv, ListenerAccounted, ListenerUp,
     Serving, ListenOpens
<1>14. ASSUME NEW c \in Callers, ListenFails(c) PROVE ListenerInv'
  BY <1>14 DEF IInv, TypeOK, ListenerInv, ListenerAccounted, ListenerUp,
     Serving, CloseFnSteps, ListenFails
<1>15. ASSUME NEW c \in Callers, Abandon(c) PROVE ListenerInv'
  BY <1>15 DEF IInv, TypeOK, ListenerInv, ListenerAccounted, ListenerUp,
     Serving, CloseFnSteps, Abandon, ReleaseLocked, ReturnError, Return
<1>16. ASSUME NEW c \in Callers, PublishShutdown(c) PROVE ListenerInv'
  BY <1>16 DEF IInv, TypeOK, ListenerInv, ListenerAccounted, ListenerUp,
     Serving, CloseFnSteps, PublishShutdown, ReleaseLocked
<1>17. ASSUME NEW c \in Callers, Publish(c) PROVE ListenerInv'
  <2>1. PICK q \in Recs : q = target[c] /\ q \in open /\ withdrawing[q] = "nil"
    BY <1>17, AdvertiserFacts DEF Publish, IInv, OwnerInv, AdvertiseSteps
  <2>2. ~shutdown' /\ open' = open /\ Serving(q)' /\ serve'[q] = "spawned"
    BY <1>17, <2>1 DEF Publish, Serving, IInv, TypeOK
  <2>3. ListenerAccounted(q)' /\ ListenerUp(q)'
    BY <2>1, <2>2 DEF ListenerAccounted, ListenerUp
  <2>4. ASSUME NEW r \in Recs, r # q
        PROVE  ListenerAccounted(r)' /\ ListenerUp(r)'
    <3>1. ready'[r] = ready[r] /\ serve'[r] = serve[r]
      BY <1>17, <2>1, <2>4 DEF Publish, IInv, TypeOK
    <3>2. \A t \in Threads \ {c} : pc'[t] = pc[t] /\ target'[t] = target[t]
      BY <1>17 DEF Publish, ReturnNil, Return, IInv, TypeOK
    <3> QED
      BY <1>17, <2>1, <2>4, <3>1, <3>2
         DEF Publish, IInv, ListenerInv, ListenerAccounted, ListenerUp, Serving,
             CloseFnSteps, ReturnNil, Return
  <2> QED
    BY <2>3, <2>4 DEF ListenerInv
<1>18. ASSUME NEW c \in Callers, Withdrawn(c) PROVE ListenerInv'
  BY <1>18 DEF IInv, TypeOK, ListenerInv, ListenerAccounted, ListenerUp,
     OwnerInv, Serving, Withdrawn, Return
<1>19. ASSUME NEW t \in Threads, SrvClose(t) PROVE ListenerInv'
  BY <1>19 DEF IInv, TypeOK, ListenerInv, ListenerAccounted, ListenerUp,
     Serving, CloseFnSteps, SrvClose
<1>20. ASSUME NEW t \in Threads, CloseLock(t) PROVE ListenerInv'
  BY <1>20 DEF IInv, TypeOK, ListenerInv, ListenerAccounted, ListenerUp,
     Serving, CloseFnSteps, CloseLock
<1>21. ASSUME NEW t \in Threads, SrvClosed(t) PROVE ListenerInv'
  BY <1>21 DEF IInv, TypeOK, ListenerInv, ListenerAccounted, ListenerUp,
     OwnerInv, RecordInv, Serving, CloseFnSteps, SrvClosed
<1>22. ASSUME NEW t \in Threads, LnClosed(t) PROVE ListenerInv'
  <2>1. CASE t \in Callers /\ ~ready[target[t]]
    <3>1. open' = open \ {target[t]} /\ target[t] \in Recs
      BY <1>22, <2>1, WithdrawerFacts DEF LnClosed, WithdrawSteps, CloseFnSteps
    <3>2. \A u \in Threads \ {t} : pc'[u] = pc[u] /\ target'[u] = target[u]
      BY <1>22, <2>1 DEF LnClosed, ReturnError, Return, IInv, TypeOK
    <3>3. serve[target[t]] = "none" /\ ~Serving(target[t])
      BY <2>1, <3>1 DEF IInv, RecordInv, Serving
    <3>4. UNCHANGED <<shutdown, ready, withdrawing, serve, srvDown, pending>>
      BY <1>22, <2>1 DEF LnClosed, ReturnError, Return
    <3> QED
      BY <1>22, <2>1, <3>1, <3>2, <3>3, <3>4
         DEF LnClosed, IInv, ListenerInv, ListenerAccounted, ListenerUp, Serving
  <2>2. CASE t \in Callers /\ ready[target[t]]
    BY <1>22, <2>2, AdvertiserFacts, WithdrawerFacts, NamesAssumption
       DEF LnClosed, IInv, TypeOK, StepInv, ListenerInv, ListenerAccounted, ListenerUp, OwnerInv, RecordInv, Serving, UnusedInv, AdvertiseSteps, CloseFnSteps, WithdrawSteps
  <2>3. CASE t = Main
    BY <1>22, <2>3, AdvertiserFacts, NamesAssumption
       DEF LnClosed, IInv, TypeOK, StepInv, ListenerInv, ListenerAccounted, ListenerUp, OwnerInv, RecordInv, Serving, UnusedInv, AdvertiseSteps, CloseFnSteps, WithdrawSteps
  <2> QED
    BY <2>1, <2>2, <2>3
<1>23. ASSUME Close PROVE ListenerInv'
  <2>1. ~shutdown /\ pending = {}
    BY <1>23 DEF Close, IInv, StepInv
  <2>2. \A r \in Recs : Serving(r) => r \in pending'
    <3> SUFFICES ASSUME NEW r \in Recs, Serving(r)
                 PROVE  \E s \in Services : index[s] = r
      BY <1>23 DEF Close
    <3>1. index[Name(r)] = r
      BY <2>1 DEF IInv, OccupancyInv, Occupies, Claimed, Serving
    <3>2. Name(r) \in Services
      BY NameType, NamesAssumption, NoDefName, DefsAssumption
         DEF IInv, UnusedInv, Serving, Name, TypeOK
    <3> QED
      BY <3>1, <3>2
  <2>3. \A t \in Threads \ {Main} : pc'[t] = pc[t]
    BY <1>23 DEF Close, IInv, TypeOK
  <2>4. pc[Main] = "idle" /\ shutdown'
    BY <1>23 DEF Close
  <2> QED
    BY <1>23, <2>1, <2>2, <2>3, <2>4, NamesAssumption
       DEF Close, IInv, ListenerInv, ListenerAccounted, ListenerUp, Serving,
           CloseFnSteps
<1>24. ASSUME NEW r \in Recs, CloseNext(r) PROVE ListenerInv'
  BY <1>24 DEF IInv, TypeOK, ListenerInv, ListenerAccounted, ListenerUp,
     Serving, CloseFnSteps, CloseNext
<1>25. ASSUME CloseDone PROVE ListenerInv'
  BY <1>25 DEF IInv, TypeOK, ListenerInv, ListenerAccounted, ListenerUp,
     Serving, CloseFnSteps, CloseDone
<1>26. ASSUME NEW r \in Recs, ServeStart(r) PROVE ListenerInv'
  BY <1>26 DEF IInv, TypeOK, ListenerInv, ListenerAccounted, ListenerUp,
     Serving, ServeStart, ServeTo
<1>27. ASSUME NEW r \in Recs, ServeReturns(r) PROVE ListenerInv'
  BY <1>27 DEF IInv, TypeOK, ListenerInv, ListenerAccounted, ListenerUp,
     Serving, ServeReturns, ServeTo
<1>28. ASSUME NEW r \in Recs, AcceptFails(r) PROVE ListenerInv'
  BY <1>28 DEF IInv, TypeOK, ListenerInv, ListenerAccounted, ListenerUp,
     Serving, AcceptFails, ServeTo
<1>29. ASSUME NEW r \in Recs, ServeLock(r) PROVE ListenerInv'
  BY <1>29 DEF IInv, TypeOK, ListenerInv, ListenerAccounted, ListenerUp,
     Serving, ServeLock, ServeTo
<1>30. ASSUME NEW r \in Recs, ServeClosed(r) PROVE ListenerInv'
  BY <1>30 DEF IInv, TypeOK, ListenerInv, ListenerAccounted, ListenerUp,
     RecordInv, Serving, ServeClosed, ServeTo
<1>31. CASE UNCHANGED vars
  BY <1>31 DEF vars, ListenerInv, IInv, TypeOK, ListenerAccounted, ListenerUp,
     Serving
<1> QED
  BY <1>1, <1>2, <1>3, <1>4, <1>5, <1>6, <1>7, <1>8, <1>9, <1>10, <1>11,
     <1>12, <1>13, <1>14, <1>15, <1>16, <1>17, <1>18, <1>19, <1>20, <1>21,
     <1>22, <1>23, <1>24, <1>25, <1>26, <1>27, <1>28, <1>29, <1>30, <1>31 DEF
     Next, StartCall, CallerStep, RegisterStep, AdvertiseStep, CloseFnStep,
     CloseStep, ServeStep

\* A registered key is in the pool of a serving record, through every join,
\* withdrawal and re-advertisement.
LEMMA KeyInduct ==
    ASSUME IInv, [Next]_vars
    PROVE  KeyInv'
<1> USE DEF GoTo, registry, records, gauges, serving, threads, history,
            Threads
<1>1. ASSUME NEW c \in Callers, NEW k \in Keys, NEW d \in Defs, CallRegister(c, k, d) PROVE KeyInv'
  BY <1>1 DEF IInv, TypeOK, KeyInv, Serving, CallRegister
<1>2. ASSUME NEW c \in Callers, NEW k \in Keys, DeregisterUnknown(c, k) PROVE KeyInv'
  BY <1>2 DEF IInv, TypeOK, KeyInv, Serving, DeregisterUnknown, Forget
<1>3. ASSUME NEW c \in Callers, NEW k \in Keys, Deregister(c, k) PROVE KeyInv'
  BY <1>3 DEF IInv, TypeOK, KeyInv, Serving, Deregister, Leave, Forget
<1>4. ASSUME NEW c \in Callers, NEW k \in Keys, DeregisterLast(c, k) PROVE KeyInv'
  BY <1>4 DEF IInv, TypeOK, KeyInv, Serving, DeregisterLast, Leave, Forget
<1>5. ASSUME NEW c \in Callers, RegisterShutdown(c) PROVE KeyInv'
  BY <1>5 DEF IInv, TypeOK, KeyInv, Serving, RegisterShutdown, ReturnError,
     Return
<1>6. ASSUME NEW c \in Callers, RegisterKnown(c) PROVE KeyInv'
  BY <1>6 DEF IInv, TypeOK, KeyInv, Serving, RegisterKnown, ReturnNil, Return
<1>7. ASSUME NEW c \in Callers, NEW r \in Recs, RegisterClaim(c, r) PROVE KeyInv'
  BY <1>7 DEF IInv, TypeOK, KeyInv, Serving, RegisterClaim, Proceeds, Unused
<1>8. ASSUME NEW c \in Callers, RegisterWait(c) PROVE KeyInv'
  BY <1>8 DEF IInv, TypeOK, KeyInv, Serving, RegisterWait, Proceeds,
     Transition
<1>9. ASSUME NEW c \in Callers, RegisterConflict(c) PROVE KeyInv'
  BY <1>9 DEF IInv, TypeOK, KeyInv, Serving, RegisterConflict, Proceeds,
     ReturnError, Return
<1>10. ASSUME NEW c \in Callers, RegisterJoin(c) PROVE KeyInv'
  <2>1. PICK q \in Recs :
          /\ q = index[want[c].service] /\ index[Name(q)] = q
          /\ Name(q) \in Services /\ Serving(q) /\ ~shutdown
          /\ key[c] \in Keys /\ byKey[key[c]] = NoService
          /\ pool' = [pool EXCEPT ![q] = @ \cup {key[c]}]
          /\ byKey' = [byKey EXCEPT ![key[c]] = Name(q)]
          /\ holds' = holds \cup {key[c]}
          /\ UNCHANGED <<index, shutdown, def, ready, withdrawing>>
    BY <1>10, JoinFacts
  <2> SUFFICES ASSUME NEW k \in Keys, byKey'[k] # NoService
               PROVE  /\ ~shutdown' /\ index'[byKey'[k]] # NoRec
                      /\ Serving(index[byKey[k]])'
                      /\ k \in pool'[index'[byKey'[k]]]
    BY DEF KeyInv
  <2>2. CASE k = key[c]
    BY <2>1, <2>2, NamesAssumption DEF IInv, TypeOK, Serving
  <2>3. CASE k # key[c]
    <3>1. byKey'[k] = byKey[k]
      BY <2>1, <2>3 DEF IInv, TypeOK
    <3>2. /\ index[byKey[k]] \in Recs
          /\ Serving(index[byKey[k]]) /\ k \in pool[index[byKey[k]]]
      BY <3>1, NamesAssumption DEF IInv, TypeOK, KeyInv
    <3> QED
      BY <2>1, <3>1, <3>2, NamesAssumption DEF IInv, TypeOK, Serving
  <2> QED
    BY <2>2, <2>3
<1>11. ASSUME NEW c \in Callers, Awake(c) PROVE KeyInv'
  BY <1>11 DEF IInv, TypeOK, KeyInv, Serving, Awake
<1>12. ASSUME NEW c \in Callers, ListenLock(c) PROVE KeyInv'
  BY <1>12 DEF IInv, TypeOK, KeyInv, Serving, ListenLock
<1>13. ASSUME NEW c \in Callers, ListenOpens(c) PROVE KeyInv'
  BY <1>13 DEF IInv, TypeOK, KeyInv, Serving, ListenOpens
<1>14. ASSUME NEW c \in Callers, ListenFails(c) PROVE KeyInv'
  BY <1>14 DEF IInv, TypeOK, KeyInv, Serving, ListenFails
<1>15. ASSUME NEW c \in Callers, Abandon(c) PROVE KeyInv'
  BY <1>15, AdvertiserFacts DEF IInv, TypeOK, KeyInv, Serving, AdvertiseSteps,
     Abandon, ReleaseLocked, ReturnError, Return
<1>16. ASSUME NEW c \in Callers, PublishShutdown(c) PROVE KeyInv'
  BY <1>16 DEF IInv, TypeOK, KeyInv, Serving, PublishShutdown, ReleaseLocked
<1>17. ASSUME NEW c \in Callers, Publish(c) PROVE KeyInv'
  <2>1. PICK q \in Recs :
          /\ q = target[c] /\ index[Name(q)] = q
          /\ Name(q) \in Services /\ ~shutdown
          /\ ~ready[q] /\ withdrawing[q] = "nil" /\ pool[q] = {}
          /\ key[c] \in Keys /\ byKey[key[c]] = NoService
          /\ pool' = [pool EXCEPT ![q] = @ \cup {key[c]}]
          /\ byKey' = [byKey EXCEPT ![key[c]] = Name(q)]
          /\ ready' = [ready EXCEPT ![q] = TRUE]
          /\ holds' = holds \cup {key[c]}
          /\ UNCHANGED <<index, shutdown, def, withdrawing>>
    BY <1>17, PublishFacts
  <2> SUFFICES ASSUME NEW k \in Keys, byKey'[k] # NoService
               PROVE  /\ ~shutdown' /\ index'[byKey'[k]] # NoRec
                      /\ Serving(index[byKey[k]])'
                      /\ k \in pool'[index'[byKey'[k]]]
    BY DEF KeyInv
  <2>2. CASE k = key[c]
    BY <2>1, <2>2, NamesAssumption DEF IInv, TypeOK, Serving
  <2>3. CASE k # key[c]
    <3>1. byKey'[k] = byKey[k]
      BY <2>1, <2>3 DEF IInv, TypeOK
    <3>2. /\ index[byKey[k]] \in Recs
          /\ Serving(index[byKey[k]]) /\ k \in pool[index[byKey[k]]]
      BY <3>1, NamesAssumption DEF IInv, TypeOK, KeyInv
    <3> QED
      BY <2>1, <3>1, <3>2, NamesAssumption DEF IInv, TypeOK, Serving
  <2> QED
    BY <2>2, <2>3
<1>18. ASSUME NEW c \in Callers, Withdrawn(c) PROVE KeyInv'
  BY <1>18, WithdrawerFacts DEF IInv, TypeOK, StepInv, KeyInv, Serving,
     UnusedInv, WithdrawSteps, Withdrawn, Return
<1>19. ASSUME NEW t \in Threads, SrvClose(t) PROVE KeyInv'
  BY <1>19 DEF IInv, TypeOK, KeyInv, Serving, SrvClose
<1>20. ASSUME NEW t \in Threads, CloseLock(t) PROVE KeyInv'
  BY <1>20 DEF IInv, TypeOK, KeyInv, Serving, CloseLock
<1>21. ASSUME NEW t \in Threads, SrvClosed(t) PROVE KeyInv'
  BY <1>21 DEF IInv, TypeOK, KeyInv, Serving, SrvClosed
<1>22. ASSUME NEW t \in Threads, LnClosed(t) PROVE KeyInv'
  BY <1>22 DEF IInv, TypeOK, KeyInv, Serving, LnClosed, ReturnError, Return
<1>23. ASSUME Close PROVE KeyInv'
  BY <1>23 DEF IInv, TypeOK, KeyInv, Serving, Close
<1>24. ASSUME NEW r \in Recs, CloseNext(r) PROVE KeyInv'
  BY <1>24 DEF IInv, TypeOK, KeyInv, Serving, CloseNext
<1>25. ASSUME CloseDone PROVE KeyInv'
  BY <1>25 DEF IInv, TypeOK, KeyInv, Serving, CloseDone
<1>26. ASSUME NEW r \in Recs, ServeStart(r) PROVE KeyInv'
  BY <1>26 DEF IInv, TypeOK, KeyInv, Serving, ServeStart, ServeTo
<1>27. ASSUME NEW r \in Recs, ServeReturns(r) PROVE KeyInv'
  BY <1>27 DEF IInv, TypeOK, KeyInv, Serving, ServeReturns, ServeTo
<1>28. ASSUME NEW r \in Recs, AcceptFails(r) PROVE KeyInv'
  BY <1>28 DEF IInv, TypeOK, KeyInv, Serving, AcceptFails, ServeTo
<1>29. ASSUME NEW r \in Recs, ServeLock(r) PROVE KeyInv'
  BY <1>29 DEF IInv, TypeOK, KeyInv, Serving, ServeLock, ServeTo
<1>30. ASSUME NEW r \in Recs, ServeClosed(r) PROVE KeyInv'
  BY <1>30 DEF IInv, TypeOK, KeyInv, Serving, ServeClosed, ServeTo
<1>31. CASE UNCHANGED vars
  BY <1>31 DEF vars, KeyInv, IInv, TypeOK, Serving
<1> QED
  BY <1>1, <1>2, <1>3, <1>4, <1>5, <1>6, <1>7, <1>8, <1>9, <1>10, <1>11,
     <1>12, <1>13, <1>14, <1>15, <1>16, <1>17, <1>18, <1>19, <1>20, <1>21,
     <1>22, <1>23, <1>24, <1>25, <1>26, <1>27, <1>28, <1>29, <1>30, <1>31 DEF
     Next, StartCall, CallerStep, RegisterStep, AdvertiseStep, CloseFnStep,
     CloseStep, ServeStep

\* The pools hold only registered keys, and a serving record's pool is not
\* empty.
LEMMA PoolInduct ==
    ASSUME IInv, [Next]_vars
    PROVE  PoolInv'
<1> USE DEF GoTo, registry, records, gauges, serving, threads, history,
            Threads
<1>1. ASSUME NEW c \in Callers, NEW k \in Keys, NEW d \in Defs, CallRegister(c, k, d) PROVE PoolInv'
  BY <1>1 DEF IInv, TypeOK, Serving, Name, PoolInv, CallRegister
<1>2. ASSUME NEW c \in Callers, NEW k \in Keys, DeregisterUnknown(c, k) PROVE PoolInv'
  <2>1. byKey[k] = NoService
    BY <1>2 DEF DeregisterUnknown, Registered, IInv, KeyInv, Serving
  <2>2. byKey' = byKey /\ holds' \subseteq holds
    BY <1>2, <2>1 DEF DeregisterUnknown, Forget, IInv, TypeOK
  <2> QED
    BY <1>2, <2>2 DEF DeregisterUnknown, Forget, IInv, PoolInv, Serving, Name
<1>3. ASSUME NEW c \in Callers, NEW k \in Keys, Deregister(c, k) PROVE PoolInv'
  <2>1. PICK q \in Recs : q = index[byKey[k]] /\ ~shutdown
    BY <1>3, RegisteredFacts DEF Deregister, Leave
  <2>2. /\ pool' = [pool EXCEPT ![q] = @ \ {k}]
        /\ byKey' = [byKey EXCEPT ![k] = NoService]
        /\ holds' = holds \ {k}
        /\ UNCHANGED <<index, shutdown, def, ready>>
    BY <1>3, <2>1 DEF Deregister, Leave, Forget
  <2>3. \A r \in Recs : r # q => k \notin pool[r]
    BY <2>1, PoolFacts
  <2>4. \A r \in Recs : \A j \in pool'[r] : byKey'[j] = Name(r)'
    BY <2>1, <2>2, <2>3 DEF IInv, TypeOK, PoolInv, Name
  <2>5. \A r \in Recs : Serving(r)' => pool'[r] # {}
    BY <1>3, <2>1, <2>2 DEF Deregister, IInv, TypeOK, PoolInv, Serving
  <2>6. \A j \in holds' : byKey'[j] # NoService
    BY <2>1, <2>2 DEF IInv, TypeOK, PoolInv
  <2> QED
    BY <2>4, <2>5, <2>6 DEF PoolInv
<1>4. ASSUME NEW c \in Callers, NEW k \in Keys, DeregisterLast(c, k) PROVE PoolInv'
  <2>1. PICK q \in Recs : q = index[byKey[k]] /\ ~shutdown
    BY <1>4, RegisteredFacts DEF DeregisterLast, Leave
  <2>2. /\ pool' = [pool EXCEPT ![q] = @ \ {k}]
        /\ byKey' = [byKey EXCEPT ![k] = NoService]
        /\ holds' = holds \ {k}
        /\ UNCHANGED <<index, shutdown, def, ready>>
    BY <1>4, <2>1 DEF DeregisterLast, Leave, Forget
  <2>3. \A r \in Recs : r # q => k \notin pool[r]
    BY <2>1, PoolFacts
  <2>4. \A r \in Recs : \A j \in pool'[r] : byKey'[j] = Name(r)'
    BY <2>1, <2>2, <2>3 DEF IInv, TypeOK, PoolInv, Name
  <2>5. \A r \in Recs : Serving(r)' => pool'[r] # {}
    BY <1>4, <2>1, <2>2 DEF DeregisterLast, IInv, TypeOK, PoolInv, Serving
  <2>6. \A j \in holds' : byKey'[j] # NoService
    BY <2>1, <2>2 DEF IInv, TypeOK, PoolInv
  <2> QED
    BY <2>4, <2>5, <2>6 DEF PoolInv
<1>5. ASSUME NEW c \in Callers, RegisterShutdown(c) PROVE PoolInv'
  BY <1>5 DEF IInv, TypeOK, Serving, Name, PoolInv, RegisterShutdown,
     ReturnError, Return
<1>6. ASSUME NEW c \in Callers, RegisterKnown(c) PROVE PoolInv'
  BY <1>6 DEF IInv, TypeOK, Serving, Name, PoolInv, RegisterKnown, ReturnNil,
     Return
<1>7. ASSUME NEW c \in Callers, NEW r \in Recs, RegisterClaim(c, r) PROVE PoolInv'
  BY <1>7 DEF IInv, TypeOK, Serving, Name, UnusedInv, PoolInv, RegisterClaim,
     Proceeds, Unused
<1>8. ASSUME NEW c \in Callers, RegisterWait(c) PROVE PoolInv'
  BY <1>8 DEF IInv, TypeOK, Serving, Name, PoolInv, RegisterWait, Proceeds,
     Transition
<1>9. ASSUME NEW c \in Callers, RegisterConflict(c) PROVE PoolInv'
  BY <1>9 DEF IInv, TypeOK, Serving, Name, PoolInv, RegisterConflict,
     Proceeds, ReturnError, Return
<1>10. ASSUME NEW c \in Callers, RegisterJoin(c) PROVE PoolInv'
  <2>1. PICK q \in Recs :
          /\ q = index[want[c].service] /\ index[Name(q)] = q
          /\ Name(q) \in Services /\ Serving(q) /\ ~shutdown
          /\ key[c] \in Keys /\ byKey[key[c]] = NoService
          /\ pool' = [pool EXCEPT ![q] = @ \cup {key[c]}]
          /\ byKey' = [byKey EXCEPT ![key[c]] = Name(q)]
          /\ holds' = holds \cup {key[c]}
          /\ UNCHANGED <<index, shutdown, def, ready, withdrawing>>
    BY <1>10, JoinFacts
  <2>2. \A r \in Recs : key[c] \notin pool[r]
    BY <2>1, PoolFacts
  <2>3. \A r \in Recs : \A k \in pool'[r] : byKey'[k] = Name(r)'
    BY <2>1, <2>2 DEF IInv, TypeOK, PoolInv, Name
  <2>4. \A r \in Recs : Serving(r)' => pool'[r] # {}
    BY <2>1 DEF IInv, TypeOK, PoolInv, Serving
  <2>5. \A k \in holds' : byKey'[k] # NoService
    BY <2>1, NamesAssumption DEF IInv, TypeOK, PoolInv
  <2> QED
    BY <2>3, <2>4, <2>5 DEF PoolInv
<1>11. ASSUME NEW c \in Callers, Awake(c) PROVE PoolInv'
  BY <1>11 DEF IInv, TypeOK, Serving, Name, PoolInv, Awake
<1>12. ASSUME NEW c \in Callers, ListenLock(c) PROVE PoolInv'
  BY <1>12 DEF IInv, TypeOK, Serving, Name, PoolInv, ListenLock
<1>13. ASSUME NEW c \in Callers, ListenOpens(c) PROVE PoolInv'
  BY <1>13 DEF IInv, TypeOK, Serving, Name, PoolInv, ListenOpens
<1>14. ASSUME NEW c \in Callers, ListenFails(c) PROVE PoolInv'
  BY <1>14 DEF IInv, TypeOK, Serving, Name, PoolInv, ListenFails
<1>15. ASSUME NEW c \in Callers, Abandon(c) PROVE PoolInv'
  BY <1>15 DEF IInv, TypeOK, Serving, Name, PoolInv, Abandon, ReleaseLocked,
     ReturnError, Return
<1>16. ASSUME NEW c \in Callers, PublishShutdown(c) PROVE PoolInv'
  BY <1>16 DEF IInv, TypeOK, Serving, Name, PoolInv, PublishShutdown,
     ReleaseLocked
<1>17. ASSUME NEW c \in Callers, Publish(c) PROVE PoolInv'
  <2>1. PICK q \in Recs :
          /\ q = target[c] /\ index[Name(q)] = q
          /\ Name(q) \in Services /\ ~shutdown
          /\ ~ready[q] /\ withdrawing[q] = "nil" /\ pool[q] = {}
          /\ key[c] \in Keys /\ byKey[key[c]] = NoService
          /\ pool' = [pool EXCEPT ![q] = @ \cup {key[c]}]
          /\ byKey' = [byKey EXCEPT ![key[c]] = Name(q)]
          /\ ready' = [ready EXCEPT ![q] = TRUE]
          /\ holds' = holds \cup {key[c]}
          /\ UNCHANGED <<index, shutdown, def, withdrawing>>
    BY <1>17, PublishFacts
  <2>2. \A r \in Recs : key[c] \notin pool[r]
    BY <2>1, PoolFacts
  <2>3. \A r \in Recs : \A k \in pool'[r] : byKey'[k] = Name(r)'
    BY <2>1, <2>2 DEF IInv, TypeOK, PoolInv, Name
  <2>4. \A r \in Recs : Serving(r)' => pool'[r] # {}
    BY <2>1 DEF IInv, TypeOK, PoolInv, Serving
  <2>5. \A k \in holds' : byKey'[k] # NoService
    BY <2>1, NamesAssumption DEF IInv, TypeOK, PoolInv
  <2> QED
    BY <2>3, <2>4, <2>5 DEF PoolInv
<1>18. ASSUME NEW c \in Callers, Withdrawn(c) PROVE PoolInv'
  BY <1>18 DEF IInv, TypeOK, Serving, Name, PoolInv, Withdrawn, Return
<1>19. ASSUME NEW t \in Threads, SrvClose(t) PROVE PoolInv'
  BY <1>19 DEF IInv, TypeOK, Serving, Name, PoolInv, SrvClose
<1>20. ASSUME NEW t \in Threads, CloseLock(t) PROVE PoolInv'
  BY <1>20 DEF IInv, TypeOK, Serving, Name, PoolInv, CloseLock
<1>21. ASSUME NEW t \in Threads, SrvClosed(t) PROVE PoolInv'
  BY <1>21 DEF IInv, TypeOK, Serving, Name, PoolInv, SrvClosed
<1>22. ASSUME NEW t \in Threads, LnClosed(t) PROVE PoolInv'
  BY <1>22 DEF IInv, TypeOK, Serving, Name, PoolInv, LnClosed, ReturnError,
     Return
<1>23. ASSUME Close PROVE PoolInv'
  BY <1>23 DEF IInv, TypeOK, Serving, Name, PoolInv, Close
<1>24. ASSUME NEW r \in Recs, CloseNext(r) PROVE PoolInv'
  BY <1>24 DEF IInv, TypeOK, Serving, Name, PoolInv, CloseNext
<1>25. ASSUME CloseDone PROVE PoolInv'
  BY <1>25 DEF IInv, TypeOK, Serving, Name, PoolInv, CloseDone
<1>26. ASSUME NEW r \in Recs, ServeStart(r) PROVE PoolInv'
  BY <1>26 DEF IInv, TypeOK, Serving, Name, PoolInv, ServeStart, ServeTo
<1>27. ASSUME NEW r \in Recs, ServeReturns(r) PROVE PoolInv'
  BY <1>27 DEF IInv, TypeOK, Serving, Name, PoolInv, ServeReturns, ServeTo
<1>28. ASSUME NEW r \in Recs, AcceptFails(r) PROVE PoolInv'
  BY <1>28 DEF IInv, TypeOK, Serving, Name, PoolInv, AcceptFails, ServeTo
<1>29. ASSUME NEW r \in Recs, ServeLock(r) PROVE PoolInv'
  BY <1>29 DEF IInv, TypeOK, Serving, Name, PoolInv, ServeLock, ServeTo
<1>30. ASSUME NEW r \in Recs, ServeClosed(r) PROVE PoolInv'
  BY <1>30 DEF IInv, TypeOK, Serving, Name, PoolInv, ServeClosed, ServeTo
<1>31. CASE UNCHANGED vars
  BY <1>31 DEF vars, PoolInv, IInv, TypeOK, Serving, Name
<1> QED
  BY <1>1, <1>2, <1>3, <1>4, <1>5, <1>6, <1>7, <1>8, <1>9, <1>10, <1>11,
     <1>12, <1>13, <1>14, <1>15, <1>16, <1>17, <1>18, <1>19, <1>20, <1>21,
     <1>22, <1>23, <1>24, <1>25, <1>26, <1>27, <1>28, <1>29, <1>30, <1>31 DEF
     Next, StartCall, CallerStep, RegisterStep, AdvertiseStep, CloseFnStep,
     CloseStep, ServeStep

\* While a caller advertises a service for a key it alone drives, nobody else
\* registers that key.
LEMMA ProgressInduct ==
    ASSUME IInv, ExclusiveKeys, [Next]_vars
    PROVE  ProgressInv'
<1> USE DEF GoTo, registry, records, gauges, serving, threads, history,
            Threads
<1>1. ASSUME NEW c \in Callers, NEW k \in Keys, NEW d \in Defs, CallRegister(c, k, d) PROVE ProgressInv'
  BY <1>1 DEF IInv, TypeOK, ProgressInv, AdvertiseSteps, CallRegister
<1>2. ASSUME NEW c \in Callers, NEW k \in Keys, DeregisterUnknown(c, k) PROVE ProgressInv'
  BY <1>2 DEF IInv, TypeOK, ProgressInv, DeregisterUnknown, Forget
<1>3. ASSUME NEW c \in Callers, NEW k \in Keys, Deregister(c, k) PROVE ProgressInv'
  BY <1>3 DEF IInv, TypeOK, ProgressInv, Deregister, Leave, Forget
<1>4. ASSUME NEW c \in Callers, NEW k \in Keys, DeregisterLast(c, k) PROVE ProgressInv'
  BY <1>4 DEF IInv, TypeOK, ProgressInv, AdvertiseSteps, DeregisterLast,
     Leave, Forget
<1>5. ASSUME NEW c \in Callers, RegisterShutdown(c) PROVE ProgressInv'
  BY <1>5 DEF IInv, TypeOK, ProgressInv, AdvertiseSteps, RegisterShutdown,
     ReturnError, Return
<1>6. ASSUME NEW c \in Callers, RegisterKnown(c) PROVE ProgressInv'
  BY <1>6 DEF IInv, TypeOK, ProgressInv, AdvertiseSteps, RegisterKnown,
     ReturnNil, Return
<1>7. ASSUME NEW c \in Callers, NEW r \in Recs, RegisterClaim(c, r) PROVE ProgressInv'
  BY <1>7 DEF IInv, TypeOK, ProgressInv, RegisterClaim, Proceeds, Unused
<1>8. ASSUME NEW c \in Callers, RegisterWait(c) PROVE ProgressInv'
  BY <1>8 DEF IInv, TypeOK, ProgressInv, RegisterWait, Proceeds, Transition
<1>9. ASSUME NEW c \in Callers, RegisterConflict(c) PROVE ProgressInv'
  BY <1>9 DEF IInv, TypeOK, ProgressInv, AdvertiseSteps, RegisterConflict,
     Proceeds, ReturnError, Return
<1>10. ASSUME NEW c \in Callers, RegisterJoin(c) PROVE ProgressInv'
  BY <1>10, AdvertiserFacts, NamesAssumption DEF IInv, TypeOK, StepInv,
     ProgressInv, ExclusiveKeys, AdvertiseSteps, RegisterJoin, Proceeds,
     Transition, ReturnNil, Return
<1>11. ASSUME NEW c \in Callers, Awake(c) PROVE ProgressInv'
  BY <1>11 DEF IInv, TypeOK, ProgressInv, AdvertiseSteps, Awake
<1>12. ASSUME NEW c \in Callers, ListenLock(c) PROVE ProgressInv'
  BY <1>12 DEF IInv, TypeOK, ProgressInv, AdvertiseSteps, ListenLock
<1>13. ASSUME NEW c \in Callers, ListenOpens(c) PROVE ProgressInv'
  BY <1>13 DEF IInv, TypeOK, ProgressInv, AdvertiseSteps, ListenOpens
<1>14. ASSUME NEW c \in Callers, ListenFails(c) PROVE ProgressInv'
  BY <1>14 DEF IInv, TypeOK, ProgressInv, AdvertiseSteps, ListenFails
<1>15. ASSUME NEW c \in Callers, Abandon(c) PROVE ProgressInv'
  BY <1>15 DEF IInv, TypeOK, ProgressInv, AdvertiseSteps, Abandon,
     ReleaseLocked, ReturnError, Return
<1>16. ASSUME NEW c \in Callers, PublishShutdown(c) PROVE ProgressInv'
  BY <1>16 DEF IInv, TypeOK, ProgressInv, AdvertiseSteps, PublishShutdown,
     ReleaseLocked
<1>17. ASSUME NEW c \in Callers, Publish(c) PROVE ProgressInv'
  BY <1>17 DEF IInv, TypeOK, StepInv, ProgressInv, ExclusiveKeys,
     AdvertiseSteps, WithdrawSteps, Publish, ReturnNil, Return
<1>18. ASSUME NEW c \in Callers, Withdrawn(c) PROVE ProgressInv'
  BY <1>18 DEF IInv, TypeOK, ProgressInv, AdvertiseSteps, Withdrawn, Return
<1>19. ASSUME NEW t \in Threads, SrvClose(t) PROVE ProgressInv'
  BY <1>19 DEF IInv, TypeOK, ProgressInv, AdvertiseSteps, SrvClose
<1>20. ASSUME NEW t \in Threads, CloseLock(t) PROVE ProgressInv'
  BY <1>20 DEF IInv, TypeOK, ProgressInv, AdvertiseSteps, CloseLock
<1>21. ASSUME NEW t \in Threads, SrvClosed(t) PROVE ProgressInv'
  BY <1>21 DEF IInv, TypeOK, ProgressInv, AdvertiseSteps, SrvClosed
<1>22. ASSUME NEW t \in Threads, LnClosed(t) PROVE ProgressInv'
  BY <1>22 DEF IInv, TypeOK, ProgressInv, AdvertiseSteps, LnClosed,
     ReturnError, Return
<1>23. ASSUME Close PROVE ProgressInv'
  BY <1>23, AdvertiserFacts DEF IInv, TypeOK, ProgressInv, AdvertiseSteps,
     Close
<1>24. ASSUME NEW r \in Recs, CloseNext(r) PROVE ProgressInv'
  BY <1>24 DEF IInv, TypeOK, ProgressInv, AdvertiseSteps, CloseNext
<1>25. ASSUME CloseDone PROVE ProgressInv'
  BY <1>25 DEF IInv, TypeOK, ProgressInv, AdvertiseSteps, CloseDone
<1>26. ASSUME NEW r \in Recs, ServeStart(r) PROVE ProgressInv'
  BY <1>26 DEF IInv, TypeOK, ProgressInv, ServeStart, ServeTo
<1>27. ASSUME NEW r \in Recs, ServeReturns(r) PROVE ProgressInv'
  BY <1>27 DEF IInv, TypeOK, ProgressInv, ServeReturns, ServeTo
<1>28. ASSUME NEW r \in Recs, AcceptFails(r) PROVE ProgressInv'
  BY <1>28 DEF IInv, TypeOK, ProgressInv, AcceptFails, ServeTo
<1>29. ASSUME NEW r \in Recs, ServeLock(r) PROVE ProgressInv'
  BY <1>29 DEF IInv, TypeOK, ProgressInv, ServeLock, ServeTo
<1>30. ASSUME NEW r \in Recs, ServeClosed(r) PROVE ProgressInv'
  BY <1>30 DEF IInv, TypeOK, ProgressInv, ServeClosed, ServeTo
<1>31. CASE UNCHANGED vars
  BY <1>31 DEF vars, ProgressInv, IInv, TypeOK
<1> QED
  BY <1>1, <1>2, <1>3, <1>4, <1>5, <1>6, <1>7, <1>8, <1>9, <1>10, <1>11,
     <1>12, <1>13, <1>14, <1>15, <1>16, <1>17, <1>18, <1>19, <1>20, <1>21,
     <1>22, <1>23, <1>24, <1>25, <1>26, <1>27, <1>28, <1>29, <1>30, <1>31 DEF
     Next, StartCall, CallerStep, RegisterStep, AdvertiseStep, CloseFnStep,
     CloseStep, ServeStep

-----------------------------------------------------------------------------

\* The inductive invariant holds in every reachable state: for any number of
\* callers, keys, services and records, whether or not Accept may fail, as
\* long as no key is driven by two callers.
THEOREM InductiveInvariant ==
    ASSUME ExclusiveKeys
    PROVE  Spec => []IInv
<1>1. Init => IInv
  <2> SUFFICES ASSUME Init
               PROVE  IInv
    OBVIOUS
  <2> USE DEF Init
  <2>1. TypeOK
    <3>1. /\ index \in [Services -> Recs \cup {NoRec}]
          /\ byKey \in [Keys -> Services \cup {NoService}] /\ shutdown \in BOOLEAN
      OBVIOUS
    <3>2. /\ def \in [Recs -> Defs \cup {NoDef}] /\ ready \in [Recs -> BOOLEAN]
          /\ advertised \in [Recs -> Channel] /\ withdrawing \in [Recs -> Channel]
          /\ pool \in [Recs -> SUBSET Keys]
      BY DEF Channel
    <3>3. active \in Int /\ backends \in [Services -> Int]
      BY DEF NoSeries
    <3>4. /\ serveMu \in Threads \cup Recs \cup {Free} /\ open \in SUBSET Recs
          /\ srvDown \in SUBSET Recs /\ serve \in [Recs -> ServeState]
      BY DEF ServeState
    <3>5. /\ pc \in [Threads -> Steps] /\ key \in [Callers -> Keys \cup {NoKey}]
          /\ want \in [Callers -> Defs \cup {NoDef}]
          /\ target \in [Threads -> Recs \cup {NoRec}] /\ pending \in SUBSET Recs
      BY DEF Steps
    <3>6. holds \in SUBSET Keys /\ offered \in [Keys -> Defs \cup {NoDef}]
      OBVIOUS
    <3> QED
      BY <3>1, <3>2, <3>3, <3>4, <3>5, <3>6 DEF TypeOK
  <2>2. LockInv /\ StepInv
    BY NamesAssumption DEF LockInv, StepInv, Threads, AdvertiseSteps,
       WithdrawSteps, CloseFnSteps
  <2>3. UnusedInv /\ RecordInv /\ OwnerInv
    BY NamesAssumption DEF UnusedInv, RecordInv, OwnerInv, Threads, Advertises,
       TearsDown, AdvertiseSteps, WithdrawSteps, CloseFnSteps, Serving
  <2>4. OccupancyInv /\ ListenerInv
    BY DEF OccupancyInv, Occupies, Claimed, ListenerInv, ListenerAccounted,
       ListenerUp, Serving
  <2>5. KeyInv /\ PoolInv /\ ProgressInv
    BY DEF KeyInv, PoolInv, ProgressInv, Serving, Threads, AdvertiseSteps
  <2> QED
    BY <2>1, <2>2, <2>3, <2>4, <2>5 DEF IInv
<1>2. IInv /\ [Next]_vars => IInv'
  <2> SUFFICES ASSUME IInv, [Next]_vars
               PROVE  IInv'
    OBVIOUS
  <2>1. TypeOK /\ StepInv
    BY DEF IInv
  <2>2. TypeOK'
    BY <2>1, TypeInduct
  <2>3. LockInv' /\ StepInv' /\ UnusedInv'
    BY LockInduct, StepInduct, UnusedInduct
  <2>4. RecordInv' /\ OwnerInv' /\ OccupancyInv' /\ ListenerInv'
    BY RecordInduct, OwnerInduct, OccupancyInduct, ListenerInduct
  <2>5. KeyInv' /\ PoolInv' /\ ProgressInv'
    BY KeyInduct, PoolInduct, ProgressInduct
  <2> QED
    BY <2>2, <2>3, <2>4, <2>5 DEF IInv
<1> QED
  BY <1>1, <1>2, PTL DEF Spec
=============================================================================
