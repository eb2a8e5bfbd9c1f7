--------------------------- MODULE EcsWatcherProofs ---------------------------
(***************************************************************************)
(* Proofs about EcsWatcher, for any cluster: any tasks, containers, network  *)
(* modes and instances, any batch size and any number of moves.              *)
(***************************************************************************)
EXTENDS EcsWatcher, TLAPS

\* Only a cycle that has resolved its account lists; it describes after the last
\* page, and between batches nothing is in hand.  What is in hand is of one
\* task, described, whose definition the cache holds.
CycleInOrder ==
    /\ pc \in {"list", "describe", "task", "apply"} => resolved
    /\ pc \in {"describe", "task", "apply"} => pages = {}
    /\ pc \notin {"task", "apply"} => DOMAIN described = {}
    /\ \A k \in todo : k[1] \in DOMAIN described /\ taskDef[k[1]] \in taskDefs
    /\ \A k, l \in todo : k[1] = l[1]

\* Addresses only grow: what is described is no newer than the cluster, and
\* what is served no newer than either.
Served(k) == pool[k] # NoAddr

NoNewer ==
    /\ \A t \in DOMAIN described : status[t] # "pending" /\ described[t] <= where[t]
    /\ \A k \in Keys : Served(k) =>
          /\ taskDef[k[1]] \in taskDefs
          /\ status[k[1]] # "pending"
          /\ pool[k] <= AddressIn(k, where)
          /\ k[1] \in DOMAIN described => pool[k] <= Address(k)

\* A key that is served, of a task that has not ended, is ahead of the cycle or
\* has been seen by it.
Pending(k) == k \in todo \/ (k[1] \in DOMAIN described /\ \A l \in todo : l[1] # k[1])

Covered ==
    \A k \in Keys : Served(k) /\ ~Ended(k[1]) =>
        /\ pc = "list" => k[1] \in pages \cup arns
        /\ pc \in {"describe", "task", "apply"} =>
              k[1] \in arns \/ k \in seen \/ Pending(k)

\* A task that had ended before the cycle began is nowhere in it.
GoneIsGone ==
    \A t \in goneBefore :
        /\ Ended(t)
        /\ pc \in {"list", "describe", "task", "apply"} =>
              t \notin arns \cup DOMAIN described
        /\ pc \in {"describe", "task", "apply"} => \A k \in seen : k[1] # t

IInv ==
    /\ TypeOK
    /\ BooksMatchRegistrar
    /\ CycleInOrder
    /\ NoNewer
    /\ Covered
    /\ GoneIsGone
    /\ SuccessMeansSwept

-----------------------------------------------------------------------------

\* registrationKey starts with the task.
LEMMA KeyTask == \A k \in Keys : k[1] \in Tasks
BY DEF Keys

\* resolveBackend gives an address of the cluster's, or none.
LEMMA AddressType ==
    ASSUME TypeOK, NEW k \in Keys
    PROVE  /\ AddressIn(k, where) \in Addrs \cup {NoAddr}
           /\ k[1] \in DOMAIN described => Address(k) \in Addrs \cup {NoAddr}
BY KeyTask, BoundsAssumption DEF TypeOK, AddressIn, Address, Addrs, NoAddr

\* NewWatcher starts with empty books and caches.
LEMMA InitInv == Init => IInv
<1> SUFFICES ASSUME Init PROVE IInv
    OBVIOUS
<1>1. TypeOK
  <2>1. /\ resolved \in BOOLEAN /\ healthy \in BOOLEAN /\ lastError \in BOOLEAN
        /\ healthy => ~lastError /\ resolved
    BY Zenon DEF Init
  <2> QED
    BY <2>1 DEF Init, TypeOK, Steps, Status
<1>2. BooksMatchRegistrar /\ CycleInOrder /\ NoNewer /\ Covered
  BY DEF Init, BooksMatchRegistrar, CycleInOrder, NoNewer, Covered, Served
<1>3. GoneIsGone /\ SuccessMeansSwept
  BY DEF Init, GoneIsGone, SuccessMeansSwept
<1> QED
  BY <1>1, <1>2, <1>3 DEF IInv

-----------------------------------------------------------------------------
(* The steps, one lemma for each group of actions.                          *)

\* The cluster moves on under the watcher: tasks only age, addresses only grow.
LEMMA ClusterInv == IInv /\ ClusterStep => IInv'
<1> SUFFICES ASSUME IInv, ClusterStep PROVE IInv'
    OBVIOUS
<1> USE DEF IInv
<1>1. PICK t \in Tasks : \/ Ages(t, "pending", "running")
                         \/ Ages(t, "running", "draining")
                         \/ Ages(t, "draining", "stopped")
                         \/ Move(t)
  BY DEF ClusterStep
<1>2. UNCHANGED <<resolved, caches, books, report, pc, locals, goneBefore>>
  BY <1>1 DEF Ages, Move
<1>3. /\ status' \in [Tasks -> Status]
      /\ where' \in [Tasks -> Addrs \cup {NoAddr}]
      /\ \A u \in Tasks : /\ Ended(u) => Ended(u)'
                          /\ status[u] # "pending" => status'[u] # "pending"
                          /\ where[u] <= where'[u]
  BY <1>1, BoundsAssumption DEF Ages, Move, Ended, Runs, TypeOK, Status, Addrs, NoAddr
<1>4. TypeOK'
  BY <1>2, <1>3 DEF TypeOK, caches, books, report, locals
<1>5. BooksMatchRegistrar' /\ CycleInOrder' /\ SuccessMeansSwept'
  BY <1>2 DEF BooksMatchRegistrar, CycleInOrder, SuccessMeansSwept, caches, books, report, locals
<1>6. NoNewer'
  <2>1. ASSUME NEW k \in Keys, Served(k) PROVE pool[k] <= AddressIn(k, where')
    BY <1>3, <2>1, KeyTask, BoundsAssumption
    DEF NoNewer, AddressIn, TypeOK, Addrs, NoAddr, Served
  <2>2. \A u \in DOMAIN described : status'[u] # "pending" /\ described[u] <= where'[u]
    BY <1>3, BoundsAssumption DEF NoNewer, TypeOK, Addrs, NoAddr
  <2> QED
    BY <1>2, <1>3, <2>1, <2>2, KeyTask
    DEF NoNewer, AddressIn, Address, Served, caches, books, locals
<1>7. Covered' /\ GoneIsGone'
  BY <1>2, <1>3, KeyTask DEF Covered, Served, Pending, GoneIsGone, TypeOK, books, locals
<1> QED
  BY <1>4, <1>5, <1>6, <1>7

\* A cycle begins, fails or takes up the next batch, or Run returns: nothing is
\* registered and nothing dropped.
LEMMA RunInv ==
    ASSUME IInv, Wake \/ Cancelled \/ AccountFails \/ ListFails \/ DescribeFails \/ NextBatch
    PROVE  IInv'
<1> USE DEF IInv
<1>1. CASE Wake
  <2>1. TypeOK' /\ BooksMatchRegistrar' /\ CycleInOrder' /\ NoNewer' /\ Covered'
    BY <1>1 DEF Wake, TypeOK, BooksMatchRegistrar, CycleInOrder, NoNewer, Covered,
                Served, AddressIn, Address, Steps, cluster, caches, books, report, locals
  <2>2. GoneIsGone' /\ SuccessMeansSwept'
    BY <1>1 DEF Wake, GoneIsGone, SuccessMeansSwept, Ended, cluster, books, report, locals
  <2> QED
    BY <2>1, <2>2
<1>2. CASE NextBatch
  <2>1. TypeOK' /\ BooksMatchRegistrar' /\ CycleInOrder' /\ SuccessMeansSwept'
    BY <1>2 DEF NextBatch, TypeOK, BooksMatchRegistrar, CycleInOrder, SuccessMeansSwept,
                Steps, cluster, caches, books, report, locals
  <2>2. NoNewer' /\ Covered' /\ GoneIsGone'
    BY <1>2 DEF NextBatch, NoNewer, Covered, GoneIsGone, Pending, Ended,
                Served, AddressIn, Address, cluster, caches, books, locals
  <2> QED
    BY <2>1, <2>2
<1>3. CASE Cancelled \/ AccountFails \/ ListFails \/ DescribeFails
  <2>1. /\ pc \in {"account", "list", "describe", "sleep"}
        /\ Cancelled \/ CycleFails
    BY <1>3 DEF Cancelled, AccountFails, ListFails, DescribeFails
  <2>2. /\ UNCHANGED <<cluster, resolved, caches, books, locals, goneBefore>>
        /\ \/ pc' = "returned" /\ UNCHANGED report
           \/ pc' = "sleep" /\ healthy' = FALSE /\ lastError' = TRUE
    BY <2>1 DEF Cancelled, CycleFails
  <2>3. TypeOK'
    <3>1. /\ resolved' \in BOOLEAN /\ healthy' \in BOOLEAN /\ lastError' \in BOOLEAN
          /\ healthy' => ~lastError' /\ resolved'
      <4>1. /\ resolved \in BOOLEAN /\ healthy \in BOOLEAN /\ lastError \in BOOLEAN
            /\ healthy => ~lastError /\ resolved
        BY DEF TypeOK
      <4>2. /\ resolved' = resolved
            /\ \/ healthy' = healthy /\ lastError' = lastError
               \/ healthy' = FALSE /\ lastError' = TRUE
        BY <2>2 DEF report
      <4>3. CASE healthy' = healthy /\ lastError' = lastError
        BY <4>1, <4>2, <4>3, Zenon
      <4>4. CASE healthy' = FALSE /\ lastError' = TRUE
        BY <4>1, <4>2, <4>4, Zenon
      <4> QED
        BY <4>2, <4>3, <4>4, Zenon
    <3> QED
      BY <2>1, <2>2, <3>1 DEF TypeOK, Steps, cluster, caches, books, locals
  <2>4. BooksMatchRegistrar' /\ CycleInOrder' /\ NoNewer' /\ Covered'
    BY <2>1, <2>2 DEF TypeOK, BooksMatchRegistrar, CycleInOrder, NoNewer, Covered,
                Served, AddressIn, Address, cluster, caches, books, locals
  <2>5. GoneIsGone' /\ SuccessMeansSwept'
    BY <2>2 DEF GoneIsGone, SuccessMeansSwept, Ended, cluster, books, locals
  <2> QED
    BY <2>3, <2>4, <2>5
<1> QED
  BY <1>1, <1>2, <1>3

\* The account is known: a listing begins with every page to come.
LEMMA AccountInv == ASSUME IInv, AccountKnown PROVE IInv'
<1> USE DEF IInv
<1>1. TypeOK'
  BY DEF AccountKnown, TypeOK, Steps, cluster, caches, books, report
<1>2. BooksMatchRegistrar' /\ CycleInOrder' /\ NoNewer' /\ SuccessMeansSwept'
  BY DEF AccountKnown, BooksMatchRegistrar, CycleInOrder, NoNewer, SuccessMeansSwept,
         Served, AddressIn, Address, cluster, caches, books, report
<1>3. Covered' /\ GoneIsGone'
  BY KeyTask DEF AccountKnown, Covered, GoneIsGone, CycleInOrder, Ended, cluster, books
<1> QED
  BY <1>1, <1>2, <1>3

\* A page is read: what should run of it goes on to be described.
LEMMA ListInv == ASSUME IInv, NEW page \in SUBSET pages, ListTasks(page) PROVE IInv'
<1> USE DEF IInv
<1>1. TypeOK'
  BY DEF ListTasks, TypeOK, Steps, cluster, caches, books, report
<1>2. BooksMatchRegistrar' /\ CycleInOrder' /\ NoNewer' /\ SuccessMeansSwept'
  BY DEF ListTasks, BooksMatchRegistrar, CycleInOrder, NoNewer, SuccessMeansSwept,
         Served, AddressIn, Address, cluster, caches, books, report
<1>3. Covered' /\ GoneIsGone'
  BY KeyTask DEF ListTasks, Covered, GoneIsGone, Served, Ended, cluster, books
<1> QED
  BY <1>1, <1>2, <1>3

\* A batch is described: what runs of it is in hand, with its address of now.
LEMMA DescribeInv == ASSUME IInv, NEW batch \in SUBSET arns, DescribeTasks(batch) PROVE IInv'
<1> USE DEF IInv
<1>1. /\ pc = "describe" /\ pc' = "task" /\ arns' = arns \ batch
      /\ DOMAIN described' = {u \in batch : Runs(u)}
      /\ \A u \in DOMAIN described' : described'[u] = where[u]
      /\ UNCHANGED <<cluster, resolved, caches, books, report, pages, todo, seen, goneBefore>>
  BY DEF DescribeTasks
<1>2. TypeOK'
  BY <1>1 DEF TypeOK, Steps, cluster, caches, books, report
<1>3. BooksMatchRegistrar' /\ CycleInOrder' /\ SuccessMeansSwept'
  BY <1>1 DEF TypeOK, BooksMatchRegistrar, CycleInOrder, SuccessMeansSwept, caches, books, report
<1>4. NoNewer'
  <2>1. \A u \in DOMAIN described' : u \in Tasks /\ status'[u] # "pending" /\ described'[u] <= where'[u]
    BY <1>1, BoundsAssumption DEF TypeOK, Runs, cluster, Addrs, NoAddr
  <2>2. \A k \in Keys : k[1] \in DOMAIN described' => AddressIn(k, described') = AddressIn(k, where)
    BY <1>1 DEF AddressIn, ModeOf
  <2> QED
    BY <1>1, <2>1, <2>2 DEF NoNewer, Served, AddressIn, Address, cluster, caches, books
<1>5. Covered' /\ GoneIsGone'
  BY <1>1, KeyTask DEF TypeOK, NoNewer, Covered, GoneIsGone, CycleInOrder, Pending, Served,
                       Ended, Runs, Status, cluster, books
<1> QED
  BY <1>2, <1>3, <1>4, <1>5

\* A task's definition is had, and its labelled containers are taken in hand; a
\* task without any is done.
LEMMA TaskDefinitionInv == ASSUME IInv, NEW t \in Tasks, TaskDefinition(t) PROVE IInv'
<1> USE DEF IInv
<1> DEFINE keys == {k \in Keys : k[1] = t}
<1>1. /\ pc = "task" /\ t \in DOMAIN described /\ todo = {}
      /\ taskDefs' = taskDefs \cup {taskDef[t]}
      /\ todo' = keys
      /\ pc' = (IF keys = {} THEN "task" ELSE "apply")
      /\ DOMAIN described' = (IF keys = {} THEN DOMAIN described \ {t} ELSE DOMAIN described)
      /\ \A u \in DOMAIN described' : described'[u] = described[u]
      /\ UNCHANGED <<cluster, resolved, hostIPs, books, report, pages, arns, seen, goneBefore>>
  BY DEF TaskDefinition, Remaining, Without, TypeOK
<1>2. TypeOK'
  BY <1>1 DEF TypeOK, Steps, Defs, cluster, books, report
<1>3. BooksMatchRegistrar' /\ CycleInOrder' /\ SuccessMeansSwept'
  BY <1>1 DEF TypeOK, BooksMatchRegistrar, CycleInOrder, SuccessMeansSwept, books, report
<1>4. NoNewer'
  <2>1. \A k \in Keys : k[1] \in DOMAIN described' =>
          k[1] \in DOMAIN described /\ Address(k)' = Address(k)
    BY <1>1 DEF AddressIn, Address, ModeOf
  <2> QED
    BY <1>1, <2>1 DEF NoNewer, Served, AddressIn, cluster, books
<1>5. Covered' /\ GoneIsGone'
  BY <1>1 DEF Covered, GoneIsGone, Pending, Served, Ended, cluster, books
<1> QED
  BY <1>2, <1>3, <1>4, <1>5

\* A definition that cannot be had is of a task no container of which was ever
\* registered: what was registered had its definition cached.
LEMMA TaskDefinitionFailsInv == ASSUME IInv, NEW t \in Tasks, TaskDefinitionFails(t) PROVE IInv'
<1> USE DEF IInv
<1>1. /\ pc = "task" /\ t \in DOMAIN described /\ todo = {}
      /\ taskDef[t] \notin taskDefs
      /\ DOMAIN described' = DOMAIN described \ {t}
      /\ \A u \in DOMAIN described' : described'[u] = described[u]
      /\ UNCHANGED <<cluster, resolved, caches, books, report, pc, pages, arns, todo, seen,
                     goneBefore>>
  BY DEF TaskDefinitionFails, Without, TypeOK
<1>2. TypeOK'
  BY <1>1 DEF TypeOK, cluster, caches, books, report
<1>3. BooksMatchRegistrar' /\ CycleInOrder' /\ SuccessMeansSwept'
  BY <1>1 DEF TypeOK, BooksMatchRegistrar, CycleInOrder, SuccessMeansSwept, caches, books, report
<1>4. NoNewer'
  <2>1. \A k \in Keys : k[1] \in DOMAIN described' =>
          k[1] \in DOMAIN described /\ Address(k)' = Address(k)
    BY <1>1 DEF AddressIn, Address, ModeOf
  <2> QED
    BY <1>1, <2>1 DEF NoNewer, Served, AddressIn, cluster, caches, books
<1>5. Covered' /\ GoneIsGone'
  BY <1>1 DEF Covered, GoneIsGone, NoNewer, Pending, Served, Ended, cluster, books
<1> QED
  BY <1>2, <1>3, <1>4, <1>5

\* applyTask on one container: it is seen, and what changes in the books is its
\* own entry, which becomes its address or nothing.
LEMMA ApplyInv ==
    ASSUME IInv, NEW k \in Keys,
           Unresolved(k) \/ AlreadyServing(k) \/ Registers(k) \/ RegisterFails(k)
    PROVE  IInv'
<1> USE DEF IInv
<1>1. /\ pc = "apply" /\ k \in todo
      /\ k[1] \in DOMAIN described /\ taskDef[k[1]] \in taskDefs
      /\ seen' = seen \cup {k}
      /\ todo' = todo \ {k}
      /\ pc' = (IF todo' = {} THEN "task" ELSE "apply")
      /\ DOMAIN described' =
            (IF todo' = {} THEN DOMAIN described \ {k[1]} ELSE DOMAIN described)
      /\ \A u \in DOMAIN described' : described'[u] = described[u]
      /\ UNCHANGED <<cluster, resolved, taskDefs, report, pages, arns, goneBefore>>
  BY DEF Unresolved, AlreadyServing, Registers, RegisterFails, Observe, Remaining, Without,
         CycleInOrder
<1>2. hostIPs' \subseteq Instances
  BY KeyTask DEF Unresolved, AlreadyServing, Registers, RegisterFails, HostIPCached, TypeOK,
         Instances
<1>3. Address(k) \in Addrs \cup {NoAddr}
  BY <1>1, AddressType
<1>4. \/ UNCHANGED books
      \/ /\ pool' = [pool EXCEPT ![k] = Address(k)]
         /\ active' = [active EXCEPT ![k] = Address(k)]
         /\ failed' = failed \ {k}
      \/ /\ pool' = [pool EXCEPT ![k] = NoAddr]
         /\ active' = [active EXCEPT ![k] = NoAddr]
         /\ failed' = failed \cup {k}
  BY DEF Unresolved, AlreadyServing, Registers, RegisterFails
<1>5. TypeOK' /\ BooksMatchRegistrar'
  <2>1. /\ active' \in [Keys -> Addrs \cup {NoAddr}]
        /\ pool' \in [Keys -> Addrs \cup {NoAddr}]
        /\ failed' \subseteq Keys
    BY <1>3, <1>4 DEF TypeOK, books
  <2>2. BooksMatchRegistrar'
    BY <1>3, <1>4 DEF TypeOK, BooksMatchRegistrar, books
  <2> QED
    BY <1>1, <1>2, <2>1, <2>2 DEF TypeOK, Steps, cluster, report
<1>6. CycleInOrder' /\ SuccessMeansSwept'
  BY <1>1 DEF CycleInOrder, SuccessMeansSwept, report
<1>7. /\ \A l \in Keys : l # k => pool'[l] = pool[l]
      /\ pool'[k] \in {pool[k], Address(k), NoAddr}
  BY <1>3, <1>4 DEF TypeOK, books
<1>8. NoNewer'
  <2>1. \A l \in Keys : l[1] \in DOMAIN described' =>
          l[1] \in DOMAIN described /\ Address(l)' = Address(l)
    BY <1>1 DEF AddressIn, Address, ModeOf
  <2>2. Address(k) <= AddressIn(k, where)
    BY <1>1, <1>3, BoundsAssumption DEF NoNewer, AddressIn, Address, Addrs, NoAddr
  <2>3. Address(k) <= Address(k)
    BY <1>3, BoundsAssumption DEF Addrs, NoAddr
  <2>4. \A l \in Keys : AddressIn(l, where') = AddressIn(l, where)
    BY <1>1 DEF AddressIn, cluster
  <2>5. \A u \in DOMAIN described' : status'[u] # "pending" /\ described'[u] <= where'[u]
    BY <1>1 DEF NoNewer, cluster
  <2>6. ASSUME NEW l \in Keys, pool'[l] # NoAddr
        PROVE  /\ taskDef[l[1]] \in taskDefs'
               /\ status'[l[1]] # "pending"
               /\ pool'[l] <= AddressIn(l, where)
               /\ l[1] \in DOMAIN described' => pool'[l] <= Address(l)
    <3>1. CASE l # k \/ pool'[l] = pool[l]
      BY <1>1, <1>7, <2>1, <2>6, <3>1 DEF NoNewer, Served, cluster
    <3>2. CASE l = k /\ pool'[l] = Address(k)
      BY <1>1, <2>2, <2>3, <3>2 DEF NoNewer, cluster
    <3> QED
      BY <1>7, <2>6, <3>1, <3>2
  <2> QED
    BY <2>1, <2>4, <2>5, <2>6 DEF NoNewer, Served
<1>9. Covered'
  <2> SUFFICES ASSUME NEW l \in Keys, pool'[l] # NoAddr, ~Ended(l[1])
               PROVE  l[1] \in arns \/ l \in seen' \/ Pending(l)'
    BY <1>1 DEF Covered, Served, Ended, cluster
  <2>1. CASE l = k
    BY <1>1, <2>1
  <2>2. CASE l # k
    BY <1>1, <1>7, <2>2 DEF Covered, CycleInOrder, Served, Pending
  <2> QED
    BY <2>1, <2>2
<1>10. GoneIsGone'
  BY <1>1 DEF GoneIsGone, Ended, cluster
<1> QED
  BY <1>5, <1>6, <1>8, <1>9, <1>10

\* removeMissing keeps what was seen and nothing else, of the books and of the
\* registrations alike.
LEMMA RemoveMissingInv == ASSUME IInv, RemoveMissing PROVE IInv'
<1> USE DEF IInv
<1>1. TypeOK'
  BY DEF RemoveMissing, TypeOK, CycleInOrder, Steps, cluster, caches
<1>2. /\ BooksMatchRegistrar'
      /\ \A k \in Keys : pool'[k] # NoAddr => k \in seen /\ pool'[k] = pool[k]
  BY DEF RemoveMissing, TypeOK, BooksMatchRegistrar
<1>3. CycleInOrder' /\ Covered' /\ GoneIsGone'
  BY DEF RemoveMissing, TypeOK, CycleInOrder, Covered, GoneIsGone, Ended, cluster, caches
<1>4. NoNewer'
  BY <1>2 DEF RemoveMissing, NoNewer, Served, AddressIn, Address, cluster, caches
<1>5. SuccessMeansSwept'
  BY <1>2 DEF RemoveMissing, GoneIsGone, SuccessMeansSwept
<1> QED
  BY <1>1, <1>2, <1>3, <1>4, <1>5

\* Every step of the cluster and of the watcher keeps the invariant.
LEMMA NextInv == IInv /\ [Next]_vars => IInv'
<1>1. IInv /\ UNCHANGED vars => IInv'
  BY DEF IInv, vars, TypeOK, BooksMatchRegistrar, CycleInOrder, NoNewer, Covered, GoneIsGone,
         SuccessMeansSwept, Served, Pending, Ended, AddressIn, Address, cluster, caches, books,
         report, locals
<1> QED
  BY <1>1, ClusterInv, RunInv, AccountInv, ListInv, DescribeInv, TaskDefinitionInv,
     TaskDefinitionFailsInv, ApplyInv, RemoveMissingInv
  DEF Next, WatcherStep

\* The inductive invariant holds throughout.
THEOREM InductiveInvariant == Spec => []IInv
BY InitInv, NextInv, PTL DEF Spec

-----------------------------------------------------------------------------

\* What the watcher believes is served is what the registrar serves, and a
\* failing key is not served, through every failure of a cycle (applyTask,
\* removeMissing).
THEOREM BooksAreTrue == Spec => []BooksMatchRegistrar
<1>1. IInv => BooksMatchRegistrar
  BY DEF IInv
<1> QED
  BY <1>1, InductiveInvariant, PTL

\* A cycle that reports success has swept every task that had ended when it
\* began (cycle, removeMissing).
THEOREM SuccessSweeps == Spec => []SuccessMeansSwept
<1>1. IInv => SuccessMeansSwept
  BY DEF IInv
<1> QED
  BY <1>1, InductiveInvariant, PTL

\* A backend goes out of service only because its task has ended or has moved:
\* removeMissing takes only what ended, since what still runs is seen or its
\* definition is cached; applyTask takes only what moved (cycle, applyTask).
THEOREM OutagesDropNothing == Spec => OutageDropsNothing
<1>1. ASSUME IInv, [Next]_vars, NEW k \in Keys, pool[k] # NoAddr, pool'[k] = NoAddr
      PROVE Ended(k[1]) \/ pool[k] # AddressIn(k, where)
  <2> USE DEF IInv
  <2>1. RemoveMissing \/ \E l \in Keys : Registers(l) \/ RegisterFails(l)
    BY <1>1 DEF Next, ClusterStep, Ages, Move, WatcherStep, Wake, Cancelled, CycleFails,
                AccountKnown, AccountFails, ListTasks, ListFails, DescribeTasks, DescribeFails,
                TaskDefinition, TaskDefinitionFails, NextBatch, Unresolved, AlreadyServing,
                books, vars
  <2>2. CASE RemoveMissing
    BY <1>1, <2>2 DEF RemoveMissing, Covered, CycleInOrder, Pending, Served, TypeOK
  <2>3. ASSUME NEW l \in Keys, Registers(l) \/ RegisterFails(l)
        PROVE  pool[k] # AddressIn(k, where)
    <3>1. k = l
      BY <1>1, <2>3 DEF Registers, RegisterFails, TypeOK
    <3>2. k[1] \in DOMAIN described /\ pool[k] # Address(k)
      BY <1>1, <2>3, <3>1
      DEF Registers, RegisterFails, Observe, CycleInOrder, BooksMatchRegistrar
    <3>3. pool[k] <= Address(k) /\ Address(k) <= AddressIn(k, where)
      BY <1>1, <3>2, AddressType, BoundsAssumption
      DEF NoNewer, Served, AddressIn, Address, Addrs, NoAddr
    <3>4. /\ pool[k] \in Nat /\ Address(k) \in Nat /\ AddressIn(k, where) \in Nat
      BY <1>1, <3>2, AddressType, BoundsAssumption DEF TypeOK, Addrs, NoAddr
    <3> QED
      BY <3>2, <3>3, <3>4
  <2> QED
    BY <2>1, <2>2, <2>3
<1>2. IInv /\ [Next]_vars =>
        [\A k \in Keys : pool[k] # NoAddr /\ pool'[k] = NoAddr =>
             Ended(k[1]) \/ pool[k] # AddressIn(k, where)]_vars
  BY <1>1
<1> QED
  BY <1>2, InductiveInvariant, PTL DEF Spec, OutageDropsNothing

\* A key is put in service only at an address its task has had, later than any it
\* is served at, and only if its task had not ended when the cycle began: no
\* description that was overtaken by the cluster brings back an address that was
\* replaced or a task that was swept (applyTask, resolveBackend).
ServesForward ==
    [][\A k \in Keys :
          pool'[k] \notin {NoAddr, pool[k]} =>
             /\ k[1] \notin goneBefore
             /\ status[k[1]] # "pending"
             /\ pool[k] < pool'[k]
             /\ pool'[k] <= AddressIn(k, where)]_vars

\* What is registered is in hand, so it is described in this cycle and no older
\* than what is served (applyTask).
THEOREM RegistersForward == Spec => ServesForward
<1>1. ASSUME IInv, [Next]_vars, NEW k \in Keys, pool'[k] \notin {NoAddr, pool[k]}
      PROVE  /\ k[1] \notin goneBefore /\ status[k[1]] # "pending"
             /\ pool[k] < pool'[k] /\ pool'[k] <= AddressIn(k, where)
  <2> USE DEF IInv
  <2>1. \E l \in Keys : Registers(l)
    BY <1>1 DEF Next, ClusterStep, Ages, Move, WatcherStep, Wake, Cancelled, CycleFails,
                AccountKnown, AccountFails, ListTasks, ListFails, DescribeTasks, DescribeFails,
                TaskDefinition, TaskDefinitionFails, NextBatch, Unresolved, AlreadyServing,
                RegisterFails, RemoveMissing, TypeOK, books, vars
  <2>2. Registers(k)
    BY <1>1, <2>1 DEF Registers, TypeOK
  <2>3. /\ pc = "apply" /\ k[1] \in DOMAIN described
        /\ pool'[k] = Address(k) /\ pool[k] # Address(k)
    BY <1>1, <2>2 DEF Registers, Observe, CycleInOrder, BooksMatchRegistrar, TypeOK
  <2>4. k[1] \notin goneBefore /\ status[k[1]] # "pending"
    BY <1>1, <2>3 DEF GoneIsGone, NoNewer
  <2>5. pool[k] = NoAddr \/ pool[k] <= Address(k)
    BY <1>1, <2>3 DEF NoNewer, Served
  <2>6. Address(k) <= AddressIn(k, where)
    BY <1>1, <2>3, BoundsAssumption DEF NoNewer, AddressIn, Address
  <2>7. pool[k] \in Nat /\ Address(k) \in Nat
    BY <1>1, <2>3, AddressType, BoundsAssumption DEF TypeOK, Addrs, NoAddr
  <2> QED
    BY <1>1, <2>3, <2>4, <2>5, <2>6, <2>7 DEF NoAddr
<1>2. IInv /\ [Next]_vars =>
        [\A k \in Keys : pool'[k] \notin {NoAddr, pool[k]} =>
             /\ k[1] \notin goneBefore
             /\ status[k[1]] # "pending"
             /\ pool[k] < pool'[k]
             /\ pool'[k] <= AddressIn(k, where)]_vars
  BY <1>1
<1> QED
  BY <1>2, InductiveInvariant, PTL DEF Spec, ServesForward
=============================================================================
