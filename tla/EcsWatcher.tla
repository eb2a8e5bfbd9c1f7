----------------------------- MODULE EcsWatcher -----------------------------
(***************************************************************************)
(* ecs.Watcher (src/ecs/watcher.go) with its two caches (cache.go) and its   *)
(* backend resolution (resolve.go): one goroutine that polls an ECS cluster, *)
(* compares what it finds with what it has registered, and tells the         *)
(* registrar of the difference.                                             *)
(*                                                                         *)
(* A cycle is many calls: tasks start, move and stop between the pages of a  *)
(* listing, between the listing and the descriptions, and after them; and    *)
(* every call may fail.  The registrar is proxy.Manager by its contract.     *)
(***************************************************************************)
EXTENDS Naturals, FiniteSets

CONSTANTS
    Tasks,
    Names,       \* container names
    taskDef,     \* taskDef[t]: the task definition of task t
    labelled,    \* labelled[d]: the containers of d whose labels Parse accepts
    mode,        \* mode[d]: the network mode of d
    instance,    \* instance[t]: the container instance task t runs on
    BatchSize,   \* tasks per DescribeTasks call (100 in the code)
    MaxMoves     \* bound: how many addresses a task may have

ASSUME BoundsAssumption == BatchSize \in Nat \ {0} /\ MaxMoves \in Nat \ {0}

VARIABLES
    \* The cluster.
    status,      \* status[t]: where task t is in its life
    where,       \* where[t]: its network attachment or bindings, NoAddr if none
    \* The watcher between cycles.
    resolved,    \* the reader's account is known
    taskDefs,    \* taskDefCache: the definitions it holds
    hostIPs,     \* hostIPCache: the instances it holds
    active,      \* Watcher.active: the address registered for each key
    failed,      \* Watcher.failed: the keys whose last Register failed
    healthy,     \* the last cycle succeeded (Watcher.healthy, Reader's Healthy)
    lastError,   \* the Reader's LastError is set
    \* The cycle in progress.
    pc,
    pages,       \* the tasks the pages still to come are about
    arns,        \* the tasks listed and not yet described
    described,   \* the running tasks of the batch in hand, with their addresses
    todo,        \* the keys of the task in hand that are still to be applied
    seen,        \* the keys observed in this cycle
    goneBefore,  \* the tasks that had ended when the last cycle began (history)
    \* The registrar.
    pool         \* the address it has for each key

cluster == <<status, where>>
caches == <<taskDefs, hostIPs>>
books == <<active, failed, pool>>
report == <<healthy, lastError>>
locals == <<pages, arns, described, todo, seen>>
vars == <<cluster, resolved, caches, books, report, pc, locals, goneBefore>>

NoAddr == 0
Addrs == 1 .. MaxMoves
Defs == {taskDef[t] : t \in Tasks}
Instances == {instance[t] : t \in Tasks}
Status == {"pending", "running", "draining", "stopped"}
Steps == {"account", "list", "describe", "task", "apply", "sleep", "returned"}

\* registrationKey: a container of a task.
Keys == {k \in Tasks \X Names : k[2] \in labelled[taskDef[k[1]]]}

TypeOK ==
    /\ status \in [Tasks -> Status]
    /\ where \in [Tasks -> Addrs \cup {NoAddr}]
    /\ resolved \in BOOLEAN /\ healthy \in BOOLEAN /\ lastError \in BOOLEAN
    /\ healthy => ~lastError /\ resolved
    /\ taskDefs \subseteq Defs
    /\ hostIPs \subseteq Instances
    /\ active \in [Keys -> Addrs \cup {NoAddr}]
    /\ pool \in [Keys -> Addrs \cup {NoAddr}]
    /\ failed \subseteq Keys
    /\ pc \in Steps
    /\ pages \subseteq Tasks /\ arns \subseteq Tasks
    /\ goneBefore \subseteq Tasks
    /\ DOMAIN described \subseteq Tasks
    /\ \A t \in DOMAIN described : described[t] \in Addrs \cup {NoAddr}
    /\ todo \subseteq Keys /\ seen \subseteq Keys
    /\ todo # {} => pc = "apply"

\* A named reader needs no account; any other asked for it at start-up, and if
\* that failed its status says so (main.go, buildECSWatchers).
Init ==
    /\ status \in [Tasks -> {"pending", "running"}]
    /\ where = [t \in Tasks |-> NoAddr]
    /\ resolved \in BOOLEAN
    /\ lastError = ~resolved
    /\ healthy = FALSE
    /\ taskDefs = {}
    /\ hostIPs = {}
    /\ active = [k \in Keys |-> NoAddr]
    /\ pool = [k \in Keys |-> NoAddr]
    /\ failed = {}
    /\ pc = "account"
    /\ pages = {}
    /\ arns = {}
    /\ described = <<>>
    /\ todo = {}
    /\ seen = {}
    /\ goneBefore = {}

-----------------------------------------------------------------------------
(* The cluster.  A task that is told to stop is "draining": no longer listed *)
(* among the tasks that should run, though it runs still.                    *)

Ended(t) == status[t] \in {"draining", "stopped"}

Runs(t) == status[t] \in {"running", "draining"}

Ages(t, from, to) ==
    /\ status[t] = from
    /\ status' = [status EXCEPT ![t] = to]
    /\ UNCHANGED <<where, resolved, caches, books, report, pc, locals, goneBefore>>

\* The task gets its network, or a container of it restarts on another port.
Move(t) ==
    /\ Runs(t)
    /\ where[t] < MaxMoves
    /\ where' = [where EXCEPT ![t] = @ + 1]
    /\ UNCHANGED <<status, resolved, caches, books, report, pc, locals, goneBefore>>

ClusterStep ==
    \E t \in Tasks : \/ Ages(t, "pending", "running")
                     \/ Ages(t, "running", "draining")
                     \/ Ages(t, "draining", "stopped")
                     \/ Move(t)

-----------------------------------------------------------------------------
(* Run and reportCycle.                                                     *)

\* The sleep is over and the next cycle begins.
Wake ==
    /\ pc = "sleep"
    /\ pc' = "account"
    /\ goneBefore' = {t \in Tasks : Ended(t)}
    /\ UNCHANGED <<cluster, resolved, caches, books, report, locals>>

Cancelled ==
    /\ pc = "sleep"
    /\ pc' = "returned"
    /\ UNCHANGED <<cluster, resolved, caches, books, report, locals, goneBefore>>

\* A call of the cycle fails, and the cycle with it.  If the context was
\* cancelled the outcome is not reported, and Run returns.
CycleFails ==
    /\ \/ /\ pc' = "sleep"
          /\ healthy' = FALSE
          /\ lastError' = TRUE
       \/ /\ pc' = "returned"
          /\ UNCHANGED report
    /\ UNCHANGED <<cluster, resolved, caches, books, locals, goneBefore>>

-----------------------------------------------------------------------------
(* cycle: the account, the listing, the descriptions.                        *)

AccountKnown ==
    /\ pc = "account"
    /\ resolved' = TRUE
    /\ pages' = Tasks
    /\ arns' = {}
    /\ pc' = "list"
    /\ UNCHANGED <<cluster, caches, books, report, described, todo, seen, goneBefore>>

AccountFails ==
    /\ pc = "account"
    /\ ~resolved
    /\ CycleFails

\* Mutant of ListTasks: the keys seen by a cycle that failed count as seen.
ListTasksKeepsSeen(page) ==
    /\ pc = "list"
    /\ page # {}
    /\ arns' = arns \cup {t \in page : ~Ended(t)}
    /\ pages' = pages \ page
    /\ pc' = IF pages' = {} THEN "describe" ELSE "list"
    /\ UNCHANGED <<cluster, resolved, caches, books, report, described, todo, seen, goneBefore>>

\* Mutant of ListTasks: tasks are listed whatever their desired status.
ListTasksAll(page) ==
    /\ pc = "list"
    /\ page # {}
    /\ arns' = arns \cup page
    /\ pages' = pages \ page
    /\ seen' = {}
    /\ pc' = IF pages' = {} THEN "describe" ELSE "list"
    /\ UNCHANGED <<cluster, resolved, caches, books, report, described, todo, goneBefore>>

\* listAllTaskArns, a page at a time: the tasks of the page that should run now.
ListTasks(page) ==
    /\ pc = "list"
    /\ page # {}
    /\ arns' = arns \cup {t \in page : ~Ended(t)}
    /\ pages' = pages \ page
    /\ seen' = {}
    /\ pc' = IF pages' = {} THEN "describe" ELSE "list"
    /\ UNCHANGED <<cluster, resolved, caches, books, report, described, todo, goneBefore>>

ListFails ==
    /\ pc = "list"
    /\ CycleFails

\* One chunk, as it is now; only what runs is looked at further.
DescribeTasks(batch) ==
    /\ pc = "describe"
    /\ batch # {}
    /\ Cardinality(batch) =
          IF Cardinality(arns) < BatchSize THEN Cardinality(arns) ELSE BatchSize
    /\ arns' = arns \ batch
    /\ described' = [t \in {u \in batch : Runs(u)} |-> where[t]]
    /\ pc' = "task"
    /\ UNCHANGED <<cluster, resolved, caches, books, report, pages, todo, seen, goneBefore>>

DescribeFails ==
    /\ pc = "describe"
    /\ arns # {}
    /\ CycleFails

Without(t) == [u \in DOMAIN described \ {t} |-> described[u]]

\* With the last of its containers, a task is done.
Remaining(t, keys) ==
    /\ todo' = keys
    /\ pc' = IF keys = {} THEN "task" ELSE "apply"
    /\ described' = IF keys = {} THEN Without(t) ELSE described

\* taskDefCache.get: the API is asked on a miss only.
TaskDefinition(t) ==
    /\ pc = "task"
    /\ t \in DOMAIN described
    /\ taskDefs' = taskDefs \cup {taskDef[t]}
    /\ Remaining(t, {k \in Keys : k[1] = t})
    /\ UNCHANGED <<cluster, resolved, hostIPs, books, report, pages, arns, seen, goneBefore>>

\* Mutant of TaskDefinitionFails: nothing is cached, so any lookup may fail.
TaskDefinitionFailsCached(t) ==
    /\ pc = "task"
    /\ t \in DOMAIN described
    /\ described' = Without(t)
    /\ UNCHANGED <<cluster, resolved, caches, books, report, pc, pages, arns, todo, seen,
                   goneBefore>>

TaskDefinitionFails(t) ==
    /\ pc = "task"
    /\ t \in DOMAIN described
    /\ taskDef[t] \notin taskDefs
    /\ described' = Without(t)
    /\ UNCHANGED <<cluster, resolved, caches, books, report, pc, pages, arns, todo, seen,
                   goneBefore>>

NextBatch ==
    /\ pc = "task"
    /\ DOMAIN described = {}
    /\ pc' = "describe"
    /\ UNCHANGED <<cluster, resolved, caches, books, report, locals, goneBefore>>

-----------------------------------------------------------------------------
(* applyTask, a container at a time.                                         *)

\* A key is seen before its backend is resolved, and whether or not it is.
Observe(k) ==
    /\ pc = "apply"
    /\ k \in todo
    /\ seen' = seen \cup {k}
    /\ Remaining(k[1], todo \ {k})
    /\ UNCHANGED <<cluster, resolved, taskDefs, report, pages, arns, goneBefore>>

ModeOf(k) == mode[taskDef[k[1]]]

\* resolveBackend: in host mode the labelled port is the port, so the address
\* never changes; else it is in the task's attachment or binding.
AddressIn(k, network) == IF ModeOf(k) = "host" THEN 1 ELSE network[k[1]]

Address(k) == AddressIn(k, described)

OnHost(k) == ModeOf(k) \in {"bridge", "host"}

Resolvable(k) == ModeOf(k) \in {"awsvpc", "bridge", "host"} /\ Address(k) # NoAddr

\* hostIPCache.get: the API is asked on a miss only, and an answer is kept.
HostIPCached(k) ==
    hostIPs' = IF OnHost(k) THEN hostIPs \cup {instance[k[1]]} ELSE hostIPs

\* No attachment or binding yet, an unsupported mode, or no answer on the host.
Unresolved(k) ==
    /\ Observe(k)
    /\ Resolvable(k) => OnHost(k) /\ instance[k[1]] \notin hostIPs
    /\ UNCHANGED <<hostIPs, books>>

AlreadyServing(k) ==
    /\ Observe(k)
    /\ Resolvable(k)
    /\ active[k] = Address(k)
    /\ HostIPCached(k)
    /\ UNCHANGED books

\* The backend is new or has moved; one that moved was deregistered first.
Registers(k) ==
    /\ Observe(k)
    /\ Resolvable(k)
    /\ active[k] # Address(k)
    /\ HostIPCached(k)
    /\ active' = [active EXCEPT ![k] = Address(k)]
    /\ pool' = [pool EXCEPT ![k] = Address(k)]
    /\ failed' = failed \ {k}

\* Mutant of RegisterFails: the key is recorded active whatever Register said.
RegisterFailsRecorded(k) ==
    /\ Observe(k)
    /\ Resolvable(k)
    /\ active[k] # Address(k)
    /\ HostIPCached(k)
    /\ active' = [active EXCEPT ![k] = Address(k)]
    /\ pool' = [pool EXCEPT ![k] = NoAddr]
    /\ failed' = failed \cup {k}

RegisterFails(k) ==
    /\ Observe(k)
    /\ Resolvable(k)
    /\ active[k] # Address(k)
    /\ HostIPCached(k)
    /\ active' = [active EXCEPT ![k] = NoAddr]
    /\ pool' = [pool EXCEPT ![k] = NoAddr]
    /\ failed' = failed \cup {k}

-----------------------------------------------------------------------------

\* removeMissing, and the cycle has succeeded.
RemoveMissing ==
    /\ pc = "describe"
    /\ arns = {}
    /\ pool' = [k \in Keys |-> IF active[k] # NoAddr /\ k \notin seen THEN NoAddr ELSE pool[k]]
    /\ active' = [k \in Keys |-> IF k \in seen THEN active[k] ELSE NoAddr]
    /\ failed' = failed \cap seen
    /\ healthy' = TRUE
    /\ lastError' = FALSE
    /\ seen' = {}
    /\ pc' = "sleep"
    /\ UNCHANGED <<cluster, resolved, caches, pages, arns, described, todo, goneBefore>>

-----------------------------------------------------------------------------

WatcherStep ==
    \/ Wake
    \/ AccountKnown
    \/ AccountFails
    \/ \E page \in SUBSET pages : ListTasks(page)
    \/ ListFails
    \/ \E batch \in SUBSET arns : DescribeTasks(batch)
    \/ DescribeFails
    \/ \E t \in Tasks : TaskDefinition(t) \/ TaskDefinitionFails(t)
    \/ NextBatch
    \/ \E k \in Keys : Unresolved(k) \/ AlreadyServing(k) \/ Registers(k) \/ RegisterFails(k)
    \/ RemoveMissing

Next ==
    \/ ClusterStep
    \/ WatcherStep
    \/ Cancelled

Spec == Init /\ [][Next]_vars

\* The goroutine runs, and a call to AWS or to the registrar that is made again
\* and again succeeds at last: the last page of a listing, the last batch of a
\* description, the definition of a task, the registration of a key.
Fairness ==
    /\ WF_vars(WatcherStep)
    /\ SF_vars(AccountKnown)
    /\ SF_vars(ListTasks(pages))
    /\ SF_vars(\E batch \in SUBSET arns : DescribeTasks(batch))
    /\ SF_vars(DescribeTasks(arns))
    /\ \A t \in Tasks : SF_vars(TaskDefinition(t))
    /\ \A k \in Keys : SF_vars(Registers(k))

FairSpec == Spec /\ Fairness

-----------------------------------------------------------------------------

\* What the watcher believes is served is what the registrar serves, address
\* for address, and a key that is failing is not served: a key left in active
\* by a failed move would never be registered again.
BooksMatchRegistrar == active = pool /\ \A k \in failed : pool[k] = NoAddr

\* A key leaves its pool only because its task has ended or has moved: a
\* failure of any call to AWS, in any part of a cycle, takes no backend out of
\* service, though a task whose definition cannot be had is not marked as seen.
OutageDropsNothing ==
    [][\A k \in Keys :
          pool[k] # NoAddr /\ pool'[k] = NoAddr =>
             Ended(k[1]) \/ pool[k] # AddressIn(k, where)]_vars

\* When a cycle has succeeded, no backend is left of a task that had ended
\* before the cycle began, whatever failed on the way and however the pages and
\* batches interleaved with the cluster.
SuccessMeansSwept ==
    pc = "sleep" /\ healthy =>
        \A k \in Keys : k[1] \in goneBefore => pool[k] = NoAddr

\* Key k is served as the cluster says: not at all if its task has ended, and at
\* its address if its task runs and has a network.
Agrees(k) ==
    /\ Ended(k[1]) => pool[k] = NoAddr
    /\ status[k[1]] = "running" /\ where[k[1]] # NoAddr => pool[k] = AddressIn(k, where)

\* The watcher comes to agree with a cluster that comes to rest, though calls
\* fail on the way and the account be unknown at first.
Converges ==
    <>[](pc # "returned") /\ <>[][FALSE]_cluster => \A k \in Keys : <>[]Agrees(k)
=============================================================================
