-------------------------- MODULE ManagerInvariant --------------------------
(***************************************************************************)
(* The inductive invariant behind Manager's safety properties, in the parts *)
(* the proofs treat one after the other.                                    *)
(***************************************************************************)
EXTENDS Manager

\* The steps of advertise, of closeFn, and of the withdrawal closeFn is part of.
AdvertiseSteps == {"listen", "listening", "abandon", "publish"}
CloseFnSteps == {"srvClose", "srvLock", "srvClosing", "lnLock", "lnClosing"}
WithdrawSteps == CloseFnSteps \cup {"withdrawn"}

Advertises(c, r) == pc[c] \in AdvertiseSteps /\ target[c] = r
TearsDown(t, r) == pc[t] \in WithdrawSteps /\ target[t] = r

\* serveMu is held by exactly the goroutine whose edit is in flight.
LockInv ==
    /\ \A t \in Threads :
          pc[t] \in {"listening", "srvClosing", "lnClosing"} <=> serveMu = t
    /\ \A r \in Recs : serve[r] = "closing" <=> serveMu = r

\* Callers and Main keep to their own steps; Close is what shuts down.
StepInv ==
    /\ pc[Main] \in {"idle", "closing", "done"} \cup CloseFnSteps
    /\ shutdown <=> pc[Main] # "idle"
    /\ pending # {} => shutdown /\ pc[Main] # "done"
    /\ \A c \in Callers :
          /\ pc[c] \notin {"closing", "done"}
          /\ pc[c] \in {"register", "waitAdvertised", "waitWithdrawing"}
                          \cup AdvertiseSteps =>
                key[c] \in Drives[c] /\ want[c] \in Defs
          /\ pc[c] \in AdvertiseSteps \cup WithdrawSteps =>
                target[c] \in Recs /\ def[target[c]] \in Defs
          /\ pc[c] \in {"waitAdvertised", "waitWithdrawing"} => target[c] \in Recs
    /\ pc[Main] \in CloseFnSteps => target[Main] \in Recs

\* A record no registration has claimed is untouched.
UnusedInv ==
    \A r \in Recs : def[r] = NoDef =>
        /\ advertised[r] = "nil" /\ withdrawing[r] = "nil" /\ ~ready[r]
        /\ pool[r] = {} /\ serve[r] = "none"
        /\ r \notin open \cup srvDown \cup pending

\* The life of a record: claimed, published, withdrawn; or claimed and given
\* up.  Each transition in flight belongs to one goroutine.
RecordInv ==
    \A r \in Recs :
        /\ advertised[r] = "open" <=> \E c \in Callers : Advertises(c, r)
        /\ withdrawing[r] = "open" <=>
              ready[r] /\ \E c \in Callers : TearsDown(c, r)
        /\ ready[r] => advertised[r] = "closed"
        /\ withdrawing[r] # "nil" => ready[r]
        /\ ~ready[r] => pool[r] = {} /\ serve[r] = "none"
        /\ ~ready[r] /\ r \in srvDown => advertised[r] = "closed"
        /\ withdrawing[r] # "nil" => pool[r] = {}
        /\ r \in pending => Serving(r) /\ r \notin srvDown
        /\ ~shutdown /\ Serving(r) => r \notin srvDown

\* The goroutine working on a record's transition, and what it may rely on.
OwnerInv ==
    /\ \A c, d \in Callers :
          target[c] = target[d] =>
             /\ pc[c] \in AdvertiseSteps /\ pc[d] \in AdvertiseSteps => c = d
             /\ pc[c] \in WithdrawSteps /\ pc[d] \in WithdrawSteps => c = d
    /\ \A c \in Callers :
          LET r == target[c] IN
          /\ pc[c] \in CloseFnSteps /\ ~ready[r] =>
                shutdown /\ advertised[r] = "closed"
          /\ pc[c] = "withdrawn" => ready[r] /\ r \notin open
          /\ pc[c] = "srvClose" => r \notin srvDown
          /\ pc[c] \in CloseFnSteps \ {"srvClose"} => r \in srvDown
          /\ pc[c] \in AdvertiseSteps => (r \in open <=> pc[c] = "publish")
    /\ pc[Main] \in CloseFnSteps =>
          Serving(target[Main]) /\ target[Main] \notin pending
    /\ pc[Main] = "srvClose" => target[Main] \notin srvDown
    /\ pc[Main] \in CloseFnSteps \ {"srvClose"} => target[Main] \in srvDown

\* r has been claimed, and neither given up nor withdrawn.
Claimed(r) ==
    advertised[r] = "open" \/ (ready[r] /\ withdrawing[r] # "closed")

\* r stands in the way of another listener for its service.
Occupies(r) == Claimed(r) \/ r \in open

\* At most one record occupies a name, and until shutdown it is the one in the
\* index.
OccupancyInv ==
    /\ \A s \in Services : index[s] # NoRec => Name(index[s]) = s
    /\ \A s \in Services : index[s] # NoRec => ~shutdown
    /\ ~shutdown => \A r \in Recs : Occupies(r) => index[Name(r)] = r
    /\ ~shutdown => \A s \in Services : index[s] # NoRec => Claimed(index[s])
    /\ \A q, r \in Recs :
          Occupies(q) /\ Occupies(r) /\ Name(q) = Name(r) => q = r

\* An open listener is being published, is serving, or is about to be closed;
\* a serving one is open unless its Accept failed.
ListenerAccounted(r) ==
    r \in open =>
        \/ \E c \in Callers : pc[c] = "publish" /\ target[c] = r
        \/ Serving(r) /\ (~shutdown \/ r \in pending)
        \/ \E t \in Threads : pc[t] \in CloseFnSteps /\ target[t] = r

ListenerUp(r) ==
    ~AcceptMayFail =>
        /\ serve[r] \in {"returning", "closing", "done"} => r \in srvDown
        /\ serve[r] \in {"spawned", "running"} => r \in open \cup srvDown
        /\ ~shutdown /\ Serving(r) => r \in open

ListenerInv == \A r \in Recs : ListenerAccounted(r) /\ ListenerUp(r)

\* Until shutdown a registered key is in the pool of the serving record its
\* service has in the index; after it no key is registered.
KeyInv ==
    \A k \in Keys : byKey[k] # NoService =>
        /\ ~shutdown
        /\ index[byKey[k]] # NoRec
        /\ Serving(index[byKey[k]])
        /\ k \in pool[index[byKey[k]]]

\* Until shutdown every member of a pool is registered with that service, a
\* serving record has a member, and a key whose registration succeeded is
\* registered.
PoolInv ==
    ~shutdown =>
        /\ \A r \in Recs : \A k \in pool[r] : byKey[k] = Name(r)
        /\ \A r \in Recs : Serving(r) => pool[r] # {}
        /\ \A k \in holds : byKey[k] # NoService

\* A registration still in progress has not been recorded by anyone.
ProgressInv ==
    \A c \in Callers : pc[c] \in AdvertiseSteps => byKey[key[c]] = NoService

\* The channel a registration waits on exists.
WaiterInv ==
    \A c \in Callers :
        /\ pc[c] = "waitAdvertised" => advertised[target[c]] # "nil"
        /\ pc[c] = "waitWithdrawing" => withdrawing[target[c]] # "nil"

\* The inductive invariant: every property of a record, lock or key that one
\* step of the manager relies on when another goroutine has run in between.
IInv ==
    /\ TypeOK
    /\ LockInv
    /\ StepInv
    /\ UnusedInv
    /\ RecordInv
    /\ OwnerInv
    /\ OccupancyInv
    /\ ListenerInv
    /\ KeyInv
    /\ PoolInv
    /\ ProgressInv
=============================================================================
