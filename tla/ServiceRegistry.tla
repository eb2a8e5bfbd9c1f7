--------------------------- MODULE ServiceRegistry ---------------------------
(***************************************************************************)
(* What proxy.Manager promises the discovery watchers, without locks,       *)
(* records or channels (the contract in the comments of RegisterHostPort,   *)
(* Deregister and Close, src/proxy/manager.go).                             *)
(*                                                                         *)
(* A service is dark, opening or lit.  A key is a member of a lit service   *)
(* or of none.  A service is darkened only when it has no member.           *)
(***************************************************************************)
CONSTANTS Keys, Services, NoService

VARIABLES
    status,  \* the state of each service's listener
    member,  \* the service each key is registered with
    closed   \* the registry has been shut down

vars == <<status, member, closed>>

TypeOK ==
    /\ status \in [Services -> {"dark", "opening", "lit"}]
    /\ member \in [Keys -> Services \cup {NoService}]
    /\ closed \in BOOLEAN

Init ==
    /\ status = [s \in Services |-> "dark"]
    /\ member = [k \in Keys |-> NoService]
    /\ closed = FALSE

Claim(s) ==
    /\ ~closed
    /\ status[s] = "dark"
    /\ status' = [status EXCEPT ![s] = "opening"]
    /\ UNCHANGED <<member, closed>>

Open(s) ==
    /\ status[s] = "opening"
    /\ \E new \in {"lit", "dark"} : status' = [status EXCEPT ![s] = new]
    /\ UNCHANGED <<member, closed>>

Join(k, s) ==
    /\ ~closed
    /\ member[k] = NoService
    /\ status[s] = "lit"
    /\ member' = [member EXCEPT ![k] = s]
    /\ UNCHANGED <<status, closed>>

Leave(k) ==
    /\ member[k] # NoService
    /\ member' = [member EXCEPT ![k] = NoService]
    /\ UNCHANGED <<status, closed>>

Darken(s) ==
    /\ status[s] = "lit"
    /\ \A k \in Keys : member[k] # s
    /\ status' = [status EXCEPT ![s] = "dark"]
    /\ UNCHANGED <<member, closed>>

Shutdown ==
    /\ ~closed
    /\ closed' = TRUE
    /\ member' = [k \in Keys |-> NoService]
    /\ UNCHANGED status

Next ==
    \/ \E s \in Services : Claim(s) \/ Open(s) \/ Darken(s)
    \/ \E k \in Keys : Leave(k) \/ \E s \in Services : Join(k, s)
    \/ Shutdown

Spec == Init /\ [][Next]_vars

\* A listener that is being opened is opened or given up, and a service that
\* stays without members is darkened: a withdrawal, an advertisement that lost
\* to a shutdown and the shutdown itself all finish.
Fairness ==
    \A s \in Services : WF_vars(Open(s)) /\ WF_vars(Darken(s))

FairSpec == Spec /\ Fairness
=============================================================================
