-------------------------- MODULE ManagerRefinement --------------------------
(***************************************************************************)
(* Manager implements ServiceRegistry: what a watcher sees of the manager    *)
(* is an atomic registry of members and lit services.                       *)
(***************************************************************************)
EXTENDS Manager

\* A ListenService call for service s has been decided on and not answered.
Opening(s) ==
    \E c \in Callers : pc[c] \in {"listen", "listening"} /\ Name(target[c]) = s

\* What the registry calls the state of service s.
Status(s) ==
    IF HandlerInConfig(s) THEN "lit" ELSE IF Opening(s) THEN "opening" ELSE "dark"

Registry == INSTANCE ServiceRegistry
    WITH status <- [s \in Services |-> Status(s)],
         member <- byKey,
         closed <- shutdown

\* Every step of the manager is a step of the registry or changes nothing the
\* registry shows: a key is registered only while its listener is open, and a
\* listener is closed only when no key is registered with it.
RegistrySpec == Registry!Spec

\* The manager also keeps the registry's promises of progress: a service that
\* is left without members is withdrawn, and so is one claimed by a
\* registration that a shutdown overtook.
RegistryFairness == Registry!Fairness

=============================================================================
