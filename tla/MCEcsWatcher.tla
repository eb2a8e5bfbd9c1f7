---------------------------- MODULE MCEcsWatcher ----------------------------
(***************************************************************************)
(* Small instances of EcsWatcher for TLC.                                   *)
(***************************************************************************)
EXTENDS EcsWatcher, TLC

CONSTANTS t1, t2, x, y, d1, d2, i1

OneHost == [t \in Tasks |-> i1]

\* Two tasks of one definition, which share both caches.
SharedDef == [t \in Tasks |-> d1]

\* Two tasks of their own definitions.
OwnDefs == (t1 :> d1) @@ (t2 :> d2)

OneEach == (d1 :> {x}) @@ (d2 :> {x})

TwoOfOne == d1 :> {x, y}

AwsvpcAndHost == (d1 :> "awsvpc") @@ (d2 :> "host")
Bridge == d1 :> "bridge"
=============================================================================
