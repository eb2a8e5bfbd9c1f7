------------------------------ MODULE MCManager ------------------------------
(***************************************************************************)
(* Small instances of Manager for TLC.                                      *)
(***************************************************************************)
EXTENDS ManagerRefinement, ManagerInvariant, TLC

CONSTANTS c1, c2, k1, k2, k3, s1, s2, r1, r2, r3

Label(s, scheme, caps) == [service |-> s, scheme |-> scheme, caps |-> caps]

\* One service, offered with capabilities that agree up to order and
\* repetition and with capabilities that do not.
OneService ==
    {Label(s1, "http", <<"a", "b">>), Label(s1, "http", <<"b", "a", "b">>),
     Label(s1, "http", <<"a">>)}

\* Two services.
PlainServices == {Label(s1, "http", <<>>), Label(s2, "http", <<>>)}

\* The watchers drive keys of their own.
TwoDrivers == (c1 :> {k1, k3}) @@ (c2 :> {k2})
PairDrivers == (c1 :> {k1}) @@ (c2 :> {k2})

\* Two readers of one cluster drive the same key.
SharedDrivers == (c1 :> {k1}) @@ (c2 :> {k1})

\* Except where the sharing is the point, each key has one driver.
ASSUME DriversAssumption == Drives # SharedDrivers => ExclusiveKeys

RecSymmetry == Permutations(Recs)
=============================================================================
