--------------------------- MODULE MCLambdaWatcher ---------------------------
(***************************************************************************)
(* A small instance of LambdaWatcher for TLC.                               *)
(***************************************************************************)
EXTENDS LambdaWatcher

CONSTANTS f1, f2, s1, s2, ca, cb, q1, q2

Tagged(s, caps, q) == [service |-> s, caps |-> caps, qualifier |-> q]

\* Two services, one of them with its caps in either order.
FewTags == {Tagged(s1, <<>>, q1),
            Tagged(s2, <<ca, cb>>, q2),
            Tagged(s2, <<cb, ca>>, q2)}
=============================================================================
