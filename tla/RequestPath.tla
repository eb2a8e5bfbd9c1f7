----------------------------- MODULE RequestPath -----------------------------
(***************************************************************************)
(* One advertised service's requests on their way to its backends:          *)
(* metrics.Middleware around httputil.ReverseProxy, whose transport is       *)
(* poolTransport (src/proxy/reverseproxy.go) over a backendPool              *)
(* (src/proxy/pool.go), while discovery changes the pool.                    *)
(*                                                                         *)
(* Requests run concurrently and take no lock.  The pool's member slice and  *)
(* the round-robin position are two atomics, read one after the other.       *)
(***************************************************************************)
EXTENDS Integers, Sequences, FiniteSets, SequencesExt

CONSTANTS
    Reqs,        \* requests
    Backends,    \* backends that may be in the pool
    InitPools,   \* the pools there may be to begin with, by scheme
    Wrap,        \* the round-robin counter counts modulo Wrap (2^64)
    MaxChanges   \* bound: the number of changes discovery makes to the pool

ASSUME WrapAssumption == Wrap \in Nat \ {0}

ASSUME PoolAssumption ==
    /\ DOMAIN InitPools = {"http", "lambda"}
    /\ \A s \in DOMAIN InitPools : \A p \in InitPools[s] :
          p \in Seq(Backends) /\ IsInjective(p)

ASSUME ChangesAssumption == MaxChanges \in Nat

VARIABLES
    scheme,     \* the service's: "http" (or https), or "lambda"
    members,    \* backendPool.members: the current slice
    next,       \* backendPool.next
    changes,    \* the number of changes made to the pool so far
    pc,         \* the next step of each request
    body,       \* the requests that carry a body, so cannot be replayed
    cancelled,  \* the requests whose client has gone
    snap,       \* snap[q]: the slice q loaded
    start,      \* start[q]: the index q was assigned
    tried,      \* tried[q]: the number of attempts q has made
    reached,    \* reached[q]: how many of them a backend may have acted on
    lastErr,    \* lastErr[q]: where q's last error comes from
    hijacked,   \* the requests whose connection became a tunnel
    inflight,   \* tsserve_proxy_in_flight_requests
    wsOpen,     \* tsserve_proxy_open_websockets
    errors,     \* errors[q]: q's share of tsserve_proxy_backend_errors_total
    counted     \* counted[q]: q's share of tsserve_proxy_requests_total

poolVars == <<scheme, members, next, changes>>
walkVars == <<snap, start, tried, reached, lastErr>>
meters == <<inflight, wsOpen, errors, counted>>
vars == <<poolVars, pc, body, cancelled, walkVars, hijacked, meters>>

\* Why an attempt fails.  On the way: the connection or its TLS handshake fails
\* (dial), or what follows does (broken).  On tsserve's side, before anything is
\* sent (local): the body cannot be read or encoded, the client has gone, the call
\* of Invoke finds no credentials or cannot be signed, the proxy setting is no
\* URL.  By answer of the Lambda API or of the function: three codes that say it
\* did not run, any other code, an error the function returned, and a result that
\* is no response.
HttpCauses == {"dial", "broken", "local"}
ApiCodes == {"TooManyRequestsException", "ResourceNotFoundException",
             "AccessDeniedException", "OtherException"}
LambdaCauses == HttpCauses \cup ApiCodes \cup {"functionError", "badResult"}

Causes == IF scheme = "lambda" THEN LambdaCauses ELSE HttpCauses

\* Whether the backend may have acted on a request whose attempt failed so.
MayHaveRun(cause) ==
    cause \in {"broken", "OtherException", "functionError", "badResult"}

Steps == {"new", "load", "position", "attempt", "error", "copy", "switch",
          "tunnel", "panic", "finish", "done"}

TypeOK ==
    /\ scheme \in {"http", "lambda"}
    /\ members \in Seq(Backends)
    /\ next \in 0 .. Wrap - 1
    /\ changes \in 0 .. MaxChanges
    /\ pc \in [Reqs -> Steps]
    /\ body \subseteq Reqs
    /\ cancelled \subseteq Reqs
    /\ snap \in [Reqs -> Seq(Backends)]
    /\ start \in [Reqs -> Nat]
    /\ tried \in [Reqs -> Nat]
    /\ reached \in [Reqs -> Nat]
    /\ lastErr \in [Reqs -> {"none", "attempt", "local", "noBackend", "upgrade"}]
    /\ hijacked \subseteq Reqs
    /\ inflight \in Int
    /\ wsOpen \in Int
    /\ errors \in [Reqs -> Nat]
    /\ counted \in [Reqs -> Nat]

Init ==
    /\ scheme \in {"http", "lambda"}
    /\ members \in InitPools[scheme]
    /\ next = 0
    /\ changes = 0
    /\ pc = [q \in Reqs |-> "new"]
    /\ body = {}
    /\ cancelled = {}
    /\ snap = [q \in Reqs |-> <<>>]
    /\ start = [q \in Reqs |-> 0]
    /\ tried = [q \in Reqs |-> 0]
    /\ reached = [q \in Reqs |-> 0]
    /\ lastErr = [q \in Reqs |-> "none"]
    /\ hijacked = {}
    /\ inflight = 0
    /\ wsOpen = 0
    /\ errors = [q \in Reqs |-> 0]
    /\ counted = [q \in Reqs |-> 0]

GoTo(q, step) == pc' = [pc EXCEPT ![q] = step]

-----------------------------------------------------------------------------
(* Discovery changes the pool: backendPool.add and backendPool.remove, each  *)
(* publishing a fresh slice.                                                *)

\* The manager never adds to a pool it has emptied: that record is withdrawn.
AddBackend(b) ==
    /\ changes < MaxChanges
    /\ members # <<>>
    /\ b \notin Range(members)
    /\ members' = Append(members, b)
    /\ changes' = changes + 1
    /\ UNCHANGED <<scheme, next, pc, body, cancelled, walkVars, hijacked, meters>>

\* Keys are distinct, so the filter drops one member.
RemoveBackend(b) ==
    /\ changes < MaxChanges
    /\ \E i \in DOMAIN members : members[i] = b /\ members' = RemoveAt(members, i)
    /\ changes' = changes + 1
    /\ UNCHANGED <<scheme, next, pc, body, cancelled, walkVars, hijacked, meters>>

-----------------------------------------------------------------------------
(* Middleware lets the request in; RoundTrip asks the pool for a rotation.   *)

Arrive(q, hasBody) ==
    /\ pc[q] = "new"
    /\ inflight' = inflight + 1
    /\ body' = IF hasBody THEN body \cup {q} ELSE body
    /\ GoTo(q, "load")
    /\ UNCHANGED <<poolVars, cancelled, walkVars, hijacked, wsOpen, errors,
                   counted>>

\* The client goes away: the request's context is cancelled.
Cancel(q) ==
    /\ pc[q] \notin {"new", "done"}
    /\ q \notin cancelled
    /\ cancelled' = cancelled \cup {q}
    /\ UNCHANGED <<poolVars, pc, body, walkVars, hijacked, meters>>

LoadMembers(q) ==
    /\ pc[q] = "load"
    /\ snap' = [snap EXCEPT ![q] = members]
    /\ IF members = <<>>
       THEN /\ lastErr' = [lastErr EXCEPT ![q] = "noBackend"]
            /\ GoTo(q, "error")
       ELSE /\ GoTo(q, "position")
            /\ UNCHANGED lastErr
    /\ UNCHANGED <<poolVars, body, cancelled, start, tried, reached, hijacked,
                   meters>>

\* Mutant of TakePosition: the position is read and not advanced.
TakePositionOnly(q) ==
    /\ pc[q] = "position"
    /\ start' = [start EXCEPT ![q] = next % Len(snap[q])]
    /\ GoTo(q, "attempt")
    /\ UNCHANGED <<poolVars, body, cancelled, snap, tried, reached, lastErr,
                   hijacked, meters>>

TakePosition(q) ==
    /\ pc[q] = "position"
    /\ start' = [start EXCEPT ![q] = next % Len(snap[q])]
    /\ next' = (next + 1) % Wrap
    /\ GoTo(q, "attempt")
    /\ UNCHANGED <<scheme, members, changes, body, cancelled, snap, tried, reached,
                   lastErr, hijacked, meters>>

-----------------------------------------------------------------------------
(* The walk: attempt number tried[q] is in flight, against member            *)
(* Member(q, tried[q]).                                                     *)

\* The member that attempt number i of request q goes to.
Member(q, i) == snap[q][((start[q] + i) % Len(snap[q])) + 1]

\* Mutant of functionDidNotRun: every error of the Lambda API says so.
functionDidNotRunAnyCode(cause) == cause \in ApiCodes

\* Mutant of functionDidNotRun: a throttled call is taken for a failure.
functionDidNotRunButThrottled(cause) ==
    cause \in {"ResourceNotFoundException", "AccessDeniedException"}

functionDidNotRun(cause) ==
    cause \in {"TooManyRequestsException", "ResourceNotFoundException",
               "AccessDeniedException"}

\* The dialers and the invoker wrap these in a connectError.
isConnectError(cause) == cause = "dial" \/ functionDidNotRun(cause)

\* Mutant of Retries: nobody asks whether the client is still there.
RetriesForNobody(q, cause) ==
    /\ q \notin body
    /\ isConnectError(cause)

\* The walk goes on after an attempt that failed so.
Retries(q, cause) ==
    /\ q \notin body
    /\ isConnectError(cause)
    /\ q \notin cancelled

\* Mutant of MembersLeft: the walk goes one member too far.
MembersLeftOffByOne(q) == tried[q] < Len(snap[q])

\* There is a member after the one whose attempt is in flight.
MembersLeft(q) == tried[q] + 1 < Len(snap[q])

\* The error is an attemptError, of whichever cause.
AttemptFails(q, cause) ==
    /\ pc[q] = "attempt"
    /\ tried' = [tried EXCEPT ![q] = @ + 1]
    /\ reached' = IF MayHaveRun(cause) THEN [reached EXCEPT ![q] = @ + 1]
                  ELSE reached
    /\ errors' = [errors EXCEPT ![q] = @ + 1]
    /\ lastErr' = [lastErr EXCEPT ![q] = IF cause = "local" THEN "local"
                                         ELSE "attempt"]
    /\ GoTo(q, IF Retries(q, cause) /\ MembersLeft(q) THEN "attempt"
               ELSE "error")
    /\ UNCHANGED <<poolVars, body, cancelled, snap, start, hijacked, inflight,
                   wsOpen, counted>>

\* The backend answers, with a response to copy or by switching protocols.
AttemptSucceeds(q, answer) ==
    /\ pc[q] = "attempt"
    /\ tried' = [tried EXCEPT ![q] = @ + 1]
    /\ reached' = [reached EXCEPT ![q] = @ + 1]
    /\ lastErr' = [lastErr EXCEPT ![q] = "none"]
    /\ GoTo(q, answer)
    /\ UNCHANGED <<poolVars, body, cancelled, snap, start, hijacked, meters>>

\* The invoker answers 413 to a body over its cap, without invoking the function.
BodyTooLarge(q) ==
    /\ pc[q] = "attempt"
    /\ scheme = "lambda"
    /\ q \in body
    /\ tried' = [tried EXCEPT ![q] = @ + 1]
    /\ GoTo(q, "copy")
    /\ UNCHANGED <<poolVars, body, cancelled, snap, start, reached, lastErr,
                   hijacked, meters>>

-----------------------------------------------------------------------------
(* ReverseProxy delivers the response, or the error handler writes a 502.    *)

Copied(q) ==
    /\ pc[q] = "copy"
    /\ GoTo(q, "finish")
    /\ UNCHANGED <<poolVars, body, cancelled, walkVars, hijacked, meters>>

\* The response breaks off half way: ReverseProxy aborts the handler.
CopyFails(q) ==
    /\ pc[q] = "copy"
    /\ GoTo(q, "panic")
    /\ UNCHANGED <<poolVars, body, cancelled, walkVars, hijacked, meters>>

\* The client's connection is hijacked and spliced to the backend's.  The 101
\* that a function may answer has no connection to splice it to.
Hijack(q) ==
    /\ pc[q] = "switch"
    /\ scheme # "lambda"
    /\ hijacked' = hijacked \cup {q}
    /\ wsOpen' = wsOpen + 1
    /\ GoTo(q, "tunnel")
    /\ UNCHANGED <<poolVars, body, cancelled, walkVars, inflight, errors,
                   counted>>

\* The upgrade fails, before the hijack or after it.
UpgradeFails(q) ==
    /\ pc[q] \in {"switch", "tunnel"}
    /\ lastErr' = [lastErr EXCEPT ![q] = "upgrade"]
    /\ GoTo(q, "error")
    /\ UNCHANGED <<poolVars, body, cancelled, snap, start, tried, reached,
                   hijacked, meters>>

TunnelEnds(q) ==
    /\ pc[q] = "tunnel"
    /\ GoTo(q, "finish")
    /\ UNCHANGED <<poolVars, body, cancelled, walkVars, hijacked, meters>>

\* Mutant of ErrorHandler: the last failed attempt is counted again.
ErrorHandlerCountsAll(q) ==
    /\ pc[q] = "error"
    /\ errors' = [errors EXCEPT ![q] = @ + 1]
    /\ GoTo(q, "finish")
    /\ UNCHANGED <<poolVars, body, cancelled, walkVars, hijacked, inflight,
                   wsOpen, counted>>

ErrorHandler(q) ==
    /\ pc[q] = "error"
    /\ errors' = IF lastErr[q] \in {"attempt", "local"} THEN errors
                 ELSE [errors EXCEPT ![q] = @ + 1]
    /\ GoTo(q, "finish")
    /\ UNCHANGED <<poolVars, body, cancelled, walkVars, hijacked, inflight,
                   wsOpen, counted>>

\* The deferred calls of Middleware.
Deferred(q) ==
    /\ inflight' = inflight - 1
    /\ wsOpen' = IF q \in hijacked THEN wsOpen - 1 ELSE wsOpen
    /\ GoTo(q, "done")

Finish(q) ==
    /\ pc[q] = "finish"
    /\ Deferred(q)
    /\ counted' = [counted EXCEPT ![q] = @ + 1]
    /\ UNCHANGED <<poolVars, body, cancelled, walkVars, hijacked, errors>>

Unwind(q) ==
    /\ pc[q] = "panic"
    /\ Deferred(q)
    /\ UNCHANGED <<poolVars, body, cancelled, walkVars, hijacked, errors,
                   counted>>

-----------------------------------------------------------------------------

\* Steps of tsserve's own, which wait for nobody.
OwnStep(q) ==
    \/ LoadMembers(q)
    \/ TakePosition(q)
    \/ ErrorHandler(q)
    \/ Finish(q)
    \/ Unwind(q)

\* Steps that wait for a backend.
BackendStep(q) ==
    \/ \E cause \in Causes : AttemptFails(q, cause)
    \/ \E answer \in {"copy", "switch"} : AttemptSucceeds(q, answer)
    \/ BodyTooLarge(q)
    \/ Copied(q)
    \/ CopyFails(q)
    \/ Hijack(q)
    \/ UpgradeFails(q)
    \/ TunnelEnds(q)

Next ==
    \/ \E b \in Backends : AddBackend(b) \/ RemoveBackend(b)
    \/ \E q \in Reqs :
          \/ \E hasBody \in BOOLEAN : Arrive(q, hasBody)
          \/ Cancel(q)
          \/ OwnStep(q)
          \/ BackendStep(q)

Spec == Init /\ [][Next]_vars

\* A backend may take forever to answer: nothing bounds its response.  Only
\* once the client has gone does the cancelled context end the wait.
Fairness ==
    \A q \in Reqs : /\ WF_vars(OwnStep(q))
                    /\ WF_vars(q \in cancelled /\ BackendStep(q))

FairSpec == Spec /\ Fairness

-----------------------------------------------------------------------------

\* No request is replayed once a backend may have acted on it: however its
\* walk goes, whatever its errors say and however the pool changes meanwhile,
\* a backend acted on one attempt at most, and it was the last; a request with
\* a body, whose first attempt consumed it, was attempted once.
NeverReplayed ==
    \A q \in Reqs :
        /\ reached[q] <= 1
        /\ pc[q] = "attempt" => reached[q] = 0
        /\ q \in body => tried[q] <= 1

\* A walk stays in the slice it loaded and tries no member twice, wherever in
\* the rotation it started and though the pool has changed since.
NoMemberTwice ==
    \A q \in Reqs :
        /\ tried[q] <= Len(snap[q])
        /\ pc[q] = "attempt" => tried[q] < Len(snap[q])
        /\ \A i, j \in 0 .. tried[q] - 1 : Member(q, i) = Member(q, j) => i = j

\* A request that could be replayed and whose client is still there fails with
\* a 502, if its last attempt failed on the way or by an answer, only when every
\* member of the pool it saw was tried, or one may have acted on the request.  Not
\* so if the attempt failed in tsserve: that ends the walk wherever it is.
GivesUpOnlyWhenExhausted ==
    \A q \in Reqs :
        /\ pc[q] = "error" /\ lastErr[q] = "attempt"
        /\ q \notin body \cup cancelled
        => reached[q] = 1 \/ tried[q] = Len(snap[q])

\* What is counted for q: by the transport, each attempt that failed; by the
\* error handler, the errors that no attempt made; never by both.
ErrorsOf(q) ==
    CASE lastErr[q] \in {"attempt", "local", "upgrade"} -> tried[q]
      [] lastErr[q] = "noBackend" -> 1
      [] lastErr[q] = "none" -> tried[q] - 1

\* The meters are what their names say, through retries, errors, hijacks and
\* aborted handlers: each failed attempt is counted once, and the in-flight and
\* open-websocket gauges are balanced.
MetersAreTrue ==
    LET live == {q \in Reqs : pc[q] \notin {"new", "done"}} IN
    /\ inflight = Cardinality(live)
    /\ wsOpen = Cardinality(live \cap hijacked)
    /\ \A q \in Reqs : pc[q] = "done" => errors[q] = ErrorsOf(q)

\* The requests that were assigned a member of the current pool.
Assigned(b) ==
    {q \in Reqs : /\ pc[q] \notin {"new", "load", "position"}
                  /\ snap[q] # <<>>
                  /\ Member(q, 0) = b}

\* While the pool does not change and the counter has not wrapped, requests are
\* spread evenly: no member is first choice two times more than another,
\* however the requests interleave between the two atomics of rotation.
EvenlySpread ==
    changes = 0 /\ Cardinality(Reqs) <= Wrap =>
        \A a, b \in Range(members) :
            Cardinality(Assigned(a)) <= Cardinality(Assigned(b)) + 1

\* A request whose client has gone ends, and if it is walking the pool then with
\* the attempt in flight: it makes no other, though there are members left and the
\* error of this one would let it.
AbandonedRequestsEnd ==
    /\ [][\A q \in cancelled : tried'[q] # tried[q] => pc'[q] # "attempt"]_vars
    /\ \A q \in Reqs : q \in cancelled ~> pc[q] = "done"
=============================================================================
