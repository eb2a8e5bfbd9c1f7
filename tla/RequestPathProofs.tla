--------------------------- MODULE RequestPathProofs ---------------------------
(***************************************************************************)
(* Proofs about RequestPath, for any requests, backends and pools, any wrap  *)
(* of the round-robin counter and any number of changes to the pool.         *)
(***************************************************************************)
EXTENDS RequestPath, SequenceTheorems, FiniteSetTheorems, TLAPS

\* No backend is twice in the pool, or in a slice a request has loaded.
PoolsDistinct == IsInjective(members) /\ \A q \in Reqs : IsInjective(snap[q])

\* Before a request has its position it has made no attempt; once it has, the
\* position is in its slice, and one more attempt is too.
WalkInOrder ==
    \A q \in Reqs :
        /\ pc[q] \in {"new", "load", "position"} => tried[q] = 0 /\ reached[q] = 0
        /\ pc[q] = "position" => snap[q] # <<>>
        /\ pc[q] = "attempt" \/ tried[q] > 0 => start[q] < Len(snap[q])
        /\ pc[q] = "attempt" => tried[q] < Len(snap[q])
        /\ tried[q] <= Len(snap[q])
        /\ pc[q] = "attempt" /\ q \in body => tried[q] = 0

IInv ==
    /\ TypeOK
    /\ PoolsDistinct
    /\ WalkInOrder
    /\ NeverReplayed
    /\ GivesUpOnlyWhenExhausted

-----------------------------------------------------------------------------

\* Removing a member leaves the others, once each (backendPool.remove).
LEMMA RemoveKeepsDistinct ==
    ASSUME NEW s \in Seq(Backends), IsInjective(s), NEW i \in DOMAIN s
    PROVE  RemoveAt(s, i) \in Seq(Backends) /\ IsInjective(RemoveAt(s, i))
<1> DEFINE a == SubSeq(s, 1, i - 1)
           b == SubSeq(s, i + 1, Len(s))
           t == a \o b
<1>1. i \in 1 .. Len(s) /\ Len(s) \in Nat /\ DOMAIN s = 1 .. Len(s)
  OBVIOUS
<1>2. a \in Seq(Backends) /\ Len(a) = i - 1 /\ \A k \in 1 .. i - 1 : a[k] = s[k]
  BY <1>1, SubSeqProperties
<1>3. b \in Seq(Backends) /\ Len(b) = Len(s) - i /\ \A k \in 1 .. Len(s) - i : b[k] = s[i + k]
  BY <1>1, SubSeqProperties
<1> HIDE DEF a, b
<1>4. /\ t \in Seq(Backends) /\ Len(t) = Len(a) + Len(b)
      /\ \A k \in 1 .. Len(a) + Len(b) : t[k] = IF k <= Len(a) THEN a[k] ELSE b[k - Len(a)]
  BY <1>2, <1>3, ConcatProperties
<1> HIDE DEF t
<1>5. /\ t \in Seq(Backends) /\ DOMAIN t = 1 .. Len(s) - 1
      /\ \A k \in 1 .. Len(s) - 1 : t[k] = IF k < i THEN s[k] ELSE s[k + 1]
  <2>1. Len(t) = Len(s) - 1
    BY <1>1, <1>2, <1>3, <1>4
  <2>2. ASSUME NEW k \in 1 .. Len(s) - 1 PROVE t[k] = IF k < i THEN s[k] ELSE s[k + 1]
    <3>1. CASE k < i
      BY <1>1, <1>2, <1>3, <1>4, <3>1
    <3>2. CASE k >= i
      <4>1. PICK m \in 1 .. Len(s) - i : m = k - Len(a) /\ i + m = k + 1
        <5>1. Len(a) = i - 1
          BY <1>2
        <5> QED
          BY <1>1, <3>2, <5>1
      <4>2. t[k] = b[m]
        <5>1. Len(a) = i - 1 /\ Len(b) = Len(s) - i
          BY <1>2, <1>3
        <5>2. k \in 1 .. Len(a) + Len(b) /\ ~(k <= Len(a))
          BY <1>1, <3>2, <5>1
        <5> QED
          BY <1>4, <4>1, <5>2
      <4>3. b[m] = s[k + 1]
        BY <1>3, <4>1
      <4> QED
        BY <1>1, <3>2, <4>2, <4>3
    <3> QED
      BY <1>1, <3>1, <3>2
  <2> QED
    BY <1>4, <2>1, <2>2
<1>6. IsInjective(t)
  <2> SUFFICES ASSUME NEW x \in DOMAIN t, NEW y \in DOMAIN t, t[x] = t[y] PROVE x = y
    BY DEF IsInjective
  <2>1. PICK u \in DOMAIN s : u = (IF x < i THEN x ELSE x + 1) /\ t[x] = s[u]
    BY <1>1, <1>5
  <2>2. PICK v \in DOMAIN s : v = (IF y < i THEN y ELSE y + 1) /\ t[y] = s[v]
    BY <1>1, <1>5
  <2>3. u = v
    BY <2>1, <2>2 DEF IsInjective
  <2> QED
    BY <1>1, <1>5, <2>1, <2>2, <2>3
<1> QED
  BY <1>5, <1>6 DEF RemoveAt, a, b, t

\* Appending a backend that is not there keeps a pool distinct (backendPool.add).
LEMMA AddKeepsDistinct ==
    ASSUME NEW s \in Seq(Backends), IsInjective(s), NEW b \in Backends, b \notin Range(s),
           NEW t, t = Append(s, b)
    PROVE  t \in Seq(Backends) /\ IsInjective(t)
<1>1. /\ t \in Seq(Backends) /\ DOMAIN t = 1 .. Len(s) + 1
      /\ \A i \in 1 .. Len(s) : t[i] = s[i]
      /\ t[Len(s) + 1] = b
      /\ Len(s) \in Nat /\ DOMAIN s = 1 .. Len(s)
  BY AppendProperties
<1>2. \A i \in 1 .. Len(s) : s[i] # b
  BY <1>1 DEF Range
<1>3. ASSUME NEW x \in 1 .. Len(s) + 1, NEW y \in 1 .. Len(s) + 1, t[x] = t[y] PROVE x = y
  <2>1. CASE x \in 1 .. Len(s) /\ y \in 1 .. Len(s)
    BY <1>1, <1>3, <2>1 DEF IsInjective
  <2>2. CASE x = Len(s) + 1 \/ y = Len(s) + 1
    BY <1>1, <1>2, <1>3, <2>2
  <2> QED
    BY <1>1, <2>1, <2>2
<1> QED
  BY <1>1, <1>3 DEF IsInjective

\* A position below twice the length wraps at most once.
LEMMA ModOnce ==
    ASSUME NEW n \in Nat \ {0}, NEW a \in Nat, a < 2 * n
    PROVE  a % n = IF a < n THEN a ELSE a - n
OBVIOUS

\* Two attempts of a walk no longer than its slice are at different places of it.
LEMMA PlacesDistinct ==
    ASSUME NEW n \in Nat \ {0}, NEW s \in 0 .. n - 1,
           NEW i \in 0 .. n - 1, NEW j \in 0 .. n - 1
    PROVE  /\ ((s + i) % n) + 1 \in 1 .. n
           /\ ((s + i) % n) + 1 = ((s + j) % n) + 1 => i = j
<1>1. PICK a \in Nat : a = s + i /\ a < 2 * n
  OBVIOUS
<1>2. PICK b \in Nat : b = s + j /\ b < 2 * n
  OBVIOUS
<1>3. /\ a % n = IF a < n THEN a ELSE a - n
      /\ b % n = IF b < n THEN b ELSE b - n
  BY <1>1, <1>2, ModOnce
<1>4. (a % n) + 1 \in 1 .. n /\ ((a % n) + 1 = (b % n) + 1 => i = j)
  BY <1>1, <1>2, <1>3
<1> QED
  BY <1>1, <1>2, <1>4

\* A walk tries no member of its slice twice (poolTransport.RoundTrip).
LEMMA WalkDistinct ==
    ASSUME IInv, NEW q \in Reqs, NEW i \in 0 .. tried[q] - 1, NEW j \in 0 .. tried[q] - 1,
           Member(q, i) = Member(q, j)
    PROVE  i = j
<1>1. tried[q] \in Nat /\ tried[q] > 0 /\ start[q] \in Nat /\ snap[q] \in Seq(Backends)
  BY DEF IInv, TypeOK
<1>2. PICK n \in Nat \ {0} : n = Len(snap[q]) /\ start[q] < n /\ tried[q] <= n
  BY <1>1 DEF IInv, WalkInOrder
<1>3. start[q] \in 0 .. n - 1 /\ i \in 0 .. n - 1 /\ j \in 0 .. n - 1 /\ DOMAIN snap[q] = 1 .. n
  BY <1>1, <1>2
<1>4. PICK s \in 0 .. n - 1 : s = start[q]
  BY <1>3
<1>5. PICK u \in 1 .. n : u = ((s + i) % n) + 1 /\ Member(q, i) = snap[q][u]
  BY <1>2, <1>3, <1>4, PlacesDistinct DEF Member
<1>6. PICK v \in 1 .. n : v = ((s + j) % n) + 1 /\ Member(q, j) = snap[q][v]
  BY <1>2, <1>3, <1>4, PlacesDistinct DEF Member
<1>7. u = v
  BY <1>3, <1>5, <1>6 DEF IInv, PoolsDistinct, IsInjective
<1> QED
  BY <1>3, <1>5, <1>6, <1>7, PlacesDistinct

-----------------------------------------------------------------------------

\* Requests start before any of them has loaded a slice.
LEMMA InitInv == Init => IInv
<1> SUFFICES ASSUME Init PROVE IInv
    OBVIOUS
<1>1. TypeOK
  <2>1. members \in Seq(Backends)
    BY PoolAssumption DEF Init
  <2>2. snap \in [Reqs -> Seq(Backends)]
    BY DEF Init
  <2> QED
    BY <2>1, <2>2, WrapAssumption, ChangesAssumption DEF Init, TypeOK, Steps
<1>2. PoolsDistinct
  BY PoolAssumption DEF Init, PoolsDistinct, IsInjective
<1>3. WalkInOrder /\ NeverReplayed /\ GivesUpOnlyWhenExhausted
  BY DEF Init, WalkInOrder, NeverReplayed, GivesUpOnlyWhenExhausted
<1> QED
  BY <1>1, <1>2, <1>3 DEF IInv

\* Discovery changes the pool, and no request notices.
LEMMA PoolInv == ASSUME IInv, NEW b \in Backends, AddBackend(b) \/ RemoveBackend(b) PROVE IInv'
<1> USE DEF IInv
<1>1. members' \in Seq(Backends) /\ IsInjective(members')
  <2>1. members \in Seq(Backends) /\ IsInjective(members)
    BY DEF TypeOK, PoolsDistinct
  <2>2. CASE AddBackend(b)
    BY <2>1, <2>2, AddKeepsDistinct DEF AddBackend
  <2>3. CASE RemoveBackend(b)
    BY <2>1, <2>3, RemoveKeepsDistinct DEF RemoveBackend
  <2> QED
    BY <2>2, <2>3
<1>2. changes' \in 0 .. MaxChanges
  BY ChangesAssumption DEF AddBackend, RemoveBackend, TypeOK
<1>3. UNCHANGED <<scheme, next, pc, body, cancelled, walkVars, hijacked, meters>>
  BY DEF AddBackend, RemoveBackend
<1>4. TypeOK' /\ PoolsDistinct'
  BY <1>1, <1>2, <1>3 DEF TypeOK, PoolsDistinct, walkVars, meters
<1>5. WalkInOrder' /\ NeverReplayed' /\ GivesUpOnlyWhenExhausted'
  BY <1>3 DEF WalkInOrder, NeverReplayed, GivesUpOnlyWhenExhausted, walkVars
<1> QED
  BY <1>4, <1>5

\* What the three invariants of the walk say of one request.
RequestInOrder(q) ==
    /\ pc[q] \in {"new", "load", "position"} => tried[q] = 0 /\ reached[q] = 0
    /\ pc[q] = "position" => snap[q] # <<>>
    /\ pc[q] = "attempt" \/ tried[q] > 0 => start[q] < Len(snap[q])
    /\ pc[q] = "attempt" => tried[q] < Len(snap[q]) /\ reached[q] = 0
    /\ tried[q] <= Len(snap[q])
    /\ reached[q] <= 1
    /\ q \in body => tried[q] <= 1 /\ (pc[q] = "attempt" => tried[q] = 0)
    /\ pc[q] = "error" /\ lastErr[q] = "attempt" /\ q \notin body \cup cancelled =>
          reached[q] = 1 \/ tried[q] = Len(snap[q])

WalkOf(q) == <<pc[q], snap[q], start[q], tried[q], reached[q], lastErr[q]>>

\* A step of request q that leaves it in order keeps the invariants of the walk:
\* the walks of the others are in variables of their own.
LEMMA OneRequest ==
    ASSUME IInv, NEW q \in Reqs, RequestInOrder(q)',
           UNCHANGED <<body, cancelled>>,
           \A p \in Reqs \ {q} : UNCHANGED WalkOf(p)
    PROVE  WalkInOrder' /\ NeverReplayed' /\ GivesUpOnlyWhenExhausted'
<1>1. ASSUME NEW p \in Reqs PROVE RequestInOrder(p)'
  <2>1. CASE p = q
    BY <2>1
  <2>2. CASE p # q
    <3>1. RequestInOrder(p)
      BY DEF IInv, WalkInOrder, NeverReplayed, GivesUpOnlyWhenExhausted, RequestInOrder
    <3> QED
      BY <2>2, <3>1 DEF RequestInOrder, WalkOf
  <2> QED
    BY <2>1, <2>2
<1> QED
  BY <1>1 DEF RequestInOrder, WalkInOrder, NeverReplayed, GivesUpOnlyWhenExhausted

\* A request arrives, or its client goes away.
LEMMA ClientInv ==
    ASSUME IInv, NEW q \in Reqs, Cancel(q) \/ \E hasBody \in BOOLEAN : Arrive(q, hasBody)
    PROVE  IInv'
<1> USE DEF IInv
<1>1. TypeOK' /\ PoolsDistinct'
  <2>1. pc' \in [Reqs -> Steps] /\ body' \subseteq Reqs /\ cancelled' \subseteq Reqs
    BY DEF Cancel, Arrive, GoTo, TypeOK, Steps
  <2>2. inflight' \in Int /\ UNCHANGED <<poolVars, walkVars, hijacked, wsOpen, errors, counted>>
    BY DEF Cancel, Arrive, TypeOK, meters
  <2> QED
    BY <2>1, <2>2 DEF TypeOK, PoolsDistinct, poolVars, walkVars
<1>2. WalkInOrder' /\ NeverReplayed' /\ GivesUpOnlyWhenExhausted'
  BY DEF Cancel, Arrive, GoTo, TypeOK, WalkInOrder, NeverReplayed, GivesUpOnlyWhenExhausted,
         walkVars
<1> QED
  BY <1>1, <1>2

\* rotation: the slice is loaded, then the position taken.
LEMMA RotationInv == ASSUME IInv, NEW q \in Reqs, LoadMembers(q) \/ TakePosition(q) PROVE IInv'
<1> USE DEF IInv
<1>1. CASE LoadMembers(q)
  <2>1. TypeOK' /\ PoolsDistinct'
    BY <1>1 DEF LoadMembers, GoTo, TypeOK, PoolsDistinct, Steps, poolVars, meters
  <2>2. WalkInOrder' /\ NeverReplayed' /\ GivesUpOnlyWhenExhausted'
    <3>1. /\ tried'[q] = 0 /\ reached'[q] = 0 /\ snap'[q] = members
          /\ \/ pc'[q] = "error" /\ lastErr'[q] = "noBackend"
             \/ pc'[q] = "position" /\ members # <<>>
      BY <1>1 DEF LoadMembers, GoTo, TypeOK, WalkInOrder
    <3>2. UNCHANGED <<body, cancelled>> /\ \A p \in Reqs \ {q} : UNCHANGED WalkOf(p)
      BY <1>1 DEF LoadMembers, GoTo, TypeOK, WalkOf
    <3>3. Len(members) \in Nat
      BY DEF TypeOK
    <3>4. RequestInOrder(q)'
      BY <3>1, <3>3 DEF RequestInOrder
    <3> QED
      BY <3>2, <3>4, OneRequest
  <2> QED
    BY <2>1, <2>2
<1>2. CASE TakePosition(q)
  <2>1. Len(snap[q]) \in Nat \ {0}
    BY <1>2 DEF TakePosition, TypeOK, WalkInOrder
  <2>2. next % Len(snap[q]) \in Nat /\ next % Len(snap[q]) < Len(snap[q])
    BY <2>1, WrapAssumption DEF TypeOK
  <2>3. (next + 1) % Wrap \in 0 .. Wrap - 1
    BY WrapAssumption DEF TypeOK
  <2>4. TypeOK' /\ PoolsDistinct'
    BY <1>2, <2>2, <2>3 DEF TakePosition, GoTo, TypeOK, PoolsDistinct, Steps, meters
  <2>5. WalkInOrder' /\ NeverReplayed' /\ GivesUpOnlyWhenExhausted'
    <3>1. /\ tried'[q] = 0 /\ reached'[q] = 0 /\ snap'[q] = snap[q]
          /\ pc'[q] = "attempt" /\ start'[q] = next % Len(snap[q])
      BY <1>2 DEF TakePosition, GoTo, TypeOK, WalkInOrder
    <3>2. UNCHANGED <<body, cancelled>> /\ \A p \in Reqs \ {q} : UNCHANGED WalkOf(p)
      BY <1>2 DEF TakePosition, GoTo, TypeOK, WalkOf
    <3>3. RequestInOrder(q)'
      BY <2>1, <2>2, <3>1 DEF RequestInOrder
    <3> QED
      BY <3>2, <3>3, OneRequest
  <2> QED
    BY <2>4, <2>5
<1> QED
  BY <1>1, <1>2

\* An attempt fails: the walk goes on only if no backend can have acted on the
\* request, and ends only if one may have, at the end of the slice, or because the
\* attempt failed in tsserve.
LEMMA AttemptFailsInv ==
    ASSUME IInv, NEW q \in Reqs, NEW cause \in Causes, AttemptFails(q, cause)
    PROVE  IInv'
<1> USE DEF IInv
<1>1. Retries(q, cause) => ~MayHaveRun(cause) /\ q \notin body /\ q \notin cancelled
  BY DEF Retries, isConnectError, functionDidNotRun, MayHaveRun
<1>2. q \notin body \cup cancelled /\ ~Retries(q, cause) => MayHaveRun(cause) \/ cause = "local"
  BY DEF Retries, isConnectError, functionDidNotRun, MayHaveRun, Causes,
         HttpCauses, LambdaCauses, ApiCodes
<1>3. TypeOK' /\ PoolsDistinct'
  <2>1. /\ pc' \in [Reqs -> Steps]
        /\ tried' \in [Reqs -> Nat]
        /\ errors' \in [Reqs -> Nat]
    <3>1. tried' = [tried EXCEPT ![q] = @ + 1] /\ errors' = [errors EXCEPT ![q] = @ + 1]
      BY DEF AttemptFails
    <3>2. tried' \in [Reqs -> Nat]
      BY <3>1 DEF TypeOK
    <3>3. errors' \in [Reqs -> Nat]
      BY <3>1 DEF TypeOK
    <3>4. pc' \in [Reqs -> Steps]
      BY DEF AttemptFails, GoTo, TypeOK, Steps
    <3> QED
      BY <3>2, <3>3, <3>4
  <2>2. reached' \in [Reqs -> Nat]
    <3>1. reached' = reached \/ reached' = [reached EXCEPT ![q] = @ + 1]
      BY DEF AttemptFails
    <3>2. CASE reached' = reached
      BY <3>2 DEF TypeOK
    <3>3. CASE reached' = [reached EXCEPT ![q] = @ + 1]
      BY <3>3 DEF TypeOK
    <3> QED
      BY <3>1, <3>2, <3>3
  <2>3. lastErr' \in [Reqs -> {"none", "attempt", "local", "noBackend", "upgrade"}]
    BY DEF AttemptFails, TypeOK
  <2>4. UNCHANGED <<poolVars, body, cancelled, snap, start, hijacked, inflight, wsOpen, counted>>
    BY DEF AttemptFails
  <2> QED
    BY <2>1, <2>2, <2>3, <2>4 DEF TypeOK, PoolsDistinct, poolVars
<1>4. WalkInOrder' /\ NeverReplayed' /\ GivesUpOnlyWhenExhausted'
  <2>1. UNCHANGED <<body, cancelled>> /\ \A p \in Reqs \ {q} : UNCHANGED WalkOf(p)
    BY DEF AttemptFails, GoTo, TypeOK, WalkOf
  <2>2. /\ start[q] < Len(snap[q]) /\ tried[q] < Len(snap[q]) /\ reached[q] = 0
        /\ q \in body => tried[q] = 0
        /\ Len(snap[q]) \in Nat /\ tried[q] \in Nat
    BY DEF AttemptFails, WalkInOrder, NeverReplayed, TypeOK
  <2>3. /\ snap'[q] = snap[q] /\ start'[q] = start[q]
        /\ tried'[q] = tried[q] + 1
        /\ reached'[q] = IF MayHaveRun(cause) THEN 1 ELSE 0
        /\ lastErr'[q] = IF cause = "local" THEN "local" ELSE "attempt"
        /\ pc'[q] = IF Retries(q, cause) /\ MembersLeft(q) THEN "attempt" ELSE "error"
    BY <2>2 DEF AttemptFails, GoTo, TypeOK
  <2>4. RequestInOrder(q)'
    <3>1. CASE Retries(q, cause) /\ MembersLeft(q)
      BY <1>1, <2>1, <2>2, <2>3, <3>1 DEF MembersLeft, RequestInOrder
    <3>2. CASE ~(Retries(q, cause) /\ MembersLeft(q))
      BY <1>2, <2>1, <2>2, <2>3, <3>2 DEF MembersLeft, RequestInOrder
    <3> QED
      BY <3>1, <3>2
  <2> QED
    BY <2>1, <2>4, OneRequest
<1> QED
  BY <1>3, <1>4

\* An attempt is answered, by the backend or for it.
LEMMA AnswerInv ==
    ASSUME IInv, NEW q \in Reqs,
           BodyTooLarge(q) \/ \E answer \in {"copy", "switch"} : AttemptSucceeds(q, answer)
    PROVE  IInv'
<1> USE DEF IInv
<1>1. PICK answer \in {"copy", "switch"} :
         /\ pc[q] = "attempt" /\ pc' = [pc EXCEPT ![q] = answer]
         /\ tried' = [tried EXCEPT ![q] = @ + 1]
         /\ reached' = reached \/ reached' = [reached EXCEPT ![q] = @ + 1]
         /\ lastErr' = lastErr \/ lastErr' = [lastErr EXCEPT ![q] = "none"]
         /\ UNCHANGED <<poolVars, body, cancelled, snap, start, hijacked, meters>>
  BY DEF BodyTooLarge, AttemptSucceeds, GoTo
<1>2. TypeOK' /\ PoolsDistinct'
  <2>1. pc' \in [Reqs -> Steps] /\ tried' \in [Reqs -> Nat]
    BY <1>1 DEF TypeOK, Steps
  <2>2. reached' \in [Reqs -> Nat]
    <3>1. CASE reached' = reached
      BY <3>1 DEF TypeOK
    <3>2. CASE reached' = [reached EXCEPT ![q] = @ + 1]
      BY <3>2 DEF TypeOK
    <3> QED
      BY <1>1, <3>1, <3>2
  <2>3. lastErr' \in [Reqs -> {"none", "attempt", "local", "noBackend", "upgrade"}]
    BY <1>1 DEF TypeOK
  <2> QED
    BY <1>1, <2>1, <2>2, <2>3 DEF TypeOK, PoolsDistinct, poolVars, meters
<1>3. WalkInOrder' /\ NeverReplayed' /\ GivesUpOnlyWhenExhausted'
  <2>1. UNCHANGED <<body, cancelled>> /\ \A p \in Reqs \ {q} : UNCHANGED WalkOf(p)
    <3>1. /\ pc \in [Reqs -> Steps] /\ tried \in [Reqs -> Nat] /\ reached \in [Reqs -> Nat]
          /\ lastErr \in [Reqs -> {"none", "attempt", "local", "noBackend", "upgrade"}]
      BY DEF TypeOK
    <3> QED
      BY <1>1, <3>1 DEF WalkOf
  <2>2. /\ start[q] < Len(snap[q]) /\ tried[q] < Len(snap[q]) /\ reached[q] = 0
        /\ q \in body => tried[q] = 0
        /\ Len(snap[q]) \in Nat /\ tried[q] \in Nat
    BY <1>1 DEF WalkInOrder, NeverReplayed, TypeOK
  <2>3. /\ snap'[q] = snap[q] /\ start'[q] = start[q]
        /\ tried'[q] = tried[q] + 1 /\ reached'[q] <= 1
        /\ pc'[q] = answer
    <3>1. pc \in [Reqs -> Steps] /\ tried \in [Reqs -> Nat] /\ reached \in [Reqs -> Nat]
      BY DEF TypeOK
    <3> QED
      BY <1>1, <2>2, <3>1
  <2>4. RequestInOrder(q)'
    BY <2>1, <2>2, <2>3 DEF RequestInOrder
  <2> QED
    BY <2>1, <2>4, OneRequest
<1> QED
  BY <1>2, <1>3

\* What follows the walk makes no attempt.
LEMMA AfterwardsInv ==
    ASSUME IInv, NEW q \in Reqs,
           \/ Copied(q) \/ CopyFails(q) \/ Hijack(q) \/ UpgradeFails(q) \/ TunnelEnds(q)
           \/ ErrorHandler(q) \/ Finish(q) \/ Unwind(q)
    PROVE  IInv'
<1> USE DEF IInv
<1> USE DEF Copied, CopyFails, Hijack, UpgradeFails, TunnelEnds, ErrorHandler, Finish, Unwind,
            Deferred, GoTo
<1>1. TypeOK'
  <2>1. pc' \in [Reqs -> Steps] /\ hijacked' \subseteq Reqs
    BY DEF TypeOK, Steps
  <2>2. inflight' \in Int /\ wsOpen' \in Int
    <3>1. inflight' = inflight \/ inflight' = inflight - 1
      BY DEF meters
    <3>2. wsOpen' = wsOpen \/ wsOpen' = wsOpen - 1 \/ wsOpen' = wsOpen + 1
      BY DEF meters
    <3>3. inflight \in Int /\ wsOpen \in Int
      BY DEF TypeOK
    <3> QED
      BY <3>1, <3>2, <3>3
  <2>3. errors' \in [Reqs -> Nat] /\ counted' \in [Reqs -> Nat]
    <3>1. errors' = errors \/ errors' = [errors EXCEPT ![q] = @ + 1]
      BY DEF meters
    <3>2. counted' = counted \/ counted' = [counted EXCEPT ![q] = @ + 1]
      BY DEF meters
    <3>3. errors' \in [Reqs -> Nat]
      <4>1. CASE errors' = errors
        BY <4>1 DEF TypeOK
      <4>2. CASE errors' = [errors EXCEPT ![q] = @ + 1]
        BY <4>2 DEF TypeOK
      <4> QED
        BY <3>1, <4>1, <4>2
    <3>4. counted' \in [Reqs -> Nat]
      <4>1. CASE counted' = counted
        BY <4>1 DEF TypeOK
      <4>2. CASE counted' = [counted EXCEPT ![q] = @ + 1]
        BY <4>2 DEF TypeOK
      <4> QED
        BY <3>2, <4>1, <4>2
    <3> QED
      BY <3>3, <3>4
  <2>4. lastErr' \in [Reqs -> {"none", "attempt", "local", "noBackend", "upgrade"}]
    BY DEF TypeOK, walkVars
  <2>5. UNCHANGED <<poolVars, body, cancelled, snap, start, tried, reached>>
    BY DEF walkVars
  <2> QED
    BY <2>1, <2>2, <2>3, <2>4, <2>5 DEF TypeOK, poolVars
<1>2. PoolsDistinct' /\ WalkInOrder'
  BY DEF TypeOK, PoolsDistinct, WalkInOrder, poolVars, walkVars
<1>3. NeverReplayed' /\ GivesUpOnlyWhenExhausted'
  BY DEF TypeOK, NeverReplayed, GivesUpOnlyWhenExhausted, poolVars, walkVars
<1> QED
  BY <1>1, <1>2, <1>3

\* Every step of discovery, clients, tsserve and backends keeps the invariant.
LEMMA NextInv == IInv /\ [Next]_vars => IInv'
<1>1. IInv /\ UNCHANGED vars => IInv'
  BY DEF IInv, vars, TypeOK, PoolsDistinct, WalkInOrder, NeverReplayed,
         GivesUpOnlyWhenExhausted, poolVars, walkVars, meters
<1> QED
  BY <1>1, PoolInv, ClientInv, RotationInv, AttemptFailsInv, AnswerInv, AfterwardsInv
  DEF Next, OwnStep, BackendStep

\* The inductive invariant holds throughout.
THEOREM InductiveInvariant == Spec => []IInv
BY InitInv, NextInv, PTL DEF Spec

-----------------------------------------------------------------------------

\* No request is replayed once a backend may have acted on it (RoundTrip,
\* isConnectError, functionDidNotRun).
THEOREM NoReplay == Spec => []NeverReplayed
<1>1. IInv => NeverReplayed
  BY DEF IInv
<1> QED
  BY <1>1, InductiveInvariant, PTL

\* A walk stays in its slice and tries no member twice, for a pool of any size
\* and wherever the counter stands or wraps (rotation, RoundTrip).
THEOREM WalkIsDistinct == Spec => []NoMemberTwice
<1>1. IInv => NoMemberTwice
  BY WalkDistinct DEF IInv, WalkInOrder, NoMemberTwice
<1> QED
  BY <1>1, InductiveInvariant, PTL

\* A request that could go on does not give up before the end of its slice
\* unless a backend may have acted on it or its attempt failed in tsserve itself
\* (RoundTrip).
THEOREM WalkIsExhaustive == Spec => []GivesUpOnlyWhenExhausted
<1>1. IInv => GivesUpOnlyWhenExhausted
  BY DEF IInv
<1> QED
  BY <1>1, InductiveInvariant, PTL

-----------------------------------------------------------------------------
(* The meters.                                                              *)

\* What has been counted, e, for a request at a step, with n attempts over and
\* a last error err: while the walk goes on every attempt has failed, and after
\* an answer only the error handler adds to the count.
Counted(step, e, n, err) ==
    /\ step \in {"new", "load", "position"} => e = 0 /\ err = "none"
    /\ step = "attempt" => e = n /\ (n = 0 => err = "none")
    /\ step \in {"copy", "switch", "tunnel", "panic"} => e = n - 1 /\ err = "none"
    /\ step = "error" => \/ err \in {"attempt", "local"} /\ e = n
                         \/ err = "upgrade" /\ e = n - 1
                         \/ err = "noBackend" /\ e = 0 /\ n = 0
    /\ step \in {"finish", "done"} => \/ err \in {"attempt", "local", "upgrade"} /\ e = n
                                      \/ err = "noBackend" /\ e = 1
                                      \/ err = "none" /\ e = n - 1

ErrorsSoFar == \A q \in Reqs : Counted(pc[q], errors[q], tried[q], lastErr[q])

\* The requests that are being handled, and those whose connection is a tunnel.
Live == {q \in Reqs : pc[q] \notin {"new", "done"}}
Tunnels == Live \cap hijacked

\* The gauges count them, and a connection is hijacked once.
GaugesSoFar ==
    /\ inflight = Cardinality(Live)
    /\ wsOpen = Cardinality(Tunnels)
    /\ \A q \in hijacked : pc[q] \in {"tunnel", "error", "finish", "done"}

\* A step of q that leaves the counts of the others alone.
LEMMA CountOfOne ==
    ASSUME IInv, ErrorsSoFar, NEW q \in Reqs, NEW step \in Steps,
           pc' = [pc EXCEPT ![q] = step],
           \A p \in Reqs \ {q} : /\ errors'[p] = errors[p] /\ tried'[p] = tried[p]
                                 /\ lastErr'[p] = lastErr[p],
           Counted(step, errors'[q], tried'[q], lastErr'[q])
    PROVE  ErrorsSoFar'
<1>1. pc'[q] = step /\ \A p \in Reqs \ {q} : pc'[p] = pc[p]
  BY DEF IInv, TypeOK
<1> QED
  BY <1>1 DEF ErrorsSoFar

\* ErrorsSoFar is preserved.
LEMMA ErrorsInduct ==
    ASSUME IInv, ErrorsSoFar, [Next]_vars
    PROVE  ErrorsSoFar'
<1>1. /\ pc \in [Reqs -> Steps] /\ errors \in [Reqs -> Nat] /\ tried \in [Reqs -> Nat]
      /\ lastErr \in [Reqs -> {"none", "attempt", "local", "noBackend", "upgrade"}]
  BY DEF IInv, TypeOK
<1>2. ASSUME UNCHANGED <<pc, errors, tried, lastErr>>
      PROVE  ErrorsSoFar'
  BY <1>2 DEF ErrorsSoFar
<1>3. ASSUME NEW q \in Reqs, NEW hasBody \in BOOLEAN, Arrive(q, hasBody)
      PROVE  ErrorsSoFar'
  <2>1. Counted("load", errors[q], tried[q], lastErr[q])
    BY <1>3 DEF Arrive, ErrorsSoFar, Counted
  <2> QED
    BY <1>3, <2>1, CountOfOne DEF Arrive, GoTo, walkVars, Steps
<1>4. ASSUME NEW q \in Reqs, LoadMembers(q)
      PROVE  ErrorsSoFar'
  <2>1. errors[q] = 0 /\ tried[q] = 0 /\ lastErr[q] = "none" /\ tried' = tried /\ errors' = errors
    BY <1>4 DEF LoadMembers, ErrorsSoFar, Counted, IInv, WalkInOrder, meters
  <2>2. CASE members = <<>>
    <3>1. lastErr' = [lastErr EXCEPT ![q] = "noBackend"] /\ pc' = [pc EXCEPT ![q] = "error"]
      BY <1>4, <2>2 DEF LoadMembers, GoTo
    <3>2. Counted("error", errors'[q], tried'[q], lastErr'[q])
      BY <1>1, <2>1, <3>1 DEF Counted
    <3> QED
      BY <1>1, <2>1, <3>1, <3>2, CountOfOne DEF Steps
  <2>3. CASE members # <<>>
    <3>1. lastErr' = lastErr /\ pc' = [pc EXCEPT ![q] = "position"]
      BY <1>4, <2>3 DEF LoadMembers, GoTo
    <3>2. Counted("position", errors'[q], tried'[q], lastErr'[q])
      BY <2>1, <3>1 DEF Counted
    <3> QED
      BY <2>1, <3>1, <3>2, CountOfOne DEF Steps
  <2> QED
    BY <2>2, <2>3
<1>5. ASSUME NEW q \in Reqs, TakePosition(q)
      PROVE  ErrorsSoFar'
  <2>1. Counted("attempt", errors[q], tried[q], lastErr[q])
    BY <1>5 DEF TakePosition, ErrorsSoFar, Counted, IInv, WalkInOrder
  <2> QED
    BY <1>5, <2>1, CountOfOne DEF TakePosition, GoTo, Steps, meters
<1>6. ASSUME NEW q \in Reqs, NEW cause \in Causes, AttemptFails(q, cause)
      PROVE  ErrorsSoFar'
  <2>1. PICK step \in {"attempt", "error"} : pc' = [pc EXCEPT ![q] = step]
    BY <1>6 DEF AttemptFails, GoTo
  <2>2. /\ errors' = [errors EXCEPT ![q] = @ + 1] /\ tried' = [tried EXCEPT ![q] = @ + 1]
        /\ errors[q] = tried[q]
    BY <1>6 DEF AttemptFails, ErrorsSoFar, Counted
  <2> PICK err \in {"attempt", "local"} : lastErr' = [lastErr EXCEPT ![q] = err]
    BY <1>6 DEF AttemptFails
  <2>3. Counted(step, errors'[q], tried'[q], lastErr'[q])
    BY <1>1, <2>2 DEF Counted
  <2> QED
    BY <1>1, <2>1, <2>2, <2>3, CountOfOne DEF Steps
<1>7. ASSUME NEW q \in Reqs,
             BodyTooLarge(q) \/ \E answer \in {"copy", "switch"} : AttemptSucceeds(q, answer)
      PROVE  ErrorsSoFar'
  <2>1. PICK step \in {"copy", "switch"} : pc' = [pc EXCEPT ![q] = step]
    BY <1>7 DEF BodyTooLarge, AttemptSucceeds, GoTo
  <2>2. /\ tried' = [tried EXCEPT ![q] = @ + 1] /\ errors' = errors
        /\ errors[q] = tried[q]
    BY <1>7 DEF BodyTooLarge, AttemptSucceeds, ErrorsSoFar, Counted, meters
  <2>3. lastErr'[q] = "none" /\ \A p \in Reqs \ {q} : lastErr'[p] = lastErr[p]
    BY <1>1, <1>7 DEF BodyTooLarge, AttemptSucceeds, ErrorsSoFar, Counted, IInv, WalkInOrder
  <2>4. Counted(step, errors'[q], tried'[q], lastErr'[q])
    BY <1>1, <2>2, <2>3 DEF Counted
  <2> QED
    BY <1>1, <2>1, <2>2, <2>3, <2>4, CountOfOne DEF Steps
<1>8. ASSUME NEW q \in Reqs,
             \/ Copied(q) \/ CopyFails(q) \/ Hijack(q) \/ TunnelEnds(q)
             \/ Finish(q) \/ Unwind(q)
      PROVE  ErrorsSoFar'
  <2>1. PICK step \in {"finish", "panic", "tunnel", "done"} :
           pc' = [pc EXCEPT ![q] = step] /\ Counted(step, errors[q], tried[q], lastErr[q])
    BY <1>8 DEF Copied, CopyFails, Hijack, TunnelEnds, Finish, Unwind, Deferred, GoTo,
                ErrorsSoFar, Counted
  <2>2. UNCHANGED <<errors, tried, lastErr>>
    BY <1>8 DEF Copied, CopyFails, Hijack, TunnelEnds, Finish, Unwind, walkVars, meters
  <2> QED
    BY <2>1, <2>2, CountOfOne DEF Steps
<1>9. ASSUME NEW q \in Reqs, UpgradeFails(q)
      PROVE  ErrorsSoFar'
  <2>1. /\ pc' = [pc EXCEPT ![q] = "error"] /\ UNCHANGED <<errors, tried>>
        /\ lastErr' = [lastErr EXCEPT ![q] = "upgrade"] /\ errors[q] = tried[q] - 1
    BY <1>9 DEF UpgradeFails, GoTo, ErrorsSoFar, Counted, meters
  <2>2. Counted("error", errors'[q], tried'[q], lastErr'[q])
    BY <1>1, <2>1 DEF Counted
  <2> QED
    BY <1>1, <2>1, <2>2, CountOfOne DEF Steps
<1>10. ASSUME NEW q \in Reqs, ErrorHandler(q)
       PROVE  ErrorsSoFar'
  <2>1. /\ pc' = [pc EXCEPT ![q] = "finish"] /\ UNCHANGED <<tried, lastErr>>
        /\ errors' = IF lastErr[q] \in {"attempt", "local"} THEN errors
                     ELSE [errors EXCEPT ![q] = @ + 1]
        /\ Counted("error", errors[q], tried[q], lastErr[q])
    BY <1>10 DEF ErrorHandler, GoTo, ErrorsSoFar, walkVars
  <2>2. Counted("finish", errors'[q], tried'[q], lastErr'[q])
    BY <1>1, <2>1 DEF Counted
  <2> QED
    BY <1>1, <2>1, <2>2, CountOfOne DEF Steps
<1>11. ASSUME \/ \E b \in Backends : AddBackend(b) \/ RemoveBackend(b)
              \/ \E q \in Reqs : Cancel(q)
       PROVE  ErrorsSoFar'
  BY <1>2, <1>11 DEF AddBackend, RemoveBackend, Cancel, walkVars, meters
<1>12. CASE UNCHANGED vars
  BY <1>2, <1>12 DEF vars, walkVars, meters
<1> QED
  BY <1>3, <1>4, <1>5, <1>6, <1>7, <1>8, <1>9, <1>10, <1>11, <1>12
     DEF Next, OwnStep, BackendStep

\* GaugesSoFar is preserved: requests come and go one at a time.
LEMMA GaugesInduct ==
    ASSUME IInv, GaugesSoFar, IsFiniteSet(Reqs), [Next]_vars
    PROVE  GaugesSoFar'
<1>1. pc \in [Reqs -> Steps] /\ hijacked \subseteq Reqs
  BY DEF IInv, TypeOK
<1>2. IsFiniteSet(Live) /\ IsFiniteSet(Tunnels)
  <2>1. Live \subseteq Reqs /\ Tunnels \subseteq Reqs
    BY DEF Live, Tunnels
  <2> QED
    BY <2>1, FS_Subset
<1>3. ASSUME NEW q \in Reqs, NEW hasBody \in BOOLEAN, Arrive(q, hasBody)
      PROVE  GaugesSoFar'
  <2>1. /\ pc[q] = "new" /\ pc' = [pc EXCEPT ![q] = "load"] /\ inflight' = inflight + 1
        /\ UNCHANGED <<hijacked, wsOpen>>
    BY <1>3 DEF Arrive, GoTo
  <2>2. q \notin hijacked
    BY <2>1 DEF GaugesSoFar
  <2>3. q \notin Live /\ Live' = Live \cup {q} /\ Tunnels' = Tunnels
    BY <1>1, <2>1, <2>2 DEF Live, Tunnels
  <2>4. inflight' = Cardinality(Live')
    BY <1>2, <2>1, <2>3, FS_AddElement DEF GaugesSoFar
  <2> QED
    BY <1>1, <2>1, <2>2, <2>3, <2>4 DEF GaugesSoFar
<1>4. ASSUME NEW q \in Reqs, Hijack(q)
      PROVE  GaugesSoFar'
  <2>1. /\ pc[q] = "switch" /\ pc' = [pc EXCEPT ![q] = "tunnel"] /\ wsOpen' = wsOpen + 1
        /\ hijacked' = hijacked \cup {q} /\ UNCHANGED inflight
    BY <1>4 DEF Hijack, GoTo
  <2>2. q \notin hijacked
    BY <2>1 DEF GaugesSoFar
  <2>3. q \notin Tunnels /\ Live' = Live /\ Tunnels' = Tunnels \cup {q}
    BY <1>1, <2>1, <2>2 DEF Live, Tunnels
  <2>4. wsOpen' = Cardinality(Tunnels')
    BY <1>2, <2>1, <2>3, FS_AddElement DEF GaugesSoFar
  <2> QED
    BY <1>1, <2>1, <2>3, <2>4 DEF GaugesSoFar
<1>5. ASSUME NEW q \in Reqs, pc[q] \in {"finish", "panic"}, Deferred(q), hijacked' = hijacked
      PROVE  GaugesSoFar'
  <2>1. /\ pc' = [pc EXCEPT ![q] = "done"] /\ inflight' = inflight - 1
        /\ wsOpen' = IF q \in hijacked THEN wsOpen - 1 ELSE wsOpen
    BY <1>5 DEF Deferred, GoTo
  <2>2. q \in Live /\ Live' = Live \ {q} /\ Tunnels' = Tunnels \ {q}
        /\ (q \in Tunnels <=> q \in hijacked)
    BY <1>1, <1>5, <2>1 DEF Live, Tunnels
  <2>3. inflight' = Cardinality(Live')
    BY <1>2, <2>1, <2>2, FS_RemoveElement DEF GaugesSoFar
  <2>4. wsOpen' = Cardinality(Tunnels')
    <3>1. CASE q \in hijacked
      BY <1>2, <2>1, <2>2, <3>1, FS_RemoveElement DEF GaugesSoFar
    <3>2. CASE q \notin hijacked
      <4>1. Tunnels' = Tunnels
        BY <2>2, <3>2
      <4> QED
        BY <2>1, <3>2, <4>1 DEF GaugesSoFar
    <3> QED
      BY <3>1, <3>2
  <2>5. \A p \in hijacked' : pc'[p] \in {"tunnel", "error", "finish", "done"}
    BY <1>1, <1>5, <2>1 DEF GaugesSoFar
  <2> QED
    BY <2>3, <2>4, <2>5 DEF GaugesSoFar
<1>6. ASSUME NEW q \in Reqs, NEW step \in Steps \ {"new", "done"},
             pc[q] \notin {"new", "done"}, pc' = [pc EXCEPT ![q] = step],
             q \in hijacked => step \in {"tunnel", "error", "finish"},
             UNCHANGED <<hijacked, inflight, wsOpen>>
      PROVE  GaugesSoFar'
  <2>1. Live' = Live /\ Tunnels' = Tunnels
    BY <1>1, <1>6 DEF Live, Tunnels
  <2> QED
    BY <1>1, <1>6, <2>1 DEF GaugesSoFar
<1>7. ASSUME NEW q \in Reqs,
             \/ LoadMembers(q) \/ TakePosition(q) \/ ErrorHandler(q)
             \/ \E cause \in Causes : AttemptFails(q, cause)
             \/ \E answer \in {"copy", "switch"} : AttemptSucceeds(q, answer)
             \/ BodyTooLarge(q) \/ Copied(q) \/ CopyFails(q) \/ UpgradeFails(q)
             \/ TunnelEnds(q)
      PROVE  GaugesSoFar'
  <2>1. /\ pc[q] \notin {"new", "done"} /\ UNCHANGED <<hijacked, inflight, wsOpen>>
    BY <1>7 DEF LoadMembers, TakePosition, ErrorHandler, AttemptFails, AttemptSucceeds,
                BodyTooLarge, Copied, CopyFails, UpgradeFails, TunnelEnds, meters
  <2>2. PICK step \in Steps \ {"new", "done"} :
           /\ pc' = [pc EXCEPT ![q] = step]
           /\ pc[q] \in {"tunnel", "error", "finish"} => step \in {"tunnel", "error", "finish"}
    BY <1>7 DEF LoadMembers, TakePosition, ErrorHandler, AttemptFails, AttemptSucceeds,
                BodyTooLarge, Copied, CopyFails, UpgradeFails, TunnelEnds, GoTo, Steps
  <2> QED
    BY <1>6, <2>1, <2>2 DEF GaugesSoFar
<1>8. ASSUME UNCHANGED <<pc, hijacked, inflight, wsOpen>>
      PROVE  GaugesSoFar'
  BY <1>8 DEF GaugesSoFar, Live, Tunnels
<1>9. ASSUME \/ \E b \in Backends : AddBackend(b) \/ RemoveBackend(b)
             \/ \E q \in Reqs : Cancel(q)
      PROVE  GaugesSoFar'
  BY <1>8, <1>9 DEF AddBackend, RemoveBackend, Cancel, meters
<1>10. CASE UNCHANGED vars
  BY <1>8, <1>10 DEF vars, meters
<1> QED
  BY <1>3, <1>4, <1>5, <1>7, <1>9, <1>10
     DEF Next, OwnStep, BackendStep, Finish, Unwind

\* The meters are what their names say: each failed attempt is counted once, and
\* the gauges are balanced through retries, hijacks and aborted handlers
\* (Middleware, Hijack, RoundTrip and the error handler).
THEOREM MetersBalance ==
    ASSUME IsFiniteSet(Reqs)
    PROVE  Spec => []MetersAreTrue
<1>1. Init => ErrorsSoFar /\ GaugesSoFar
  <2> SUFFICES ASSUME Init PROVE ErrorsSoFar /\ GaugesSoFar
    OBVIOUS
  <2>1. Live = {} /\ Tunnels = {}
    BY DEF Init, Live, Tunnels
  <2>2. GaugesSoFar
    BY <2>1, FS_EmptySet DEF Init, GaugesSoFar
  <2> QED
    BY <2>2 DEF Init, ErrorsSoFar, Counted
<1>2. IInv /\ ErrorsSoFar /\ GaugesSoFar /\ [Next]_vars => ErrorsSoFar' /\ GaugesSoFar'
  BY ErrorsInduct, GaugesInduct
<1>3. ErrorsSoFar /\ GaugesSoFar => MetersAreTrue
  BY DEF ErrorsSoFar, Counted, GaugesSoFar, Live, Tunnels, MetersAreTrue, ErrorsOf
<1> QED
  BY <1>1, <1>2, <1>3, InductiveInvariant, PTL DEF Spec

-----------------------------------------------------------------------------
(* The spread of requests over the pool.                                     *)

\* The requests that have taken a position, and those whose position is j.
Placed == {q \in Reqs : pc[q] \notin {"new", "load", "position"} /\ snap[q] # <<>>}
At(j) == {q \in Placed : start[q] = j}

\* d rounds of the pool are complete, and of the next one the r first members
\* have been first choice.
Rounds(d, r) ==
    \A j \in 0 .. Len(members) - 1 :
        Cardinality(At(j)) = IF j < r THEN d + 1 ELSE d

\* While the pool has not changed every request has loaded the same slice, the
\* counter has counted the requests that took a position, as far as it counts,
\* and it stands where the current round has come to.
SpreadSoFar ==
    changes = 0 /\ Cardinality(Reqs) <= Wrap =>
        /\ \A q \in Reqs : pc[q] \notin {"new", "load"} => snap[q] = members
        /\ \A q \in Placed : start[q] < Len(members)
        /\ Cardinality(Placed) < Wrap => next = Cardinality(Placed)
        /\ members # <<>> =>
              \E d \in Nat, r \in 0 .. Len(members) - 1 :
                  /\ Cardinality(Placed) < Wrap => r = next % Len(members)
                  /\ Rounds(d, r)

\* A number has one remainder.
LEMMA OneRemainder ==
    ASSUME NEW n \in Nat \ {0}, NEW k \in Nat, NEW l \in Nat,
           NEW r \in 0 .. n - 1, NEW s \in 0 .. n - 1, n * k + r = n * l + s
    PROVE  r = s
<1>1. ASSUME NEW x \in Nat, NEW y \in Nat, NEW u \in 0 .. n - 1, NEW v \in 0 .. n - 1,
             n * x + u = n * y + v
      PROVE  ~(x > y)
  <2> SUFFICES ASSUME x > y PROVE FALSE
    OBVIOUS
  <2>1. PICK m \in Nat : x = y + 1 + m
    OBVIOUS
  <2>2. n * x = n * y + n + n * m
    BY <2>1
  <2>3. n * m >= 0 /\ n * m \in Int /\ n * y \in Int
    OBVIOUS
  <2> QED
    BY <1>1, <2>2, <2>3
<1>2. k = l
  BY <1>1
<1>3. n * k \in Int
  OBVIOUS
<1> QED
  BY <1>2, <1>3

\* Division with remainder, by a pool's length.
LEMMA Remainder ==
    ASSUME NEW n \in Nat \ {0}, NEW a \in Nat
    PROVE  \E k \in Nat : a = n * k + (a % n) /\ a % n \in 0 .. n - 1
<1>1. a % n \in 0 .. n - 1
  OBVIOUS
<1>2. a = n * (a \div n) + (a % n)
  OBVIOUS
<1>3. a \div n \in Nat
  OBVIOUS
<1> QED
  BY <1>1, <1>2, <1>3

\* The position after this one: the next of the slice, or its first.
LEMMA ModNext ==
    ASSUME NEW n \in Nat \ {0}, NEW a \in Nat
    PROVE  (a + 1) % n = IF (a % n) + 1 = n THEN 0 ELSE (a % n) + 1
<1>1. PICK k \in Nat : a = n * k + (a % n) /\ a % n \in 0 .. n - 1
  BY Remainder
<1>2. PICK b \in Nat : b = a + 1
  OBVIOUS
<1>3. PICK l \in Nat : b = n * l + (b % n) /\ b % n \in 0 .. n - 1
  BY Remainder
<1>4. PICK r \in 0 .. n - 1, s \in 0 .. n - 1 :
         /\ r = a % n /\ s = (a + 1) % n
         /\ n * k \in Nat /\ n * l \in Nat /\ n * k + r + 1 = n * l + s
  BY <1>1, <1>2, <1>3
<1>5. CASE r + 1 < n
  <2>1. s = r + 1
    BY <1>4, <1>5, OneRemainder
  <2> QED
    BY <1>4, <1>5, <2>1
<1>6. CASE r + 1 = n
  <2>1. n * (k + 1) = n * k + n
    OBVIOUS
  <2>2. n * (k + 1) + 0 = n * l + s
    BY <1>4, <1>6, <2>1
  <2>3. s = 0
    BY <2>2, OneRemainder
  <2> QED
    BY <1>4, <1>6, <2>3
<1> QED
  BY <1>5, <1>6

\* A step that places no request and moves none of those placed keeps the spread.
LEMMA SpreadUnmoved ==
    ASSUME SpreadSoFar, UNCHANGED <<members, next, changes>>,
           Placed' = Placed, \A q \in Placed : start'[q] = start[q],
           changes = 0 /\ Cardinality(Reqs) <= Wrap =>
              \A q \in Reqs : pc'[q] \notin {"new", "load"} => snap'[q] = members
    PROVE  SpreadSoFar'
<1>1. \A j : At(j)' = At(j)
  BY DEF At
<1> QED
  BY <1>1 DEF SpreadSoFar, Rounds

\* A request takes the position where the current round has come to.
LEMMA SpreadPlaced ==
    ASSUME IInv, SpreadSoFar, IsFiniteSet(Reqs), NEW q \in Reqs, TakePosition(q)
    PROVE  SpreadSoFar'
<1> SUFFICES ASSUME changes = 0, Cardinality(Reqs) <= Wrap
             PROVE  SpreadSoFar'
  BY DEF TakePosition, SpreadSoFar
<1>1. /\ pc \in [Reqs -> Steps] /\ start \in [Reqs -> Nat] /\ next \in Nat
      /\ snap \in [Reqs -> Seq(Backends)] /\ Wrap \in Nat \ {0}
  BY WrapAssumption DEF IInv, TypeOK
<1>2. /\ pc[q] = "position" /\ pc' = [pc EXCEPT ![q] = "attempt"]
      /\ start' = [start EXCEPT ![q] = next % Len(snap[q])]
      /\ next' = (next + 1) % Wrap
      /\ UNCHANGED <<members, changes, snap>>
  BY DEF TakePosition, GoTo
<1>3. snap[q] = members /\ members # <<>>
  BY <1>2 DEF SpreadSoFar, IInv, WalkInOrder
<1>4. PICK n \in Nat \ {0} : n = Len(members)
  BY <1>1, <1>3
<1>5. q \notin Placed /\ Placed' = Placed \cup {q} /\ Placed \subseteq Reqs
  BY <1>1, <1>2, <1>3 DEF Placed
<1>6. PICK c \in Nat : /\ c = Cardinality(Placed) /\ c + 1 = Cardinality(Placed') /\ c < Wrap
  <2>1. IsFiniteSet(Placed) /\ Cardinality(Placed) \in Nat
    BY <1>5, FS_Subset, FS_CardinalityType
  <2>2. Cardinality(Placed') = Cardinality(Placed) + 1
    BY <1>5, <2>1, FS_AddElement
  <2>3. Placed' \subseteq Reqs /\ Cardinality(Reqs) \in Nat
    BY <1>5, FS_CardinalityType
  <2>4. Cardinality(Placed') <= Cardinality(Reqs)
    BY <2>3, FS_Subset
  <2> QED
    BY <1>1, <2>1, <2>2, <2>3, <2>4
<1>7. next = c
  BY <1>6 DEF SpreadSoFar
<1>8. PICK d \in Nat, r \in 0 .. n - 1 : r = next % n /\ Rounds(d, r)
  BY <1>3, <1>4, <1>6 DEF SpreadSoFar
<1>9. start'[q] = r /\ \A p \in Placed : start'[p] = start[p]
  BY <1>1, <1>2, <1>3, <1>4, <1>5, <1>8
<1>10. c + 1 < Wrap => next' = c + 1
  <2>1. PICK m \in Nat : m = c + 1
    BY <1>6
  <2>2. m < Wrap => m < 2 * Wrap
    BY <1>1
  <2>3. m < Wrap => m % Wrap = m
    BY <1>1, <2>2, ModOnce
  <2> QED
    BY <1>2, <1>7, <2>1, <2>3
<1>11. \A p \in Reqs : pc'[p] \notin {"new", "load"} => snap'[p] = members'
  BY <1>1, <1>2, <1>3 DEF SpreadSoFar
<1>12. \A p \in Placed' : start'[p] < Len(members')
  BY <1>2, <1>4, <1>5, <1>9 DEF SpreadSoFar
<1>13. ASSUME NEW j \in 0 .. n - 1
       PROVE  Cardinality(At(j)') = IF j < r \/ j = r THEN d + 1 ELSE d
  <2>1. Cardinality(At(j)) = IF j < r THEN d + 1 ELSE d
    BY <1>4, <1>8 DEF Rounds
  <2>2. CASE j = r
    <3>1. At(j)' = At(j) \cup {q} /\ q \notin At(j)
      BY <1>5, <1>9, <2>2 DEF At
    <3>2. IsFiniteSet(At(j))
      <4>1. At(j) \subseteq Reqs
        BY <1>5 DEF At
      <4> QED
        BY <4>1, FS_Subset
    <3>3. Cardinality(At(j) \cup {q}) = Cardinality(At(j)) + 1
      BY <3>1, <3>2, FS_AddElement
    <3> QED
      BY <2>1, <2>2, <3>1, <3>3
  <2>3. CASE j # r
    <3>1. At(j)' = At(j)
      BY <1>5, <1>9, <2>3 DEF At
    <3> QED
      BY <2>1, <2>3, <3>1
  <2> QED
    BY <2>2, <2>3
<1>14. \E e \in Nat, s \in 0 .. n - 1 : (c + 1 < Wrap => s = next' % n) /\ Rounds(e, s)'
  <2>1. (c + 1) % n = IF r + 1 = n THEN 0 ELSE r + 1
    BY <1>6, <1>7, <1>8, ModNext
  <2>2. PICK s \in 0 .. n - 1, e \in Nat :
           /\ s = IF r + 1 = n THEN 0 ELSE r + 1
           /\ e = IF r + 1 = n THEN d + 1 ELSE d
    <3>1. CASE r + 1 = n
      BY <3>1
    <3>2. CASE r + 1 # n
      <4>1. r + 1 \in 0 .. n - 1
        BY <3>2
      <4> QED
        BY <3>2, <4>1
    <3> QED
      BY <3>1, <3>2
  <2>3. \A j \in 0 .. n - 1 : (IF j < s THEN e + 1 ELSE e) = IF j < r \/ j = r THEN d + 1 ELSE d
    BY <2>2
  <2>4. Rounds(e, s)'
    BY <1>2, <1>4, <1>13, <2>3 DEF Rounds
  <2>5. c + 1 < Wrap => s = next' % n
    BY <1>10, <2>1, <2>2
  <2> QED
    BY <2>4, <2>5
<1> QED
  BY <1>2, <1>4, <1>6, <1>10, <1>11, <1>12, <1>14 DEF SpreadSoFar

\* SpreadSoFar is preserved: only taking a position places a request.
LEMMA SpreadInduct ==
    ASSUME IInv, SpreadSoFar, IsFiniteSet(Reqs), [Next]_vars
    PROVE  SpreadSoFar'
<1>1. /\ pc \in [Reqs -> Steps] /\ snap \in [Reqs -> Seq(Backends)]
  BY DEF IInv, TypeOK
<1>2. ASSUME NEW b \in Backends, AddBackend(b) \/ RemoveBackend(b)
      PROVE  SpreadSoFar'
  <2>1. changes' # 0
    BY <1>2 DEF AddBackend, RemoveBackend, IInv, TypeOK
  <2> QED
    BY <2>1 DEF SpreadSoFar
<1>3. ASSUME NEW q \in Reqs, NEW hasBody \in BOOLEAN, Arrive(q, hasBody)
      PROVE  SpreadSoFar'
  <2>1. /\ pc[q] = "new" /\ pc' = [pc EXCEPT ![q] = "load"]
        /\ UNCHANGED <<members, next, changes, snap, start>>
    BY <1>3 DEF Arrive, GoTo, poolVars, walkVars
  <2>2. Placed' = Placed
    BY <1>1, <2>1 DEF Placed
  <2>3. changes = 0 /\ Cardinality(Reqs) <= Wrap =>
           \A p \in Reqs : pc'[p] \notin {"new", "load"} => snap'[p] = members
    BY <1>1, <2>1 DEF SpreadSoFar
  <2> QED
    BY <2>1, <2>2, <2>3, SpreadUnmoved
<1>4. ASSUME NEW q \in Reqs, LoadMembers(q)
      PROVE  SpreadSoFar'
  <2>1. PICK step \in {"position", "error"} :
           /\ pc[q] = "load" /\ pc' = [pc EXCEPT ![q] = step]
           /\ snap' = [snap EXCEPT ![q] = members]
           /\ step = "error" => members = <<>>
           /\ UNCHANGED <<members, next, changes, start>>
    BY <1>4 DEF LoadMembers, GoTo, poolVars
  <2>2. Placed' = Placed
    BY <1>1, <2>1 DEF Placed
  <2>3. changes = 0 /\ Cardinality(Reqs) <= Wrap =>
           \A p \in Reqs : pc'[p] \notin {"new", "load"} => snap'[p] = members
    BY <1>1, <2>1 DEF SpreadSoFar
  <2> QED
    BY <2>1, <2>2, <2>3, SpreadUnmoved
<1>5. ASSUME NEW q \in Reqs,
             \/ \E cause \in Causes : AttemptFails(q, cause)
             \/ \E answer \in {"copy", "switch"} : AttemptSucceeds(q, answer)
             \/ BodyTooLarge(q) \/ Copied(q) \/ CopyFails(q) \/ Hijack(q)
             \/ UpgradeFails(q) \/ TunnelEnds(q)
             \/ ErrorHandler(q) \/ Finish(q) \/ Unwind(q)
      PROVE  SpreadSoFar'
  <2>1. pc[q] \notin {"new", "load", "position"}
    BY <1>5 DEF AttemptFails, AttemptSucceeds, BodyTooLarge, Copied, CopyFails, Hijack,
                UpgradeFails, TunnelEnds, ErrorHandler, Finish, Unwind
  <2>2. PICK step \in Steps \ {"new", "load", "position"} : pc' = [pc EXCEPT ![q] = step]
    BY <1>5 DEF AttemptFails, AttemptSucceeds, BodyTooLarge, Copied, CopyFails, Hijack,
                UpgradeFails, TunnelEnds, ErrorHandler, Finish, Unwind, Deferred, GoTo, Steps
  <2>3. UNCHANGED <<members, next, changes, snap, start>>
    BY <1>5 DEF AttemptFails, AttemptSucceeds, BodyTooLarge, Copied, CopyFails, Hijack,
                UpgradeFails, TunnelEnds, ErrorHandler, Finish, Unwind, poolVars, walkVars
  <2>4. Placed' = Placed
    BY <1>1, <2>1, <2>2, <2>3 DEF Placed
  <2>5. changes = 0 /\ Cardinality(Reqs) <= Wrap =>
           \A p \in Reqs : pc'[p] \notin {"new", "load"} => snap'[p] = members
    BY <1>1, <2>1, <2>2, <2>3 DEF SpreadSoFar
  <2> QED
    BY <2>3, <2>4, <2>5, SpreadUnmoved
<1>6. ASSUME UNCHANGED <<members, next, changes, pc, snap, start>>
      PROVE  SpreadSoFar'
  <2>1. Placed' = Placed
    BY <1>6 DEF Placed
  <2>2. changes = 0 /\ Cardinality(Reqs) <= Wrap =>
           \A p \in Reqs : pc'[p] \notin {"new", "load"} => snap'[p] = members
    BY <1>6 DEF SpreadSoFar
  <2> QED
    BY <1>6, <2>1, <2>2, SpreadUnmoved
<1>7. ASSUME NEW q \in Reqs, Cancel(q)
      PROVE  SpreadSoFar'
  BY <1>6, <1>7 DEF Cancel, poolVars, walkVars
<1>8. CASE UNCHANGED vars
  BY <1>6, <1>8 DEF vars, poolVars, walkVars
<1> QED
  BY <1>2, <1>3, <1>4, <1>5, <1>7, <1>8, SpreadPlaced DEF Next, OwnStep, BackendStep

\* A member is first choice of the requests whose position is its place.
LEMMA AssignedByPlace ==
    ASSUME IInv, SpreadSoFar, changes = 0, Cardinality(Reqs) <= Wrap, NEW i \in DOMAIN members
    PROVE  Assigned(members[i]) = At(i - 1) /\ i - 1 \in 0 .. Len(members) - 1
<1>1. /\ members \in Seq(Backends) /\ IsInjective(members) /\ start \in [Reqs -> Nat]
  BY DEF IInv, TypeOK, PoolsDistinct
<1>2. PICK n \in Nat \ {0} : n = Len(members) /\ DOMAIN members = 1 .. n
  BY <1>1
<1>3. ASSUME NEW q \in Placed
      PROVE  Member(q, 0) = members[i] <=> start[q] = i - 1
  <2>1. q \in Reqs /\ snap[q] = members
    BY DEF Placed, SpreadSoFar
  <2>2. PICK s \in 0 .. n - 1 : s = start[q]
    BY <1>1, <1>2, <2>1 DEF SpreadSoFar
  <2>3. (s + 0) % n = s
    BY <1>2, <2>2
  <2>4. Member(q, 0) = members[s + 1]
    BY <1>2, <2>1, <2>2, <2>3 DEF Member
  <2>5. members[s + 1] = members[i] <=> s + 1 = i
    BY <1>1, <1>2, <2>2 DEF IsInjective
  <2> QED
    BY <1>2, <2>2, <2>4, <2>5
<1>4. Assigned(members[i]) = {q \in Placed : Member(q, 0) = members[i]}
  BY DEF Assigned, Placed
<1> QED
  BY <1>2, <1>3, <1>4 DEF At

\* Requests are spread evenly over a pool that does not change, for any number of
\* requests the counter can count and a pool of any size, however the requests
\* interleave between the two atomics (rotation).
THEOREM RotationIsEven ==
    ASSUME IsFiniteSet(Reqs)
    PROVE  Spec => []EvenlySpread
<1>1. Init => SpreadSoFar
  <2> SUFFICES ASSUME Init PROVE SpreadSoFar
    OBVIOUS
  <2>1. Placed = {} /\ (\A j : At(j) = {}) /\ Cardinality({}) = 0
    BY FS_EmptySet DEF Init, Placed, At
  <2>2. ASSUME members # <<>>
        PROVE  0 \in 0 .. Len(members) - 1 /\ next % Len(members) = 0 /\ Rounds(0, 0)
    <3>1. members \in Seq(Backends) /\ next = 0
      BY PoolAssumption DEF Init
    <3>2. PICK n \in Nat \ {0} : n = Len(members)
      BY <2>2, <3>1
    <3>3. 0 % n = 0
      BY <3>2
    <3>4. Rounds(0, 0)
      <4>1. \A j : Cardinality(At(j)) = 0
        BY <2>1
      <4>2. \A j \in 0 .. Len(members) - 1 : ~(j < 0)
        BY <3>2
      <4> QED
        BY <4>1, <4>2 DEF Rounds
    <3> QED
      BY <3>1, <3>2, <3>3, <3>4
  <2> QED
    BY <2>1, <2>2 DEF Init, SpreadSoFar
<1>2. IInv /\ SpreadSoFar /\ [Next]_vars => SpreadSoFar'
  BY SpreadInduct
<1>3. IInv /\ SpreadSoFar => EvenlySpread
  <2> SUFFICES ASSUME IInv, SpreadSoFar, changes = 0, Cardinality(Reqs) <= Wrap,
                      NEW a \in Range(members), NEW b \in Range(members)
               PROVE  Cardinality(Assigned(a)) <= Cardinality(Assigned(b)) + 1
    BY DEF EvenlySpread
  <2>1. PICK i \in DOMAIN members, k \in DOMAIN members : a = members[i] /\ b = members[k]
    BY DEF Range
  <2>2. members # <<>>
    BY <2>1
  <2>3. PICK d \in Nat, r \in 0 .. Len(members) - 1 : Rounds(d, r)
    BY <2>2 DEF SpreadSoFar
  <2>4. /\ Cardinality(Assigned(a)) \in {d, d + 1}
        /\ Cardinality(Assigned(b)) \in {d, d + 1}
    BY <2>1, <2>3, AssignedByPlace DEF Rounds
  <2> QED
    BY <2>4
<1> QED
  BY <1>1, <1>2, <1>3, InductiveInvariant, PTL DEF Spec

-----------------------------------------------------------------------------
(* Requests make progress.                                                   *)

\* How many more steps a request at this step may take, attempts apart.
Stage ==
    [new |-> 8, load |-> 7, position |-> 6, attempt |-> 5, switch |-> 4, tunnel |-> 3,
     copy |-> 2, error |-> 2, panic |-> 1, finish |-> 1, done |-> 0]

\* The members of its slice that a request has not tried.
Untried(q) == Len(snap[q]) - tried[q]

\* A request goes on to a later stage or, if its client is still there, to a
\* member of its slice that it has not tried.
MovesOn(q) ==
    \/ Stage[pc'[q]] < Stage[pc[q]]
    \/ /\ q \notin cancelled
       /\ pc[q] = "attempt" /\ pc'[q] = "attempt"
       /\ Untried(q)' \in Nat /\ Untried(q)' < Untried(q)

\* Every step leaves a request where it is or moves it on: no request goes round,
\* whatever errors it meets and however the pool changes under it, and one whose
\* client has gone makes no further attempt (RoundTrip, ServeHTTP).
NoRequestGoesRound ==
    [][\A q \in Reqs : UNCHANGED <<pc[q], snap[q], tried[q]>> \/ MovesOn(q)]_vars

\* A step of q leaves the other requests alone.
LEMMA OthersUnmoved ==
    ASSUME IInv, NEW q \in Reqs, NEW step \in Steps, pc' = [pc EXCEPT ![q] = step],
           snap' = snap \/ (\E s \in Seq(Backends) : snap' = [snap EXCEPT ![q] = s]),
           tried' = tried \/ tried' = [tried EXCEPT ![q] = @ + 1]
    PROVE  /\ pc'[q] = step
           /\ \A p \in Reqs \ {q} : UNCHANGED <<pc[p], snap[p], tried[p]>>
BY DEF IInv, TypeOK

\* Requests make progress, for pools of any size (RoundTrip, ServeHTTP).
THEOREM RequestsMoveOn == Spec => NoRequestGoesRound
<1> DEFINE Step == \A q \in Reqs : UNCHANGED <<pc[q], snap[q], tried[q]>> \/ MovesOn(q)
<1>1. IInv /\ [Next]_vars => [Step]_vars
  <2> SUFFICES ASSUME IInv, Next PROVE Step
    OBVIOUS
  <2>1. /\ pc \in [Reqs -> Steps] /\ tried \in [Reqs -> Nat] /\ members \in Seq(Backends)
        /\ snap \in [Reqs -> Seq(Backends)]
    BY DEF IInv, TypeOK
  <2>2. ASSUME UNCHANGED <<pc, snap, tried>>
        PROVE  Step
    BY <2>2
  <2>3. ASSUME NEW q \in Reqs, NEW step \in Steps, pc' = [pc EXCEPT ![q] = step],
               snap' = snap \/ (\E s \in Seq(Backends) : snap' = [snap EXCEPT ![q] = s]),
               tried' = tried \/ tried' = [tried EXCEPT ![q] = @ + 1],
               Stage[step] < Stage[pc[q]]
        PROVE  Step
    <3>1. /\ pc'[q] = step
          /\ \A p \in Reqs \ {q} : UNCHANGED <<pc[p], snap[p], tried[p]>>
      BY <2>3, OthersUnmoved
    <3>2. MovesOn(q)
      BY <2>3, <3>1 DEF MovesOn
    <3> QED
      BY <3>1, <3>2
  <2>4. ASSUME NEW q \in Reqs, \E hasBody \in BOOLEAN : Arrive(q, hasBody)
        PROVE  Step
    <3>1. pc[q] = "new" /\ pc' = [pc EXCEPT ![q] = "load"] /\ UNCHANGED <<snap, tried>>
      BY <2>4 DEF Arrive, GoTo, walkVars
    <3>2. Stage["load"] < Stage[pc[q]]
      BY <3>1 DEF Stage
    <3> QED
      BY <2>3, <3>1, <3>2 DEF Steps
  <2>5. ASSUME NEW q \in Reqs, LoadMembers(q)
        PROVE  Step
    <3>1. PICK step \in {"position", "error"} :
             /\ pc[q] = "load" /\ pc' = [pc EXCEPT ![q] = step]
             /\ snap' = [snap EXCEPT ![q] = members] /\ tried' = tried
      BY <2>5 DEF LoadMembers, GoTo
    <3>2. Stage[step] < Stage[pc[q]] /\ step \in Steps
      BY <3>1 DEF Stage, Steps
    <3> QED
      BY <2>1, <2>3, <3>1, <3>2
  <2>6. ASSUME NEW q \in Reqs, TakePosition(q)
        PROVE  Step
    <3>1. pc[q] = "position" /\ pc' = [pc EXCEPT ![q] = "attempt"] /\ UNCHANGED <<snap, tried>>
      BY <2>6 DEF TakePosition, GoTo
    <3>2. Stage["attempt"] < Stage[pc[q]]
      BY <3>1 DEF Stage
    <3> QED
      BY <2>3, <3>1, <3>2 DEF Steps
  <2>7. ASSUME NEW q \in Reqs, NEW cause \in Causes, AttemptFails(q, cause)
        PROVE  Step
    <3>1. /\ pc[q] = "attempt" /\ tried' = [tried EXCEPT ![q] = @ + 1] /\ snap' = snap
          /\ \/ pc' = [pc EXCEPT ![q] = "error"]
             \/ pc' = [pc EXCEPT ![q] = "attempt"] /\ q \notin cancelled /\ MembersLeft(q)
      BY <2>7 DEF AttemptFails, Retries, GoTo
    <3>2. CASE pc' = [pc EXCEPT ![q] = "error"]
      <4>1. Stage["error"] < Stage[pc[q]]
        BY <3>1 DEF Stage
      <4> QED
        BY <2>3, <3>1, <3>2, <4>1 DEF Steps
    <3>3. CASE pc' = [pc EXCEPT ![q] = "attempt"] /\ q \notin cancelled /\ MembersLeft(q)
      <4>1. /\ pc'[q] = "attempt"
            /\ \A p \in Reqs \ {q} : UNCHANGED <<pc[p], snap[p], tried[p]>>
        BY <3>1, <3>3, OthersUnmoved DEF Steps
      <4>2. tried[q] \in Nat /\ Len(snap[q]) \in Nat /\ tried'[q] = tried[q] + 1
        BY <2>1, <3>1
      <4>3. Untried(q)' \in Nat /\ Untried(q)' < Untried(q)
        BY <3>1, <3>3, <4>2 DEF Untried, MembersLeft
      <4> QED
        BY <3>1, <3>3, <4>1, <4>3 DEF MovesOn
    <3> QED
      BY <3>1, <3>2, <3>3
  <2>8. ASSUME NEW q \in Reqs,
               BodyTooLarge(q) \/ \E answer \in {"copy", "switch"} : AttemptSucceeds(q, answer)
        PROVE  Step
    <3>1. PICK step \in {"copy", "switch"} :
             /\ pc[q] = "attempt" /\ pc' = [pc EXCEPT ![q] = step]
             /\ tried' = [tried EXCEPT ![q] = @ + 1] /\ snap' = snap
      BY <2>8 DEF BodyTooLarge, AttemptSucceeds, GoTo
    <3>2. Stage[step] < Stage[pc[q]] /\ step \in Steps
      BY <3>1 DEF Stage, Steps
    <3> QED
      BY <2>3, <3>1, <3>2
  <2>9. ASSUME NEW q \in Reqs,
               \/ Copied(q) \/ CopyFails(q) \/ Hijack(q) \/ UpgradeFails(q) \/ TunnelEnds(q)
               \/ ErrorHandler(q) \/ Finish(q) \/ Unwind(q)
        PROVE  Step
    <3>1. UNCHANGED <<snap, tried>>
      BY <2>9 DEF Copied, CopyFails, Hijack, UpgradeFails, TunnelEnds, ErrorHandler, Finish,
                  Unwind, walkVars
    <3>2. PICK step \in {"finish", "panic", "tunnel", "error", "done"} :
             /\ pc' = [pc EXCEPT ![q] = step]
             /\ \/ pc[q] = "copy" /\ step \in {"finish", "panic"}
                \/ pc[q] = "switch" /\ step \in {"tunnel", "error"}
                \/ pc[q] = "tunnel" /\ step \in {"error", "finish"}
                \/ pc[q] = "error" /\ step = "finish"
                \/ pc[q] \in {"finish", "panic"} /\ step = "done"
      BY <2>9 DEF Copied, CopyFails, Hijack, UpgradeFails, TunnelEnds, ErrorHandler, Finish,
                  Unwind, Deferred, GoTo
    <3>3. Stage[step] < Stage[pc[q]] /\ step \in Steps
      BY <3>2 DEF Stage, Steps
    <3> QED
      BY <2>3, <3>1, <3>2, <3>3
  <2>10. ASSUME \/ \E b \in Backends : AddBackend(b) \/ RemoveBackend(b)
                \/ \E q \in Reqs : Cancel(q)
         PROVE  Step
    BY <2>2, <2>10 DEF AddBackend, RemoveBackend, Cancel, walkVars
  <2> QED
    BY <2>4, <2>5, <2>6, <2>7, <2>8, <2>9, <2>10 DEF Next, OwnStep, BackendStep
<1> QED
  BY <1>1, InductiveInvariant, PTL DEF Spec, NoRequestGoesRound
=============================================================================
