---------------------------- MODULE LifecycleProofs ----------------------------
(***************************************************************************)
(* Proofs about Lifecycle and its Readers, for any configurations and any     *)
(* faults.                                                                  *)
(***************************************************************************)
EXTENDS Lifecycle, SequenceTheorems, FiniteSetTheorems, TLAPS

Listed(m) == config.accounts[m]

\* The readers built are a prefix of the plan; one that has still to resolve its
\* account is of a listed account, and an account that is known is claimed.
ReadersInOrder ==
    /\ config \in Configs
    /\ readers \in [AwsModes -> Seq(Reader)]
    /\ claims \in [AwsModes -> SUBSET Names]
    /\ \A m \in AwsModes :
          /\ Len(readers[m]) <= Len(Plan(m))
          /\ \A i \in DOMAIN readers[m] :
                LET r == readers[m][i] IN
                /\ r.lazy => Listed(m) # <<>>
                /\ r.account # "" => r.account \in claims[m]

\* The functions run defers.
Fns == {"manager", "tsnet", "mirror", "cancel"}

\* What it may have deferred: nothing; or cancel, and above it the mirror's wait if
\* there is a mirror; then srv.Close; then mgr.Close.
Low == {<<"cancel">>, <<"mirror", "cancel">>}
Mid == {<<"tsnet", "cancel">>, <<"tsnet", "mirror", "cancel">>}
High == {<<"manager", "tsnet", "cancel">>, <<"manager", "tsnet", "mirror", "cancel">>}
Stacks == {<<>>} \cup Low \cup Mid \cup High

\* The stack of deferred functions at each step of run.  What is open is what the
\* functions on it close, or the mirror while run waits for it.
StackInOrder ==
    /\ deferred \in Stacks
    /\ step \in {"auth", "store"} => deferred = <<>>
    /\ step \in {"mirror", "flush"} => deferred = <<"cancel">>
    /\ step = "start" => deferred \in Low
    /\ step \in {"up", "client"} => deferred \in Mid
    /\ step \in {"modes", "traefik", "watch", "await"} => deferred \in High
    /\ open = IF step = "flush" THEN {"mirror"} ELSE Range(deferred) \ {"cancel"}

IInv == ReadersInOrder /\ NoSilentReader

-----------------------------------------------------------------------------

\* What a stack closes, and that it is empty or has cancel at the bottom.
LEMMA StackFacts ==
    /\ Range(<<>>) = {}
    /\ \A a : Range(<<a>>) = {a}
    /\ \A a, b : Range(<<a, b>>) = {a, b}
    /\ \A a, b, c : Range(<<a, b, c>>) = {a, b, c}
    /\ \A a, b, c, d : Range(<<a, b, c, d>>) = {a, b, c, d}
BY DEF Range

\* A tuple that is another with one element more in front.
LEMMA OnTop ==
    ASSUME NEW S, NEW a \in S, NEW t \in Seq(S), NEW u \in Seq(S), Len(u) = Len(t) + 1,
           u[1] = a, \A i \in 1 .. Len(t) : u[i + 1] = t[i]
    PROVE  <<a>> \o t = u
<1>1. <<a>> \in Seq(S) /\ Len(<<a>>) = 1 /\ <<a>>[1] = a /\ Len(t) \in Nat
  OBVIOUS
<1>2. PICK v : v = <<a>> \o t
  OBVIOUS
<1>3. /\ v \in Seq(S) /\ Len(v) = 1 + Len(t)
      /\ \A i \in 1 .. 1 + Len(t) : v[i] = IF i <= 1 THEN <<a>>[i] ELSE t[i - 1]
  BY <1>1, <1>2, ConcatProperties
<1>4. ASSUME NEW i \in 1 .. 1 + Len(t) PROVE v[i] = u[i]
  <2>1. CASE i = 1
    BY <1>1, <1>3, <2>1
  <2>2. CASE i > 1
    <3>1. PICK k \in 1 .. Len(t) : i = k + 1 /\ i - 1 = k
      BY <1>1, <2>2
    <3>2. ~(i <= 1)
      BY <1>1, <2>2
    <3>3. v[i] = t[k]
      BY <1>3, <3>1, <3>2
    <3>4. u[k + 1] = t[k]
      BY <3>1
    <3> QED
      BY <3>1, <3>3, <3>4
  <2> QED
    BY <1>1, <2>1, <2>2
<1>5. v = u
  BY <1>1, <1>3, <1>4, SeqEqual
<1> QED
  BY <1>2, <1>5

\* A function is deferred on top of the stack.
LEMMA PushFacts ==
    /\ <<>> \o <<"cancel">> = <<"cancel">>
    /\ <<"mirror">> \o <<"cancel">> = <<"mirror", "cancel">>
    /\ <<"tsnet">> \o <<"cancel">> = <<"tsnet", "cancel">>
    /\ <<"tsnet">> \o <<"mirror", "cancel">> = <<"tsnet", "mirror", "cancel">>
    /\ <<"manager">> \o <<"tsnet", "cancel">> = <<"manager", "tsnet", "cancel">>
    /\ <<"manager">> \o <<"tsnet", "mirror", "cancel">> =
          <<"manager", "tsnet", "mirror", "cancel">>
<1>1. <<>> \o <<"cancel">> = <<"cancel">>
  OBVIOUS
<1>2. <<"mirror">> \o <<"cancel">> = <<"mirror", "cancel">>
  <2> DEFINE t == <<"cancel">>
             u == <<"mirror", "cancel">>
  <2>1. "mirror" \in Fns /\ t \in Seq(Fns) /\ u \in Seq(Fns) /\ Len(u) = Len(t) + 1
    BY DEF Fns
  <2>2. u[1] = "mirror" /\ \A i \in 1 .. Len(t) : u[i + 1] = t[i]
    OBVIOUS
  <2> HIDE DEF t, u
  <2>3. <<"mirror">> \o t = u
    BY <2>1, <2>2, OnTop
  <2> QED
    BY <2>3 DEF t, u
<1>3. <<"tsnet">> \o <<"cancel">> = <<"tsnet", "cancel">>
  <2> DEFINE t == <<"cancel">>
             u == <<"tsnet", "cancel">>
  <2>1. "tsnet" \in Fns /\ t \in Seq(Fns) /\ u \in Seq(Fns) /\ Len(u) = Len(t) + 1
    BY DEF Fns
  <2>2. u[1] = "tsnet" /\ \A i \in 1 .. Len(t) : u[i + 1] = t[i]
    OBVIOUS
  <2> HIDE DEF t, u
  <2>3. <<"tsnet">> \o t = u
    BY <2>1, <2>2, OnTop
  <2> QED
    BY <2>3 DEF t, u
<1>4. <<"tsnet">> \o <<"mirror", "cancel">> = <<"tsnet", "mirror", "cancel">>
  <2> DEFINE t == <<"mirror", "cancel">>
             u == <<"tsnet", "mirror", "cancel">>
  <2>1. "tsnet" \in Fns /\ t \in Seq(Fns) /\ u \in Seq(Fns) /\ Len(u) = Len(t) + 1
    BY DEF Fns
  <2>2. u[1] = "tsnet" /\ \A i \in 1 .. Len(t) : u[i + 1] = t[i]
    OBVIOUS
  <2> HIDE DEF t, u
  <2>3. <<"tsnet">> \o t = u
    BY <2>1, <2>2, OnTop
  <2> QED
    BY <2>3 DEF t, u
<1>5. <<"manager">> \o <<"tsnet", "cancel">> = <<"manager", "tsnet", "cancel">>
  <2> DEFINE t == <<"tsnet", "cancel">>
             u == <<"manager", "tsnet", "cancel">>
  <2>1. "manager" \in Fns /\ t \in Seq(Fns) /\ u \in Seq(Fns) /\ Len(u) = Len(t) + 1
    BY DEF Fns
  <2>2. u[1] = "manager" /\ \A i \in 1 .. Len(t) : u[i + 1] = t[i]
    OBVIOUS
  <2> HIDE DEF t, u
  <2>3. <<"manager">> \o t = u
    BY <2>1, <2>2, OnTop
  <2> QED
    BY <2>3 DEF t, u
<1>6. <<"manager">> \o <<"tsnet", "mirror", "cancel">> = <<"manager", "tsnet", "mirror", "cancel">>
  <2> DEFINE t == <<"tsnet", "mirror", "cancel">>
             u == <<"manager", "tsnet", "mirror", "cancel">>
  <2>1. "manager" \in Fns /\ t \in Seq(Fns) /\ u \in Seq(Fns) /\ Len(u) = Len(t) + 1
    BY DEF Fns
  <2>2. u[1] = "manager" /\ \A i \in 1 .. Len(t) : u[i + 1] = t[i]
    OBVIOUS
  <2> HIDE DEF t, u
  <2>3. <<"manager">> \o t = u
    BY <2>1, <2>2, OnTop
  <2> QED
    BY <2>3 DEF t, u
<1> QED
  BY <1>1, <1>2, <1>3, <1>4, <1>5, <1>6

\* What a deferred function closes when it is called is off the stack with it, and
\* the manager's is above tsnet's, tsnet's above the mirror's and cancel.
LEMMA PopStack ==
    ASSUME NEW d \in Stacks, d # <<>>
    PROVE  /\ Tail(d) \in Stacks
           /\ Range(Tail(d)) \ {"cancel"} = (Range(d) \ {"cancel"}) \ {Head(d)}
           /\ Head(d) = "mirror" => d = <<"mirror", "cancel">>
           /\ Head(d) = "cancel" => d = <<"cancel">>
           /\ Head(d) # "manager" => "manager" \notin Range(d)
           /\ Head(d) = "manager" => "tsnet" \in Range(Tail(d))
<1>1. CASE d = <<"cancel">>
  <2>1. Head(d) = "cancel" /\ Tail(d) = <<>>
    BY <1>1
  <2> QED
    BY <1>1, <2>1, StackFacts DEF Stacks
<1>2. CASE d = <<"mirror", "cancel">>
  <2>1. Head(d) = "mirror" /\ Tail(d) = <<"cancel">>
    BY <1>2
  <2> QED
    BY <1>2, <2>1, StackFacts DEF Stacks, Low
<1>3. CASE d = <<"tsnet", "cancel">>
  <2>1. Head(d) = "tsnet" /\ Tail(d) = <<"cancel">>
    BY <1>3
  <2> QED
    BY <1>3, <2>1, StackFacts DEF Stacks, Low
<1>4. CASE d = <<"tsnet", "mirror", "cancel">>
  <2>1. Head(d) = "tsnet" /\ Tail(d) = <<"mirror", "cancel">>
    BY <1>4
  <2> QED
    BY <1>4, <2>1, StackFacts DEF Stacks, Low
<1>5. CASE d = <<"manager", "tsnet", "cancel">>
  <2>1. Head(d) = "manager" /\ Tail(d) = <<"tsnet", "cancel">>
    BY <1>5
  <2> QED
    BY <1>5, <2>1, StackFacts DEF Stacks, Mid
<1>6. CASE d = <<"manager", "tsnet", "mirror", "cancel">>
  <2>1. Head(d) = "manager" /\ Tail(d) = <<"tsnet", "mirror", "cancel">>
    BY <1>6
  <2> QED
    BY <1>6, <2>1, StackFacts DEF Stacks, Mid
<1> QED
  BY <1>1, <1>2, <1>3, <1>4, <1>5, <1>6 DEF Stacks, Low, Mid, High

\* A step of run that succeeds defers what closes what it has opened.
LEMMA ProceedStack ==
    ASSUME StackInOrder, NEW s \in Steps, Proceed(s)
    PROVE  StackInOrder' /\ open \subseteq open'
<1>1. step = s /\ step' = Follows[s] /\ open' = open \cup Opens(s)
      /\ deferred' = Defers(s) \o deferred /\ config' = config
  BY DEF Proceed, readerVars
<1>2. s \in {"store", "mirror", "start", "up", "client"}
  BY DEF Steps, Follows
<1>3. CASE s = "store"
  <2>1. deferred = <<>> /\ deferred' = <<"cancel">> /\ open' = open /\ step' = "mirror"
    BY <1>1, <1>3 DEF StackInOrder, Defers, Opens, Follows
  <2> QED
    BY <1>1, <1>3, <2>1, StackFacts DEF StackInOrder, Stacks, Low
<1>4. CASE s = "mirror"
  <2>1. deferred = <<"cancel">> /\ open = {} /\ step' = "start"
    BY <1>1, <1>4, StackFacts DEF StackInOrder, Follows
  <2>2. \/ deferred' = <<"mirror", "cancel">> /\ open' = {"mirror"}
        \/ deferred' = <<"cancel">> /\ open' = {}
    <3>1. CASE config.mirror
      <4>1. deferred' = <<"mirror">> \o <<"cancel">> /\ open' = {} \cup {"mirror"}
        BY <1>1, <1>4, <2>1, <3>1 DEF Defers, Opens
      <4>2. deferred' = <<"mirror", "cancel">>
        BY <4>1, PushFacts
      <4> QED
        BY <4>1, <4>2
    <3>2. CASE ~config.mirror
      <4>1. deferred' = <<>> \o <<"cancel">> /\ open' = {} \cup {}
        BY <1>1, <1>4, <2>1, <3>2 DEF Defers, Opens
      <4>2. deferred' = <<"cancel">>
        BY <4>1, PushFacts
      <4> QED
        BY <4>1, <4>2
    <3> QED
      BY <3>1, <3>2
  <2> QED
    BY <2>1, <2>2, StackFacts DEF StackInOrder, Stacks, Low
<1>5. CASE s = "start"
  <2>1. deferred' = <<"tsnet">> \o deferred /\ open' = open \cup {"tsnet"} /\ step' = "up"
    BY <1>1, <1>5 DEF Defers, Opens, Follows
  <2>2. deferred \in Low /\ open = Range(deferred) \ {"cancel"}
    BY <1>1, <1>5 DEF StackInOrder
  <2>3. \/ deferred' = <<"tsnet", "cancel">> /\ open' = {"tsnet"}
        \/ deferred' = <<"tsnet", "mirror", "cancel">> /\ open' = {"tsnet", "mirror"}
    <3>1. CASE deferred = <<"cancel">>
      <4>1. deferred' = <<"tsnet">> \o <<"cancel">>
        BY <2>1, <3>1
      <4>2. deferred' = <<"tsnet", "cancel">>
        BY <4>1, PushFacts
      <4>3. open' = {"tsnet"}
        BY <2>1, <2>2, <3>1, StackFacts
      <4> QED
        BY <4>2, <4>3
    <3>2. CASE deferred = <<"mirror", "cancel">>
      <4>1. deferred' = <<"tsnet">> \o <<"mirror", "cancel">>
        BY <2>1, <3>2
      <4>2. deferred' = <<"tsnet", "mirror", "cancel">>
        BY <4>1, PushFacts
      <4>3. open' = {"tsnet", "mirror"}
        BY <2>1, <2>2, <3>2, StackFacts
      <4> QED
        BY <4>2, <4>3
    <3> QED
      BY <2>2, <3>1, <3>2 DEF Low
  <2> QED
    <3>1. CASE deferred' = <<"tsnet", "cancel">> /\ open' = {"tsnet"}
      <4>1. Range(deferred') = {"tsnet", "cancel"}
        BY <3>1, StackFacts
      <4>2. open' = Range(deferred') \ {"cancel"}
        BY <3>1, <4>1
      <4>3. deferred' \in Mid /\ deferred' \in Stacks
        BY <3>1 DEF Stacks, Mid
      <4> QED
        BY <2>1, <4>2, <4>3 DEF StackInOrder
    <3>2. CASE deferred' = <<"tsnet", "mirror", "cancel">> /\ open' = {"tsnet", "mirror"}
      <4>1. Range(deferred') = {"tsnet", "mirror", "cancel"}
        BY <3>2, StackFacts
      <4>2. open' = Range(deferred') \ {"cancel"}
        BY <3>2, <4>1
      <4>3. deferred' \in Mid /\ deferred' \in Stacks
        BY <3>2 DEF Stacks, Mid
      <4> QED
        BY <2>1, <4>2, <4>3 DEF StackInOrder
    <3> QED
      BY <2>3, <3>1, <3>2
<1>6. CASE s = "up"
  <2>1. deferred' = deferred /\ open' = open /\ step' = "client" /\ deferred \in Mid
    BY <1>1, <1>6 DEF Defers, Opens, Follows, StackInOrder, Mid
  <2> QED
    BY <1>1, <1>6, <2>1 DEF StackInOrder
<1>7. CASE s = "client"
  <2>1. deferred' = <<"manager">> \o deferred /\ open' = open \cup {"manager"} /\ step' = "modes"
    BY <1>1, <1>7 DEF Defers, Opens, Follows
  <2>2. deferred \in Mid /\ open = Range(deferred) \ {"cancel"}
    BY <1>1, <1>7 DEF StackInOrder
  <2>3. \/ deferred' = <<"manager", "tsnet", "cancel">> /\ open' = {"manager", "tsnet"}
        \/ /\ deferred' = <<"manager", "tsnet", "mirror", "cancel">>
           /\ open' = {"manager", "tsnet", "mirror"}
    <3>1. CASE deferred = <<"tsnet", "cancel">>
      <4>1. deferred' = <<"manager">> \o <<"tsnet", "cancel">>
        BY <2>1, <3>1
      <4>2. deferred' = <<"manager", "tsnet", "cancel">>
        BY <4>1, PushFacts
      <4>3. open' = {"manager", "tsnet"}
        BY <2>1, <2>2, <3>1, StackFacts
      <4> QED
        BY <4>2, <4>3
    <3>2. CASE deferred = <<"tsnet", "mirror", "cancel">>
      <4>1. deferred' = <<"manager">> \o <<"tsnet", "mirror", "cancel">>
        BY <2>1, <3>2
      <4>2. deferred' = <<"manager", "tsnet", "mirror", "cancel">>
        BY <4>1, PushFacts
      <4>3. open' = {"manager", "tsnet", "mirror"}
        BY <2>1, <2>2, <3>2, StackFacts
      <4> QED
        BY <4>2, <4>3
    <3> QED
      BY <2>2, <3>1, <3>2 DEF Mid
  <2> QED
    <3>1. CASE deferred' = <<"manager", "tsnet", "cancel">> /\ open' = {"manager", "tsnet"}
      <4>1. Range(deferred') = {"manager", "tsnet", "cancel"}
        BY <3>1, StackFacts
      <4>2. open' = Range(deferred') \ {"cancel"}
        BY <3>1, <4>1
      <4>3. deferred' \in High /\ deferred' \in Stacks
        BY <3>1 DEF Stacks, High
      <4> QED
        BY <2>1, <4>2, <4>3 DEF StackInOrder
    <3>2. CASE deferred' = <<"manager", "tsnet", "mirror", "cancel">> /\ open' = {"manager", "tsnet", "mirror"}
      <4>1. Range(deferred') = {"manager", "tsnet", "mirror", "cancel"}
        BY <3>2, StackFacts
      <4>2. open' = Range(deferred') \ {"cancel"}
        BY <3>2, <4>1
      <4>3. deferred' \in High /\ deferred' \in Stacks
        BY <3>2 DEF Stacks, High
      <4> QED
        BY <2>1, <4>2, <4>3 DEF StackInOrder
    <3> QED
      BY <2>3, <3>1, <3>2
<1> QED
  BY <1>1, <1>2, <1>3, <1>4, <1>5, <1>6, <1>7

\* Every step keeps the stack in order, and with it what UnwoundInOrder asks.
LEMMA UnwindStep ==
    ASSUME StackInOrder, [Next]_vars
    PROVE  /\ StackInOrder'
           /\ step' = "exited" /\ step # "exited" => open' = {}
           /\ "manager" \in open \ open' => "tsnet" \in open'
           /\ step = "unwind" /\ deferred' # deferred /\ ~ctxDone /\ ctxDone' =>
                 open \subseteq {"mirror"}
<1>1. CASE UNCHANGED <<step, open, deferred>>
  BY <1>1 DEF StackInOrder
<1>2. CASE Signal
  BY <1>1, <1>2 DEF Signal
<1>3. CASE \E s \in Steps : Proceed(s)
  <2>1. PICK s \in Steps : Proceed(s)
    BY <1>3
  <2>2. step = s /\ step' = Follows[s] /\ s # "unwind" /\ Follows[s] # "exited"
    BY <2>1 DEF Proceed, Steps, Follows
  <2> QED
    BY <2>1, <2>2, ProceedStack
<1>4. CASE \/ Auth \/ ParseModes \/ StartLocal \/ FanIn \/ awaitTerminal
           \/ \E s \in Steps \cup {"traefik"} : Fail(s)
           \/ \E m \in Modes : StartFails(m)
  <2>1. UNCHANGED <<open, deferred>>
    BY <1>4 DEF Auth, ParseModes, StartLocal, FanIn, awaitTerminal, Fail, StartFails
  <2>2. /\ step # "flush"
        /\ \/ step' = "unwind"
           \/ step = "auth" /\ step' = "store"
           \/ step = "modes" /\ step' = "traefik"
           \/ step = "traefik" /\ step' = "watch"
           \/ step = "watch" /\ step' = "await"
    BY <1>4 DEF Auth, ParseModes, StartLocal, FanIn, awaitTerminal, Fail, StartFails, Starting,
                Return, Steps, Follows
  <2> QED
    BY <2>1, <2>2 DEF StackInOrder
<1>5. CASE RunDeferred
  <2>1. PICK d \in Stacks : d = deferred /\ d # <<>> /\ deferred' = Tail(d)
    BY <1>5 DEF RunDeferred, StackInOrder
  <2>2. /\ step = "unwind" /\ open = Range(d) \ {"cancel"}
        /\ open' = IF Head(d) = "mirror" THEN open ELSE open \ {Head(d)}
        /\ ctxDone' = (ctxDone \/ Head(d) \in {"mirror", "cancel"})
        /\ step' = IF Head(d) = "mirror" THEN "flush" ELSE "unwind"
    BY <1>5, <2>1 DEF RunDeferred, StackInOrder
  <2>3. CASE Head(d) = "mirror"
    <3>1. d = <<"mirror", "cancel">>
      BY <2>1, <2>3, PopStack
    <3>2. deferred' = <<"cancel">> /\ open = {"mirror"} /\ open' = {"mirror"} /\ step' = "flush"
      BY <2>1, <2>2, <2>3, <3>1, StackFacts
    <3> QED
      BY <2>2, <3>2 DEF StackInOrder, Stacks, Low
  <2>4. CASE Head(d) # "mirror"
    <3>1. /\ deferred' \in Stacks /\ step' = "unwind"
          /\ open' = Range(deferred') \ {"cancel"}
      BY <2>1, <2>2, <2>4, PopStack
    <3>2. StackInOrder'
      BY <3>1 DEF StackInOrder
    <3>3. "manager" \in open \ open' => "tsnet" \in open'
      BY <2>1, <2>2, <3>1, PopStack
    <3>4. ~ctxDone /\ ctxDone' => open \subseteq {"mirror"}
      <4>1. Head(d) = "cancel" => open = {}
        BY <2>1, <2>2, PopStack, StackFacts
      <4> QED
        BY <2>2, <2>4, <4>1
    <3> QED
      BY <3>1, <3>2, <3>3, <3>4
  <2> QED
    BY <2>3, <2>4
<1>6. CASE Flush
  <2>1. /\ step = "flush" /\ step' = "unwind" /\ deferred' = deferred
        /\ deferred = <<"cancel">> /\ open' = {}
    BY <1>6 DEF Flush, StackInOrder
  <2> QED
    BY <2>1, StackFacts DEF StackInOrder
<1>7. CASE Exit
  <2>1. /\ step = "unwind" /\ step' = "exited" /\ UNCHANGED <<open, deferred>>
        /\ deferred = <<>> /\ open = {}
    BY <1>7, StackFacts DEF Exit, StackInOrder
  <2> QED
    BY <2>1, StackFacts DEF StackInOrder
<1>8. CASE \/ StartDocker \/ Local \/ Discovery \/ Fatal
           \/ \E m \in AwsModes : StartReader(m) \/ StartReaders(m)
           \/ \E m \in Modes : ModeReports(m)
           \/ \E g \in Groups : Coordinate(g)
           \/ \E s \in Servers : ServeReturns(s)
  <2>1. UNCHANGED main
    BY <1>8 DEF StartDocker, Local, Listen, Select, Shutdown, Discovery,
                DockerReturns, Resolve, ReaderReturns, Fatal, StartReader,
                StartReaders, ModeReports, Coordinate, ServeReturns
  <2> QED
    BY <2>1, <1>1 DEF main
<1>9. "up" \in Steps
  BY DEF Steps, Follows
<1>10. CASE UNCHANGED vars
  BY <1>1, <1>10 DEF vars, main
<1> QED
  BY <1>2, <1>3, <1>4, <1>5, <1>6, <1>7, <1>8, <1>9, <1>10 DEF Next, Main

\* run closes all it has opened, the manager before tsnet, and cancels ctx only
\* when both are closed.
THEOREM UnwindsInOrder == Spec => UnwoundInOrder
<1>1. Init => StackInOrder
  BY StackFacts DEF Init, StackInOrder, Stacks
<1>2. StackInOrder /\ [Next]_vars => StackInOrder'
  BY UnwindStep
<1>3. StackInOrder /\ [Next]_vars =>
          [/\ step' = "exited" => open' = {}
           /\ "manager" \in open \ open' => "tsnet" \in open'
           /\ step = "unwind" /\ deferred' # deferred /\ ~ctxDone /\ ctxDone' =>
                 open \subseteq {"mirror"}]_vars
  <2>1. Next => step # "exited"
    BY DEF Next
  <2> QED
    BY <2>1, UnwindStep
<1> QED
  BY <1>1, <1>2, <1>3, PTL DEF Spec, UnwoundInOrder

-----------------------------------------------------------------------------
(* The readers.                                                             *)

\* A tuple of one is a sequence.
LEMMA Singleton ==
    ASSUME NEW S, NEW x \in S
    PROVE  <<x>> \in Seq(S)
OBVIOUS

\* A function on 1 .. n is a sequence.
LEMMA FunctionSeq ==
    ASSUME NEW S, NEW n \in Nat, NEW q \in [1 .. n -> S]
    PROVE  q \in Seq(S) /\ Len(q) = n /\ DOMAIN q = 1 .. n
OBVIOUS

\* A plan names its readers; one of listed accounts has a reader for each.
LEMMA PlanFacts ==
    ASSUME config \in Configs, NEW m \in AwsModes
    PROVE  /\ Plan(m) \in Seq(Names)
           /\ Listed(m) # <<>> => /\ Listed(m) \in Seq(AccountSpec)
                                  /\ Len(Plan(m)) = Len(Listed(m))
<1>1. Listed(m) \in Seq(AccountSpec)
  BY ConfigsAssumption DEF Listed
<1>2. CASE Listed(m) = <<>>
  <2>1. Plan(m) = <<"">>
    BY <1>2 DEF Plan, Listed
  <2>2. <<"">> \in Seq(Names)
    BY NamesAssumption, Singleton
  <2>3. QED
    BY <2>1, <2>2, <1>2
<1>3. CASE Listed(m) # <<>>
  <2>1. Plan(m) = [i \in 1 .. Len(Listed(m)) |-> Listed(m)[i].name]
    BY <1>1, <1>3 DEF Plan, Listed
  <2>2. Len(Listed(m)) \in Nat /\ \A i \in 1 .. Len(Listed(m)) : Listed(m)[i].name \in Names
    <3>1. Len(Listed(m)) \in Nat /\ Listed(m) \in [1 .. Len(Listed(m)) -> AccountSpec]
      BY <1>1, LenProperties
    <3>2. QED
      BY <3>1 DEF AccountSpec
  <2>3. QED
    BY <1>1, <2>1, <2>2
<1>4. QED
  BY <1>2, <1>3

\* Append, in one place.
LEMMA AppendFacts ==
    ASSUME NEW S, NEW q \in Seq(S), NEW e \in S
    PROVE  /\ Append(q, e) \in Seq(S)
           /\ Len(q) \in Nat
           /\ Len(Append(q, e)) = Len(q) + 1
           /\ DOMAIN Append(q, e) = DOMAIN q \cup {Len(q) + 1}
           /\ Len(q) + 1 \notin DOMAIN q
           /\ \A i \in DOMAIN q : Append(q, e)[i] = q[i]
           /\ Append(q, e)[Len(q) + 1] = e
BY AppendProperties, LenProperties

\* Add(m, r), from which readers[m] has n readers.
Added(m, r, n) ==
    /\ readers' \in [AwsModes -> Seq(Reader)]
    /\ \A k \in AwsModes \ {m} : readers'[k] = readers[k]
    /\ n = Len(readers[m]) + 1
    /\ Len(readers'[m]) = n
    /\ DOMAIN readers'[m] = DOMAIN readers[m] \cup {n}
    /\ n \notin DOMAIN readers[m]
    /\ \A i \in DOMAIN readers[m] : readers'[m][i] = readers[m][i]
    /\ readers'[m][n] = r

\* Add does just that.
LEMMA AddFacts ==
    ASSUME NEW m \in AwsModes, NEW r \in Reader, Add(m, r),
           readers \in [AwsModes -> Seq(Reader)]
    PROVE  \E n \in Nat : Added(m, r, n)
<1>1. PICK q \in Seq(Reader) : q = readers[m]
  OBVIOUS
<1>2. PICK n \in Nat : n = Len(q) + 1
  BY AppendFacts
<1>3. /\ readers' \in [AwsModes -> Seq(Reader)]
      /\ \A k \in AwsModes \ {m} : readers'[k] = readers[k]
      /\ readers'[m] = Append(q, r)
  BY <1>1, AppendFacts DEF Add
<1>4. /\ Len(Append(q, r)) = n
      /\ DOMAIN Append(q, r) = DOMAIN q \cup {n}
      /\ n \notin DOMAIN q
      /\ \A i \in DOMAIN q : Append(q, r)[i] = q[i]
      /\ Append(q, r)[n] = r
  BY <1>2, AppendFacts
<1>5. QED
  BY <1>1, <1>2, <1>3, <1>4 DEF Added

\* What a new reader has to satisfy for the invariant to survive.
LEMMA AddKeeps ==
    ASSUME IInv, config' = config,
           NEW m \in AwsModes, NEW r \in Reader, Add(m, r),
           claims' \in [AwsModes -> SUBSET Names],
           \A k \in AwsModes : claims[k] \subseteq claims'[k],
           Len(readers[m]) + 1 <= Len(Plan(m)),
           r.lazy => Listed(m) # <<>>,
           r.account # "" => r.account \in claims'[m],
           r.account # "" /\ r.account \in claims[m] => r.warned,
           r.status = "disabled" \/ r.lazy => r.error
    PROVE  IInv'
<1>1. readers \in [AwsModes -> Seq(Reader)] /\ readers[m] \in Seq(Reader)
  BY DEF IInv, ReadersInOrder
<1>2. PICK n \in Nat : Added(m, r, n)
  BY <1>1, AddFacts
<1>3. /\ readers' \in [AwsModes -> Seq(Reader)]
      /\ \A k \in AwsModes \ {m} : readers'[k] = readers[k]
  BY <1>2 DEF Added
<1>4. /\ n = Len(readers[m]) + 1 /\ Len(readers'[m]) = n
      /\ DOMAIN readers'[m] = DOMAIN readers[m] \cup {n}
      /\ n \notin DOMAIN readers[m]
      /\ \A i \in DOMAIN readers[m] : readers'[m][i] = readers[m][i]
      /\ readers'[m][n] = r
  BY <1>2 DEF Added
<1>5. \A k \in AwsModes : Listed(k)' = Listed(k) /\ Plan(k)' = Plan(k)
  BY DEF Listed, Plan
<1>6. ReadersInOrder'
  <2>1. ASSUME NEW k \in AwsModes, NEW i \in DOMAIN readers'[k]
        PROVE  /\ readers'[k][i].lazy => Listed(k) # <<>>
               /\ readers'[k][i].account # "" => readers'[k][i].account \in claims'[k]
    <3>1. CASE k = m /\ i = n
      BY <3>1, <1>4
    <3>2. CASE ~(k = m /\ i = n)
      <4>1. i \in DOMAIN readers[k] /\ readers'[k][i] = readers[k][i]
        <5>1. CASE k = m
          BY <5>1, <3>2, <1>4, <2>1
        <5>2. CASE k # m
          BY <5>2, <1>3, <2>1
        <5>3. QED
          BY <5>1, <5>2
      <4>2. QED
        BY <4>1 DEF IInv, ReadersInOrder
    <3>3. QED
      BY <3>1, <3>2
  <2>2. ASSUME NEW k \in AwsModes
        PROVE  Len(readers'[k]) <= Len(Plan(k))
    <3>1. CASE k = m
      BY <3>1, <2>2, <1>4
    <3>2. CASE k # m
      BY <3>2, <2>2, <1>3 DEF IInv, ReadersInOrder
    <3>3. QED
      BY <3>1, <3>2
  <2>3. config' \in Configs
    BY DEF IInv, ReadersInOrder
  <2>4. QED
    BY <2>1, <2>2, <2>3, <1>3, <1>5 DEF ReadersInOrder
<1>7. NoSilentReader'
  <2>1. ASSUME NEW k \in AwsModes, NEW i \in DOMAIN readers'[k],
               readers'[k][i].status = "disabled" \/ readers'[k][i].lazy
        PROVE  readers'[k][i].error
    <3>1. CASE k = m /\ i = n
      BY <3>1, <2>1, <1>4
    <3>2. CASE ~(k = m /\ i = n)
      <4>1. i \in DOMAIN readers[k] /\ readers'[k][i] = readers[k][i]
        <5>1. CASE k = m
          BY <5>1, <3>2, <1>4, <2>1
        <5>2. CASE k # m
          BY <5>2, <1>3, <2>1
        <5>3. QED
          BY <5>1, <5>2
      <4>2. QED
        BY <4>1, <2>1 DEF IInv, NoSilentReader
    <3>3. QED
      BY <3>1, <3>2
  <2>2. ASSUME NEW k \in AwsModes,
               NEW i \in DOMAIN readers'[k], NEW j \in DOMAIN readers'[k],
               i # j, readers'[k][i].account # "",
               readers'[k][i].account = readers'[k][j].account
        PROVE  readers'[k][i].warned \/ readers'[k][j].warned
    <3>1. ASSUME k = m, NEW p \in DOMAIN readers[m], r.account # "",
                 readers[m][p].account = r.account
          PROVE  r.warned
      BY <3>1 DEF IInv, ReadersInOrder
    <3>2. CASE k = m /\ i = n
      BY <3>2, <3>1, <2>2, <1>4
    <3>3. CASE k = m /\ j = n
      BY <3>3, <3>1, <2>2, <1>4
    <3>4. CASE ~(k = m /\ (i = n \/ j = n))
      <4>1. /\ i \in DOMAIN readers[k] /\ readers'[k][i] = readers[k][i]
            /\ j \in DOMAIN readers[k] /\ readers'[k][j] = readers[k][j]
        BY <3>4, <1>3, <1>4, <2>2
      <4>2. QED
        BY <4>1, <2>2 DEF IInv, NoSilentReader
    <3>5. QED
      BY <3>2, <3>3, <3>4
  <2>3. QED
    BY <2>1, <2>2 DEF NoSilentReader
<1>8. QED
  BY <1>6, <1>7 DEF IInv
\* What a step that keeps the readers of mode m in number has to satisfy.
LEMMA ChangeKeeps ==
    ASSUME IInv, config' = config,
           NEW m \in AwsModes, NEW q \in Seq(Reader),
           readers' = [readers EXCEPT ![m] = q],
           Len(q) = Len(readers[m]), DOMAIN q = DOMAIN readers[m],
           claims' \in [AwsModes -> SUBSET Names],
           \A k \in AwsModes : claims[k] \subseteq claims'[k],
           \A i \in DOMAIN q :
               /\ q[i].lazy => readers[m][i].lazy
               /\ q[i].account # "" => q[i].account \in claims'[m]
               /\ q[i].status = "disabled" \/ q[i].lazy => q[i].error,
           \A i, j \in DOMAIN q :
               i # j /\ q[i].account # "" /\ q[i].account = q[j].account =>
                   q[i].warned \/ q[j].warned
    PROVE  IInv'
<1>1. readers \in [AwsModes -> Seq(Reader)]
  BY DEF IInv, ReadersInOrder
<1>2. /\ readers' \in [AwsModes -> Seq(Reader)]
      /\ \A k \in AwsModes \ {m} : readers'[k] = readers[k]
      /\ readers'[m] = q
  BY <1>1
<1>3. \A k \in AwsModes : Listed(k)' = Listed(k) /\ Plan(k)' = Plan(k)
  BY DEF Listed, Plan
<1>4. ReadersInOrder'
  <2>1. ASSUME NEW k \in AwsModes, NEW i \in DOMAIN readers'[k]
        PROVE  /\ readers'[k][i].lazy => Listed(k) # <<>>
               /\ readers'[k][i].account # "" => readers'[k][i].account \in claims'[k]
    <3>1. CASE k = m
      <4>1. i \in DOMAIN q /\ readers'[k][i] = q[i]
        BY <3>1, <2>1, <1>2
      <4>2. readers[m][i].lazy => Listed(m) # <<>>
        BY <4>1 DEF IInv, ReadersInOrder
      <4>3. QED
        BY <3>1, <4>1, <4>2
    <3>2. CASE k # m
      BY <3>2, <2>1, <1>2 DEF IInv, ReadersInOrder
    <3>3. QED
      BY <3>1, <3>2
  <2>2. ASSUME NEW k \in AwsModes
        PROVE  Len(readers'[k]) <= Len(Plan(k))
    <3>1. Len(readers'[k]) = Len(readers[k])
      BY <1>2
    <3>2. QED
      BY <3>1, <2>2 DEF IInv, ReadersInOrder
  <2>3. config' \in Configs
    BY DEF IInv, ReadersInOrder
  <2>4. QED
    BY <2>1, <2>2, <2>3, <1>2, <1>3 DEF ReadersInOrder
<1>5. NoSilentReader'
  <2>1. ASSUME NEW k \in AwsModes, NEW i \in DOMAIN readers'[k],
               readers'[k][i].status = "disabled" \/ readers'[k][i].lazy
        PROVE  readers'[k][i].error
    <3>1. CASE k = m
      BY <3>1, <2>1, <1>2
    <3>2. CASE k # m
      BY <3>2, <2>1, <1>2 DEF IInv, NoSilentReader
    <3>3. QED
      BY <3>1, <3>2
  <2>2. ASSUME NEW k \in AwsModes,
               NEW i \in DOMAIN readers'[k], NEW j \in DOMAIN readers'[k],
               i # j, readers'[k][i].account # "",
               readers'[k][i].account = readers'[k][j].account
        PROVE  readers'[k][i].warned \/ readers'[k][j].warned
    <3>1. CASE k = m
      BY <3>1, <2>2, <1>2
    <3>2. CASE k # m
      BY <3>2, <2>2, <1>2 DEF IInv, NoSilentReader
    <3>3. QED
      BY <3>1, <3>2
  <2>3. QED
    BY <2>1, <2>2 DEF NoSilentReader
<1>6. QED
  BY <1>4, <1>5 DEF IInv

\* The readers a build may add.
LEMMA NewReaders ==
    /\ NewReader \in Reader
    /\ NewReader.status = "ready" /\ NewReader.account = "" /\ ~NewReader.lazy
    /\ LET r == [NewReader EXCEPT !.status = "disabled", !.error = TRUE]
       IN r \in Reader /\ ~r.lazy /\ r.account = "" /\ r.error /\ r.status = "disabled"
    /\ LET r == [NewReader EXCEPT !.lazy = TRUE, !.error = TRUE]
       IN r \in Reader /\ r.lazy /\ r.account = "" /\ r.error /\ r.status = "ready"
BY NamesAssumption DEF NewReader, Reader

\* What onResolved makes of a reader.
LEMMA ResolvedReader ==
    ASSUME NEW r \in Reader, NEW m, NEW i, Listed(m)[i].account \in Names
    PROVE  LET s == Resolved(m, i, r) IN
           /\ s \in Reader
           /\ s.account = Listed(m)[i].account
           /\ s.status = r.status /\ s.error = r.error
           /\ ~s.lazy
           /\ Listed(m)[i].account \in claims[m] => s.warned
<1>1. PICK w \in BOOLEAN : w <=> Listed(m)[i].account \in claims[m]
  OBVIOUS
<1>2. PICK a \in Names : a = Listed(m)[i].account
  OBVIOUS
<1>3. Resolved(m, i, r) = [r EXCEPT !.account = a, !.warned = w, !.lazy = FALSE]
  BY <1>1, <1>2, Zenon DEF Resolved, Listed
<1>4. LET s == [r EXCEPT !.account = a, !.warned = w, !.lazy = FALSE] IN
      /\ s \in Reader
      /\ s.account = a
      /\ s.status = r.status /\ s.error = r.error
      /\ s.lazy = FALSE
      /\ s.warned = w
  BY DEF Reader
<1>5. QED
  BY <1>1, <1>2, <1>3, <1>4

\* A reader is built.
LEMMA BuildStep ==
    ASSUME IInv, NEW m \in AwsModes, BuildReader(m)
    PROVE  IInv'
<1>1. /\ config \in Configs
      /\ readers \in [AwsModes -> Seq(Reader)] /\ readers[m] \in Seq(Reader)
      /\ claims \in [AwsModes -> SUBSET Names]
  BY DEF IInv, ReadersInOrder
<1>2. ~Built(m) /\ config' = config
  BY DEF BuildReader, BuildDisabled, BuildNamed, BuildResolved, BuildLazy
<1>3. /\ Len(readers[m]) + 1 <= Len(Plan(m))
      /\ Plan(m)[Len(readers[m]) + 1] \in Names
      /\ Listed(m) # <<>> => Listed(m)[Len(readers[m]) + 1] \in AccountSpec
  <2>1. /\ Plan(m) \in Seq(Names)
        /\ Listed(m) # <<>> => /\ Listed(m) \in Seq(AccountSpec)
                               /\ Len(Plan(m)) = Len(Listed(m))
    BY <1>1, PlanFacts
  <2>2. Len(readers[m]) \in Nat /\ Len(Plan(m)) \in Nat
    BY <2>1, <1>1, LenProperties
  <2>3. Len(readers[m]) <= Len(Plan(m)) /\ Len(readers[m]) # Len(Plan(m))
    BY <1>2 DEF Built, IInv, ReadersInOrder
  <2>4. Len(readers[m]) + 1 \in 1 .. Len(Plan(m)) /\ Len(readers[m]) + 1 <= Len(Plan(m))
    BY <2>2, <2>3
  <2>5. QED
    BY <2>1, <2>4
<1>4. CASE BuildDisabled(m)
  <2>1. PICK r \in Reader : Add(m, r) /\ ~r.lazy /\ r.account = "" /\ r.error
    BY <1>4, NewReaders DEF BuildDisabled
  <2>2. claims' = claims
    BY <1>4 DEF BuildDisabled
  <2>3. QED
    BY <1>1, <1>2, <1>3, <2>1, <2>2, AddKeeps
<1>5. CASE BuildNamed(m)
  <2>1. PICK r \in Reader :
            Add(m, r) /\ r.status = "ready" /\ r.account = "" /\ ~r.lazy
    BY <1>5, NewReaders DEF BuildNamed
  <2>2. /\ claims' \in [AwsModes -> SUBSET Names]
        /\ \A k \in AwsModes : claims[k] \subseteq claims'[k]
    <3>1. \/ claims' = claims
          \/ claims' = [claims EXCEPT ![m] = @ \cup {Plan(m)[Len(readers[m]) + 1]}]
      BY <1>5 DEF BuildNamed, Claim
    <3>2. QED
      BY <3>1, <1>1, <1>3
  <2>3. QED
    BY <1>1, <1>2, <1>3, <2>1, <2>2, AddKeeps
<1>6. CASE BuildResolved(m)
  <2>1. Listed(m) # <<>>
    BY <1>6 DEF BuildResolved, Derived, Listed
  <2>2. PICK a \in Names : a = Listed(m)[Len(readers[m]) + 1].account
    BY <2>1, <1>3 DEF AccountSpec
  <2>3. PICK r \in Reader :
            /\ Add(m, r) /\ ~r.lazy /\ r.status = "ready" /\ r.account = a
            /\ a \in claims[m] => r.warned
    <3>1. PICK i : i = Len(readers[m]) + 1
      OBVIOUS
    <3>2. Add(m, Resolved(m, i, NewReader))
      BY <1>6, <3>1 DEF BuildResolved
    <3>3. NewReader \in Reader /\ NewReader.status = "ready"
      BY NewReaders
    <3>4. Listed(m)[i].account = a /\ a \in Names
      BY <3>1, <2>2
    <3>5. LET r == Resolved(m, i, NewReader) IN
          /\ r \in Reader /\ ~r.lazy /\ r.status = "ready" /\ r.account = a
          /\ a \in claims[m] => r.warned
      BY <3>3, <3>4, ResolvedReader
    <3>6. QED
      BY <3>2, <3>5
  <2>4. claims' = [claims EXCEPT ![m] = @ \cup {a}]
    BY <1>6, <2>2 DEF BuildResolved, Claim, Listed
  <2>5. /\ claims' \in [AwsModes -> SUBSET Names]
        /\ \A k \in AwsModes : claims[k] \subseteq claims'[k]
        /\ a \in claims'[m]
    BY <2>4, <1>1
  <2>6. r.account # "" /\ r.account \in claims[m] => r.warned
    BY <2>3
  <2>7. QED
    BY <1>1, <1>2, <1>3, <2>1, <2>3, <2>5, <2>6, AddKeeps
<1>7. CASE BuildLazy(m)
  <2>1. Listed(m) # <<>>
    BY <1>7 DEF BuildLazy, Derived, Listed
  <2>2. PICK r \in Reader : Add(m, r) /\ r.lazy /\ r.account = "" /\ r.error
    BY <1>7, NewReaders DEF BuildLazy
  <2>3. claims' = claims
    BY <1>7 DEF BuildLazy
  <2>4. QED
    BY <1>1, <1>2, <1>3, <2>1, <2>2, <2>3, AddKeeps
<1>8. QED
  BY <1>4, <1>5, <1>6, <1>7 DEF BuildReader

\* The readers of a mode are started: their status alone changes.
LEMMA StartStep ==
    ASSUME IInv, NEW m \in AwsModes, StartReaders(m)
    PROVE  IInv'
<1>1. /\ readers \in [AwsModes -> Seq(Reader)] /\ readers[m] \in Seq(Reader)
      /\ claims \in [AwsModes -> SUBSET Names]
  BY DEF IInv, ReadersInOrder
<1>2. PICK q : q = [i \in DOMAIN readers[m] |->
                       IF i \in Watchers(m)
                       THEN [readers[m][i] EXCEPT !.status = "running"]
                       ELSE readers[m][i]]
  OBVIOUS
<1>3. /\ readers' = [readers EXCEPT ![m] = q]
      /\ config' = config /\ claims' = claims
  BY <1>2 DEF StartReaders
<1>4. /\ readers[m] \in [1 .. Len(readers[m]) -> Reader]
      /\ Len(readers[m]) \in Nat
  BY <1>1, LenProperties
<1>5. ASSUME NEW i \in DOMAIN readers[m], NEW r \in Reader, r = readers[m][i]
      PROVE  /\ q[i] \in Reader
             /\ q[i].account = r.account /\ q[i].lazy = r.lazy
             /\ q[i].error = r.error /\ q[i].warned = r.warned
             /\ q[i].status = "disabled" => r.status = "disabled"
  <2>1. CASE i \in Watchers(m)
    BY <2>1, <1>2, <1>5 DEF Reader
  <2>2. CASE i \notin Watchers(m)
    BY <2>2, <1>2, <1>5
  <2>3. QED
    BY <2>1, <2>2
<1>6. \A i \in DOMAIN readers[m] : readers[m][i] \in Reader
  BY <1>4
<1>7. /\ q \in Seq(Reader)
      /\ Len(q) = Len(readers[m]) /\ DOMAIN q = DOMAIN readers[m]
  <2>1. q \in [1 .. Len(readers[m]) -> Reader]
    BY <1>2, <1>4, <1>5, <1>6
  <2>2. QED
    BY <2>1, <1>4, FunctionSeq
<1>8. ASSUME NEW i \in DOMAIN q
      PROVE  /\ q[i].lazy => readers[m][i].lazy
             /\ q[i].account # "" => q[i].account \in claims'[m]
             /\ q[i].status = "disabled" \/ q[i].lazy => q[i].error
  <2>1. PICK r \in Reader : r = readers[m][i]
    BY <1>6, <1>7
  <2>2. /\ q[i].account = r.account /\ q[i].lazy = r.lazy /\ q[i].error = r.error
        /\ q[i].status = "disabled" => r.status = "disabled"
    BY <1>5, <1>7, <2>1
  <2>3. /\ r.account # "" => r.account \in claims[m]
        /\ r.status = "disabled" \/ r.lazy => r.error
    BY <1>7, <2>1 DEF IInv, ReadersInOrder, NoSilentReader
  <2>4. QED
    BY <1>3, <2>1, <2>2, <2>3
<1>9. ASSUME NEW i \in DOMAIN q, NEW j \in DOMAIN q,
             i # j, q[i].account # "", q[i].account = q[j].account
      PROVE  q[i].warned \/ q[j].warned
  <2>1. PICK r \in Reader : r = readers[m][i]
    BY <1>6, <1>7
  <2>2. PICK s \in Reader : s = readers[m][j]
    BY <1>6, <1>7
  <2>3. /\ q[i].account = r.account /\ q[i].warned = r.warned
        /\ q[j].account = s.account /\ q[j].warned = s.warned
    BY <1>5, <1>7, <2>1, <2>2
  <2>4. r.account # "" /\ r.account = s.account => r.warned \/ s.warned
    BY <1>7, <1>9, <2>1, <2>2 DEF IInv, NoSilentReader
  <2>5. QED
    BY <1>9, <2>3, <2>4
<1>10. /\ claims' \in [AwsModes -> SUBSET Names]
       /\ \A k \in AwsModes : claims[k] \subseteq claims'[k]
  BY <1>1, <1>3
<1>11. QED
  BY <1>3, <1>7, <1>8, <1>9, <1>10, ChangeKeeps

\* One reader of a mode is replaced, as when it resolves its account or returns.
Replaced(m, i, s) ==
    /\ config' = config
    /\ readers' = [readers EXCEPT ![m][i] = s]
    /\ claims' \in [AwsModes -> SUBSET Names]
    /\ \A k \in AwsModes : claims[k] \subseteq claims'[k]
    /\ s.lazy => readers[m][i].lazy
    /\ s.account # "" => s.account \in claims'[m]
    /\ s.status = "disabled" \/ s.lazy => s.error
    /\ \A j \in DOMAIN readers[m] :
          j # i /\ s.account # "" /\ s.account = readers[m][j].account =>
              s.warned \/ readers[m][j].warned

\* Which keeps the invariant.
LEMMA ReplaceStep ==
    ASSUME IInv, NEW m \in AwsModes, NEW i \in DOMAIN readers[m], NEW s \in Reader,
           Replaced(m, i, s)
    PROVE  IInv'
<1>1. readers \in [AwsModes -> Seq(Reader)] /\ readers[m] \in Seq(Reader)
  BY DEF IInv, ReadersInOrder
<1>2. PICK q : q = [readers[m] EXCEPT ![i] = s]
  OBVIOUS
<1>3. readers' = [readers EXCEPT ![m] = q] /\ config' = config
  BY <1>1, <1>2 DEF Replaced
<1>4. /\ readers[m] \in [1 .. Len(readers[m]) -> Reader]
      /\ Len(readers[m]) \in Nat /\ DOMAIN readers[m] = 1 .. Len(readers[m])
  BY <1>1, LenProperties
<1>5. /\ q \in Seq(Reader)
      /\ Len(q) = Len(readers[m]) /\ DOMAIN q = DOMAIN readers[m]
  <2>1. q \in [1 .. Len(readers[m]) -> Reader]
    BY <1>2, <1>4
  <2>2. QED
    BY <2>1, <1>4, FunctionSeq
<1>6. q[i] = s /\ \A j \in DOMAIN readers[m] \ {i} : q[j] = readers[m][j]
  BY <1>2, <1>4
<1>7. ASSUME NEW j \in DOMAIN q
      PROVE  /\ q[j].lazy => readers[m][j].lazy
             /\ q[j].account # "" => q[j].account \in claims'[m]
             /\ q[j].status = "disabled" \/ q[j].lazy => q[j].error
  <2>1. CASE j = i
    BY <2>1, <1>6 DEF Replaced
  <2>2. CASE j # i
    BY <2>2, <1>5, <1>6 DEF Replaced, IInv, ReadersInOrder, NoSilentReader
  <2>3. QED
    BY <2>1, <2>2
<1>8. ASSUME NEW j \in DOMAIN q, NEW k \in DOMAIN q,
             j # k, q[j].account # "", q[j].account = q[k].account
      PROVE  q[j].warned \/ q[k].warned
  <2>1. CASE j = i
    BY <2>1, <1>5, <1>6, <1>8 DEF Replaced
  <2>2. CASE k = i
    BY <2>2, <1>5, <1>6, <1>8 DEF Replaced
  <2>3. CASE j # i /\ k # i
    <3>1. /\ j \in DOMAIN readers[m] /\ q[j] = readers[m][j]
          /\ k \in DOMAIN readers[m] /\ q[k] = readers[m][k]
      BY <2>3, <1>5, <1>6
    <3>2. QED
      BY <3>1, <1>8 DEF IInv, NoSilentReader
  <2>4. QED
    BY <2>1, <2>2, <2>3
<1>9. /\ claims' \in [AwsModes -> SUBSET Names]
      /\ \A k \in AwsModes : claims[k] \subseteq claims'[k]
  BY DEF Replaced
<1>10. QED
  BY <1>3, <1>5, <1>7, <1>8, <1>9, ChangeKeeps

\* A reader that returns changes in its status alone.
LEMMA ReturnedReader ==
    ASSUME NEW r \in Reader
    PROVE  LET s == [r EXCEPT !.status = "returned"] IN
           /\ s \in Reader
           /\ s.account = r.account /\ s.lazy = r.lazy /\ s.error = r.error
           /\ s.warned = r.warned /\ s.status = "returned"
BY DEF Reader

\* A reader returns.
LEMMA ReaderReturnsStep ==
    ASSUME IInv, NEW m \in AwsModes, NEW i \in DOMAIN readers[m], ReaderReturns(m, i)
    PROVE  IInv'
<1>1. /\ readers \in [AwsModes -> Seq(Reader)] /\ readers[m] \in Seq(Reader)
      /\ claims \in [AwsModes -> SUBSET Names]
  BY DEF IInv, ReadersInOrder
<1>2. PICK r \in Reader : r = readers[m][i]
  BY <1>1
<1>3. PICK s \in Reader :
          /\ s = [r EXCEPT !.status = "returned"]
          /\ s.account = r.account /\ s.lazy = r.lazy /\ s.error = r.error
          /\ s.warned = r.warned /\ s.status = "returned"
  BY ReturnedReader
<1>4. /\ readers' = [readers EXCEPT ![m][i] = s]
      /\ config' = config /\ claims' = claims
  BY <1>1, <1>2, <1>3 DEF ReaderReturns
<1>5. /\ r.account # "" => r.account \in claims[m]
      /\ r.lazy => r.error
      /\ \A j \in DOMAIN readers[m] :
            j # i /\ r.account # "" /\ r.account = readers[m][j].account =>
                r.warned \/ readers[m][j].warned
  BY <1>2 DEF IInv, ReadersInOrder, NoSilentReader
<1>6. /\ claims' \in [AwsModes -> SUBSET Names]
      /\ \A k \in AwsModes : claims[k] \subseteq claims'[k]
  BY <1>1, <1>4
<1>7. /\ s.lazy => readers[m][i].lazy
      /\ s.account # "" => s.account \in claims'[m]
      /\ s.status = "disabled" \/ s.lazy => s.error
  BY <1>2, <1>3, <1>4, <1>5
<1>8. ASSUME NEW j \in DOMAIN readers[m], j # i, s.account # "",
             s.account = readers[m][j].account
      PROVE  s.warned \/ readers[m][j].warned
  BY <1>3, <1>5, <1>8
<1>9. Replaced(m, i, s)
  BY <1>4, <1>6, <1>7, <1>8 DEF Replaced
<1>10. QED
  BY <1>9, ReplaceStep

\* A reader resolves its account in its first cycle.
LEMMA ResolveStep ==
    ASSUME IInv, NEW m \in AwsModes, NEW i \in DOMAIN readers[m], ResolveLazily(m, i)
    PROVE  IInv'
<1>1. /\ config \in Configs
      /\ readers \in [AwsModes -> Seq(Reader)] /\ readers[m] \in Seq(Reader)
      /\ claims \in [AwsModes -> SUBSET Names]
  BY DEF IInv, ReadersInOrder
<1>2. PICK r \in Reader : r = readers[m][i] /\ r.lazy /\ r.status = "running"
  BY <1>1 DEF ResolveLazily
<1>3. PICK a \in Names : a = Listed(m)[i].account
  <2>1. Listed(m) # <<>>
    BY <1>2 DEF IInv, ReadersInOrder
  <2>2. Listed(m) \in Seq(AccountSpec) /\ Len(readers[m]) <= Len(Listed(m))
    BY <1>1, <2>1, PlanFacts DEF IInv, ReadersInOrder
  <2>3. i \in 1 .. Len(readers[m]) /\ Len(readers[m]) \in Nat /\ Len(Listed(m)) \in Nat
    BY <1>1, <2>2, LenProperties
  <2>4. i \in 1 .. Len(Listed(m))
    BY <2>2, <2>3
  <2>5. Listed(m)[i] \in AccountSpec
    BY <2>2, <2>4
  <2>6. QED
    BY <2>5 DEF AccountSpec
<1>4. PICK s \in Reader :
          /\ s = Resolved(m, i, r)
          /\ s.account = a /\ s.status = "running" /\ ~s.lazy
          /\ a \in claims[m] => s.warned
  BY <1>2, <1>3, ResolvedReader
<1>5. /\ readers' = [readers EXCEPT ![m][i] = s]
      /\ config' = config
      /\ claims' = [claims EXCEPT ![m] = @ \cup {a}]
  BY <1>1, <1>2, <1>3, <1>4 DEF ResolveLazily, Claim, Listed
<1>6. /\ claims' \in [AwsModes -> SUBSET Names]
      /\ \A k \in AwsModes : claims[k] \subseteq claims'[k]
      /\ a \in claims'[m]
  BY <1>1, <1>5
<1>7. ASSUME NEW j \in DOMAIN readers[m], a # "", a = readers[m][j].account
      PROVE  s.warned
  <2>1. a \in claims[m]
    BY <1>7 DEF IInv, ReadersInOrder
  <2>2. QED
    BY <2>1, <1>4
<1>8. /\ s.lazy => readers[m][i].lazy
      /\ s.account # "" => s.account \in claims'[m]
      /\ s.status = "disabled" \/ s.lazy => s.error
  BY <1>4, <1>6
<1>9. ASSUME NEW j \in DOMAIN readers[m], j # i, s.account # "",
             s.account = readers[m][j].account
      PROVE  s.warned \/ readers[m][j].warned
  BY <1>4, <1>7, <1>9
<1>10. Replaced(m, i, s)
  BY <1>5, <1>6, <1>8, <1>9 DEF Replaced
<1>11. QED
  BY <1>10, ReplaceStep

\* The invariant that NoSilentReader follows from.
THEOREM InductiveInvariant == Spec => []IInv
<1>1. Init => IInv
  <2> SUFFICES ASSUME ReadersInit PROVE IInv
    BY DEF Init
  <2>2. /\ config \in Configs
        /\ readers = [m \in AwsModes |-> <<>>]
        /\ claims = [m \in AwsModes |-> {}]
    BY DEF ReadersInit
  <2>3. \A m \in AwsModes : Len(Plan(m)) \in Nat
    BY <2>2, PlanFacts, LenProperties
  <2>4. <<>> \in Seq(Reader) /\ Len(<<>>) = 0 /\ DOMAIN <<>> = {}
    OBVIOUS
  <2>5. /\ readers \in [AwsModes -> Seq(Reader)]
        /\ claims \in [AwsModes -> SUBSET Names]
        /\ \A m \in AwsModes : DOMAIN readers[m] = {} /\ Len(readers[m]) = 0
    BY <2>2, <2>4
  <2>6. \A m \in AwsModes : Len(readers[m]) <= Len(Plan(m))
    BY <2>3, <2>5
  <2>7. QED
    BY <2>2, <2>5, <2>6 DEF IInv, ReadersInOrder, NoSilentReader
<1>2. IInv /\ [Next]_vars => IInv'
  <2> SUFFICES ASSUME IInv, [Next]_vars PROVE IInv'
    OBVIOUS
  <2>2. CASE UNCHANGED readerVars
    <3>1. config' = config /\ readers' = readers /\ claims' = claims
      BY <2>2 DEF readerVars
    <3>2. \A m \in AwsModes : Listed(m)' = Listed(m) /\ Plan(m)' = Plan(m)
      BY <3>1 DEF Listed, Plan
    <3>3. ReadersInOrder'
      BY <3>1, <3>2 DEF IInv, ReadersInOrder
    <3>4. NoSilentReader'
      BY <3>1 DEF IInv, NoSilentReader
    <3>5. QED
      BY <3>3, <3>4 DEF IInv
  <2>3. CASE \E m \in AwsModes : StartReader(m) \/ StartReaders(m)
    <3>1. PICK m \in AwsModes : StartReader(m) \/ StartReaders(m)
      BY <2>3
    <3>2. CASE StartReader(m)
      <4>1. BuildReader(m)
        BY <3>2 DEF StartReader
      <4>2. QED
        BY <4>1, BuildStep
    <3>3. CASE StartReaders(m)
      BY <3>3, StartStep
    <3>4. QED
      BY <3>1, <3>2, <3>3
  <2>4. CASE Discovery
    <3>1. CASE \E v \in {"nil", "canceled", "error"} : DockerReturns(v)
      BY <3>1, <2>2 DEF DockerReturns
    <3>2. CASE \E m \in AwsModes : \E i \in DOMAIN readers[m] :
                   Resolve(m, i) \/ ReaderReturns(m, i)
      <4>1. PICK m \in AwsModes : \E i \in DOMAIN readers[m] :
                Resolve(m, i) \/ ReaderReturns(m, i)
        BY <3>2
      <4>2. PICK i \in DOMAIN readers[m] : Resolve(m, i) \/ ReaderReturns(m, i)
        BY <4>1
      <4>3. CASE Resolve(m, i)
        <5>1. ResolveLazily(m, i)
          BY <4>3 DEF Resolve
        <5>2. QED
          BY <5>1, ResolveStep
      <4>4. CASE ReaderReturns(m, i)
        BY <4>4, ReaderReturnsStep
      <4>5. QED
        BY <4>2, <4>3, <4>4
    <3>3. QED
      BY <3>1, <3>2, <2>4 DEF Discovery
  <2>5. CASE \/ Signal \/ Fatal \/ Local
             \/ \E m \in Modes : ModeReports(m)
             \/ \E g \in Groups : Coordinate(g)
             \/ \E s \in Servers : ServeReturns(s)
    BY <2>5, <2>2 DEF Signal, Fatal, Local, Listen, Select, Shutdown, ModeReports,
                      Coordinate, ServeReturns
  <2>6. CASE \/ Auth \/ ParseModes \/ StartLocal \/ StartDocker \/ FanIn
             \/ \E s \in Steps : Proceed(s)
             \/ \E s \in Steps \cup {"traefik"} : Fail(s)
             \/ \E m \in Modes : StartFails(m)
             \/ awaitTerminal
             \/ RunDeferred \/ Flush \/ Exit
    BY <2>6, <2>2 DEF Auth, ParseModes, StartLocal, StartDocker, FanIn, Proceed,
                      Fail, StartFails, awaitTerminal, RunDeferred, Flush, Exit
  <2>7. "up" \in Steps
    BY DEF Steps, Follows
  <2>8. CASE UNCHANGED vars
    BY <2>8, <2>2 DEF vars
  <2>9. QED
    BY <2>3, <2>4, <2>5, <2>6, <2>7, <2>8 DEF Next, Main
<1>3. QED
  BY <1>1, <1>2, PTL DEF Spec

\* No reader is out of order in silence: one without a watcher or an account
\* shows its error, and a second reader of an account has been warned about.
THEOREM NobodyIsSilent == Spec => []NoSilentReader
<1>1. IInv => NoSilentReader
  BY DEF IInv
<1>2. QED
  BY <1>1, InductiveInvariant, PTL

-----------------------------------------------------------------------------
(***************************************************************************)
(* The channels of run, startModes, runAll and local.Server.Run: each has   *)
(* room for all that its senders will send, and what comes out of them is   *)
(* what happened.                                                           *)
(***************************************************************************)

\* What a goroutine returns: nil, the context's error or another error.
Vals == {"nil", "canceled", "error"}

\* The types of the channels and of what their senders keep.
ChannelType ==
    /\ chan \in [Chans -> Seq(Vals)]
    /\ results \in [Groups -> Seq(Vals)]
    /\ left \in [Groups -> Nat]
    /\ serving \in [Servers -> {"off", "on", "closed", "returned"}]
    /\ firstErr \in {"nil", "error"}
    /\ docker \in {"off", "running"} \cup Vals

\* The steps of run before it starts the local server.
Before == Steps \cup {"auth", "modes", "traefik"}

\* The one send of a server's goroutine, once Serve has returned.
Gone(s) == IF serving[s] = "returned" THEN 1 ELSE 0

\* errCh holds at most one value for each server that has returned, and no
\* ErrServerClosed before Shutdown; localErr gets its one value when Run
\* returns, anything but an error only after ctx is done, and an error only when
\* one was received from errCh or a listener could not be opened.
LocalInOrder ==
    /\ step \in Before => local = "off"
    /\ local \in {"off", "listen"} => serving["tailnet"] = "off"
    /\ local \in {"off", "listen", "metrics"} => serving["metrics"] = "off"
    /\ local \notin {"shutdown", "returned"} =>
          /\ firstErr = "nil"
          /\ \A s \in Servers : serving[s] # "closed"
          /\ Range(chan["errCh"]) \subseteq {"error"}
    /\ local = "shutdown" => firstErr = "error" \/ ctxDone
    /\ local # "returned" => Len(chan["localErr"]) = 0
    /\ Len(chan["localErr"]) <= 1
    /\ Range(chan["localErr"]) \subseteq {"error"} \/ ctxDone
    /\ "error" \in Range(chan["localErr"]) => firstErr = "error" \/ serving["metrics"] = "off"
    /\ Len(chan["errCh"]) <= Gone("tailnet") + Gone("metrics")

\* startModes has not reached mode m.
Unstarted(m) == \A i \in 1 .. started : modes[i] # m

\* The Docker watcher sends once, when it returns, what it returned.
DockerInOrder ==
    /\ Unstarted("docker") => docker = "off"
    /\ docker \in {"off", "running"} => Len(chan["docker"]) = 0
    /\ Len(chan["docker"]) <= 1
    /\ Range(chan["docker"]) \subseteq {docker}
    /\ docker = "canceled" => ctxDone

\* The readers of mode m that have returned: each has sent once.
Returned(m) == {i \in DOMAIN readers[m] : readers[m][i].status = "returned"}

\* The inner runAll of an AWS mode: a result for each reader that has returned,
\* all of them cancellations; its own verdict, nil, only after the last.
ModeInOrder(m) ==
    /\ Unstarted(m) =>
          /\ left[m] = 0 /\ Len(results[m]) = 0 /\ Len(chan[m]) = 0
          /\ \A i \in DOMAIN readers[m] : readers[m][i].status \in {"disabled", "ready"}
    /\ Len(results[m]) <= Cardinality(Returned(m))
    /\ left[m] > 0 => Len(chan[m]) = 0
    /\ Len(chan[m]) <= 1
    /\ Range(results[m]) \subseteq {"canceled"}
    /\ Range(chan[m]) \subseteq {"nil"}
    /\ Len(results[m]) > 0 \/ Len(chan[m]) > 0 => ctxDone

\* Docker is the only mode, and its watcher has returned nil.
OnlyDocker == Range(modes) \subseteq {"docker"} /\ docker = "nil"

\* The outer runAll: the results to come are those of the modes waiting and
\* those already sent; until one is reported watchErr is empty; an error is
\* Docker's; and nil is reported only when every mode has ended or ctx is done.
AllInOrder ==
    /\ IsFiniteSet(waiting)
    /\ left["all"] = Cardinality(waiting) + Len(results["all"])
    /\ left["all"] <= Len(raw)
    /\ step \in Before \cup {"watch"} =>
          /\ waiting = {} /\ Len(results["all"]) = 0 /\ Len(chan["watchErr"]) = 0
    /\ left["all"] > 0 /\ "all" \notin reported => Len(chan["watchErr"]) = 0
    /\ Len(chan["watchErr"]) <= 1
    /\ "error" \in Range(results["all"]) \cup Range(chan["watchErr"]) => docker = "error"
    /\ "canceled" \in Range(results["all"]) => ctxDone
    /\ "nil" \in Range(results["all"]) => ctxDone \/ docker = "nil"
    /\ Range(chan["watchErr"]) \subseteq {"error"} \/ ctxDone \/ OnlyDocker
    /\ left["all"] > 0 => ctxDone \/ Range(modes) \subseteq waiting \cup {"docker"}

\* run starts modes it has parsed, one after the other.
StartInOrder ==
    /\ config \in Configs
    /\ started \in 0 .. Len(raw)
    /\ step \in {"traefik", "watch"} => parsed
    /\ reported \subseteq {"all"}
    /\ Len(chan["fatal"]) <= 1

\* The inductive invariant of the channels: the conjunction of their parts.
FanInv ==
    /\ ChannelType
    /\ StartInOrder
    /\ LocalInOrder
    /\ DockerInOrder
    /\ \A m \in AwsModes : ModeInOrder(m)
    /\ AllInOrder

-----------------------------------------------------------------------------

\* What a channel holds, and what a send or a receive makes of it.
LEMMA Held ==
    ASSUME NEW q \in Seq(Vals)
    PROVE  /\ Len(q) \in Nat
           /\ Range(q) \subseteq Vals
           /\ q # <<>> <=> Len(q) > 0
           /\ Len(q) = 0 => Range(q) = {}
<1>1. Len(q) \in Nat /\ DOMAIN q = 1 .. Len(q) /\ \A i \in 1 .. Len(q) : q[i] \in Vals
  OBVIOUS
<1>2. q # <<>> <=> Len(q) > 0
  BY EmptySeq, <1>1
<1>3. Len(q) = 0 => DOMAIN q = {}
  BY <1>1
<1> QED
  BY <1>1, <1>2, <1>3 DEF Range

\* What a send makes of a channel.
LEMMA Sent ==
    ASSUME NEW q \in Seq(Vals), NEW v \in Vals
    PROVE  /\ Append(q, v) \in Seq(Vals)
           /\ Len(Append(q, v)) = Len(q) + 1
           /\ Range(Append(q, v)) = Range(q) \cup {v}
<1>1. /\ Append(q, v) \in Seq(Vals) /\ Len(Append(q, v)) = Len(q) + 1
      /\ \A i \in 1 .. Len(q) : Append(q, v)[i] = q[i]
      /\ Append(q, v)[Len(q) + 1] = v
  BY AppendProperties
<1>2. DOMAIN q = 1 .. Len(q) /\ DOMAIN Append(q, v) = 1 .. Len(q) + 1 /\ Len(q) \in Nat
  BY <1>1
<1>3. DOMAIN Append(q, v) = DOMAIN q \cup {Len(q) + 1}
  BY <1>2
<1> QED
  BY <1>1, <1>2, <1>3 DEF Range

\* What a receive makes of a channel.
LEMMA Taken ==
    ASSUME NEW q \in Seq(Vals), Len(q) > 0
    PROVE  /\ Tail(q) \in Seq(Vals)
           /\ Len(Tail(q)) = Len(q) - 1
           /\ Range(Tail(q)) \subseteq Range(q)
           /\ Head(q) \in Range(q)
<1>1. q # <<>>
  BY Held
<1>2. /\ Tail(q) \in Seq(Vals) /\ Len(Tail(q)) = Len(q) - 1
      /\ \A i \in 1 .. Len(q) - 1 : Tail(q)[i] = q[i + 1]
      /\ Head(q) = q[1]
  BY <1>1, HeadTailProperties
<1>3. DOMAIN q = 1 .. Len(q) /\ DOMAIN Tail(q) = 1 .. Len(q) - 1 /\ Len(q) \in Nat
  BY <1>2
<1>4. \A i \in DOMAIN Tail(q) : i + 1 \in DOMAIN q /\ Tail(q)[i] = q[i + 1]
  BY <1>2, <1>3
<1>5. 1 \in DOMAIN q
  BY <1>3
<1> QED
  BY <1>2, <1>4, <1>5 DEF Range

\* A send or a receive concerns one channel.
LEMMA SendOne ==
    ASSUME ChannelType, NEW c \in Chans, NEW v \in Vals, Send(c, v)
    PROVE  /\ chan' \in [Chans -> Seq(Vals)]
           /\ \A d \in Chans \ {c} : chan'[d] = chan[d]
           /\ Len(chan'[c]) = Len(chan[c]) + 1
           /\ Range(chan'[c]) = Range(chan[c]) \cup {v}
<1>1. chan[c] \in Seq(Vals)
  BY DEF ChannelType
<1>2. Append(chan[c], v) \in Seq(Vals)
  BY <1>1, Sent
<1>3. chan'[c] = Append(chan[c], v) /\ \A d \in Chans \ {c} : chan'[d] = chan[d]
  BY DEF ChannelType, Send
<1>4. chan' \in [Chans -> Seq(Vals)]
  BY <1>2 DEF ChannelType, Send
<1> QED
  BY <1>1, <1>3, <1>4, Sent

\* A receive takes the head of one channel and leaves the others alone.
LEMMA ReceiveOne ==
    ASSUME ChannelType, NEW c \in Chans, Receive(c)
    PROVE  /\ chan' \in [Chans -> Seq(Vals)]
           /\ \A d \in Chans \ {c} : chan'[d] = chan[d]
           /\ Len(chan[c]) > 0 /\ Len(chan'[c]) = Len(chan[c]) - 1
           /\ Range(chan'[c]) \subseteq Range(chan[c])
           /\ Head(chan[c]) \in Range(chan[c])
<1>1. chan[c] \in Seq(Vals) /\ chan[c] # <<>>
  BY DEF ChannelType, Receive
<1>2. Len(chan[c]) > 0
  BY <1>1, Held
<1>3. chan'[c] = Tail(chan[c]) /\ \A d \in Chans \ {c} : chan'[d] = chan[d]
  BY DEF ChannelType, Receive
<1>4. chan' \in [Chans -> Seq(Vals)]
  BY <1>1, <1>2, Taken DEF ChannelType, Receive
<1> QED
  BY <1>1, <1>2, <1>3, <1>4, Taken

\* The group's results, likewise.
LEMMA ResultSent ==
    ASSUME ChannelType, NEW g \in Groups, NEW v \in Vals,
           results' = [results EXCEPT ![g] = Append(@, v)]
    PROVE  /\ results' \in [Groups -> Seq(Vals)]
           /\ \A h \in Groups \ {g} : results'[h] = results[h]
           /\ Len(results'[g]) = Len(results[g]) + 1
           /\ Range(results'[g]) = Range(results[g]) \cup {v}
<1>1. results[g] \in Seq(Vals)
  BY DEF ChannelType
<1>2. Append(results[g], v) \in Seq(Vals)
  BY <1>1, Sent
<1>3. results'[g] = Append(results[g], v) /\ \A h \in Groups \ {g} : results'[h] = results[h]
  BY DEF ChannelType
<1>4. results' \in [Groups -> Seq(Vals)]
  BY <1>2 DEF ChannelType
<1> QED
  BY <1>1, <1>3, <1>4, Sent

\* A coordinator that takes a result takes the head of its own group's.
LEMMA ResultTaken ==
    ASSUME ChannelType, NEW g \in Groups, results[g] # <<>>,
           results' = [results EXCEPT ![g] = Tail(@)]
    PROVE  /\ results' \in [Groups -> Seq(Vals)]
           /\ \A h \in Groups \ {g} : results'[h] = results[h]
           /\ Len(results[g]) > 0 /\ Len(results'[g]) = Len(results[g]) - 1
           /\ Range(results'[g]) \subseteq Range(results[g])
           /\ Head(results[g]) \in Range(results[g])
<1>1. results[g] \in Seq(Vals)
  BY DEF ChannelType
<1>2. Len(results[g]) > 0
  BY <1>1, Held
<1>3. results'[g] = Tail(results[g]) /\ \A h \in Groups \ {g} : results'[h] = results[h]
  BY DEF ChannelType
<1>4. results' \in [Groups -> Seq(Vals)]
  BY <1>1, <1>2, Taken DEF ChannelType
<1> QED
  BY <1>1, <1>2, <1>3, <1>4, Taken

\* The lengths and contents the invariant speaks of.
LEMMA Contents ==
    ASSUME ChannelType
    PROVE  /\ \A c \in Chans : /\ Len(chan[c]) \in Nat /\ Range(chan[c]) \subseteq Vals
                               /\ Len(chan[c]) = 0 => Range(chan[c]) = {}
           /\ \A g \in Groups : /\ Len(results[g]) \in Nat /\ Range(results[g]) \subseteq Vals
                                /\ Len(results[g]) = 0 => Range(results[g]) = {}
BY Held DEF ChannelType

\* The configuration is given once, and with it the list of modes.
LEMMA SameConfig ==
    ASSUME config' = config
    PROVE  raw' = raw /\ modes' = modes /\ (parsed <=> parsed')
BY DEF raw, modes, parsed

\* What every step does: the configuration stays, ctx stays cancelled, run does
\* not go back, and no mode is unstarted.
Onward ==
    /\ config' = config
    /\ ctxDone => ctxDone'
    /\ step' \in Before => step \in Before
    /\ step' \in Before \cup {"watch"} => step \in Before \cup {"watch"}
    /\ step' \in {"traefik", "watch"} => step \in {"traefik", "watch"} \/ parsed

\* Steps that leave run where it is.
LEMMA StayOnward ==
    ASSUME config' = config, UNCHANGED main
    PROVE  Onward
BY DEF Onward, main

\* Actions that change nothing but where run is.
RunMoves ==
    /\ Onward
    /\ UNCHANGED <<readerVars, started, docker, fanIn, chan, localVars>>

\* Signals, the steps of run and its returns touch neither a channel nor a
\* goroutine.
LEMMA RunAlone ==
    ASSUME \/ Signal \/ (\E s \in Steps : Proceed(s))
           \/ (\E s \in Steps \cup {"traefik"} : Fail(s))
           \/ Auth \/ ParseModes \/ (\E m \in Modes : StartFails(m))
           \/ RunDeferred \/ Flush \/ Exit
    PROVE  RunMoves
<1> USE DEF RunMoves, Onward, Before, Steps, Follows, readerVars
<1>1. CASE Signal
  BY <1>1 DEF Signal
<1>2. ASSUME NEW s \in Steps, Proceed(s) PROVE RunMoves
  BY <1>2 DEF Proceed
<1>3. ASSUME NEW s \in Steps \cup {"traefik"}, Fail(s) PROVE RunMoves
  BY <1>3 DEF Fail, Return
<1>4. CASE Auth
  BY <1>4 DEF Auth, Return
<1>5. CASE ParseModes
  BY <1>5 DEF ParseModes, Return
<1>6. ASSUME NEW m \in Modes, StartFails(m) PROVE RunMoves
  BY <1>6 DEF StartFails, Return
<1>7. CASE RunDeferred
  BY <1>7 DEF RunDeferred
<1>8. CASE Flush \/ Exit
  BY <1>8 DEF Flush, Exit
<1> QED
  BY <1>1, <1>2, <1>3, <1>4, <1>5, <1>6, <1>7, <1>8

\* No step unstarts a mode.
LEMMA UnstartedStays ==
    ASSUME config' = config, started' = started, NEW m
    PROVE  Unstarted(m)' <=> Unstarted(m)
BY SameConfig DEF Unstarted

\* A step that leaves the local server and its channels alone keeps them in
\* order.
LEMMA LocalKeeps ==
    ASSUME FanInv, Onward, UNCHANGED localVars,
           chan'["errCh"] = chan["errCh"], chan'["localErr"] = chan["localErr"]
    PROVE  LocalInOrder'
BY DEF FanInv, Onward, localVars, LocalInOrder, Gone

\* A step that leaves the Docker watcher and its channel alone keeps them in
\* order.
LEMMA DockerKeeps ==
    ASSUME FanInv, Onward, UNCHANGED docker, chan'["docker"] = chan["docker"],
           Unstarted("docker")' => Unstarted("docker")
    PROVE  DockerInOrder'
BY DEF FanInv, Onward, DockerInOrder

\* A step that leaves a mode's readers, results and channel alone keeps them in
\* order.
LEMMA ModeKeeps ==
    ASSUME FanInv, Onward, NEW m \in AwsModes,
           readers'[m] = readers[m], results'[m] = results[m], chan'[m] = chan[m],
           left'[m] = left[m], Unstarted(m)' => Unstarted(m)
    PROVE  ModeInOrder(m)'
<1>1. ModeInOrder(m)
  BY DEF FanInv
<1>2. Returned(m)' = Returned(m)
  BY DEF Returned
<1> QED
  BY <1>1, <1>2 DEF Onward, ModeInOrder

\* A step that leaves the outer runAll and watchErr alone keeps them in order.
LEMMA AllKeeps ==
    ASSUME FanInv, Onward, UNCHANGED <<waiting, reported>>,
           results'["all"] = results["all"], chan'["watchErr"] = chan["watchErr"],
           left'["all"] = left["all"],
           docker \in {"nil", "error"} => docker' = docker
    PROVE  AllInOrder'
BY SameConfig DEF FanInv, Onward, AllInOrder, OnlyDocker

\* Steps of run alone keep the invariant.
LEMMA RunMovesKeeps ==
    ASSUME FanInv, RunMoves
    PROVE  FanInv'
<1>1. Onward /\ UNCHANGED <<started, docker, chan, localVars, readers, waiting, results, reported, left, config>>
  BY DEF RunMoves, readerVars, fanIn
<1>2. ChannelType'
  BY <1>1 DEF FanInv, ChannelType, localVars
<1>3. StartInOrder'
  BY <1>1, SameConfig DEF FanInv, StartInOrder, Onward
<1>4. LocalInOrder'
  BY <1>1, LocalKeeps
<1>5. DockerInOrder'
  BY <1>1, UnstartedStays, DockerKeeps
<1>6. \A m \in AwsModes : ModeInOrder(m)'
  BY <1>1, UnstartedStays, ModeKeeps
<1>7. AllInOrder'
  BY <1>1, AllKeeps
<1> QED
  BY <1>2, <1>3, <1>4, <1>5, <1>6, <1>7 DEF FanInv

\* The local server and the fatal errors have channels of their own.
LEMMA DiscoveryRests ==
    ASSUME FanInv, Onward, UNCHANGED <<readerVars, started, docker, fanIn>>,
           \A d \in Modes \cup {"watchErr"} : chan'[d] = chan[d]
    PROVE  DockerInOrder' /\ (\A m \in AwsModes : ModeInOrder(m)') /\ AllInOrder'
<1>1. UNCHANGED <<started, docker, readers, waiting, results, reported, left, config>>
  BY DEF readerVars, fanIn
<1>2. DockerInOrder'
  BY <1>1, UnstartedStays, DockerKeeps DEF Modes
<1>3. \A m \in AwsModes : ModeInOrder(m)'
  BY <1>1, UnstartedStays, ModeKeeps DEF Modes
<1>4. AllInOrder'
  BY <1>1, AllKeeps
<1> QED
  BY <1>2, <1>3, <1>4

\* The channels and the groups the invariant names.
LEMMA ChanNames ==
    /\ Modes \subseteq Chans /\ {"watchErr", "localErr", "fatal", "errCh", "docker"} \subseteq Chans
    /\ Modes \cap {"watchErr", "localErr", "fatal", "errCh"} = {}
    /\ AwsModes \subseteq Groups /\ "all" \in Groups /\ "all" \notin AwsModes
    /\ "docker" \notin AwsModes
    /\ Servers = {"tailnet", "metrics"}
BY AwsModesAssumption DEF Modes, Chans, Groups, Servers

\* run starts local.Server.Run.
LEMMA StartLocalKeeps ==
    ASSUME FanInv, StartLocal
    PROVE  FanInv'
<1>1. /\ step = "traefik" /\ step' = "watch" /\ local' = "listen"
      /\ UNCHANGED <<readerVars, ctxDone, started, docker, fanIn, chan, firstErr, serving>>
  BY DEF StartLocal
<1>2. Onward /\ config' = config
  BY <1>1 DEF Onward, Before, Steps, Follows, readerVars
<1>3. ChannelType'
  BY <1>1 DEF FanInv, ChannelType, fanIn
<1>4. StartInOrder'
  BY <1>1, <1>2, SameConfig DEF FanInv, StartInOrder, fanIn
<1>5. LocalInOrder'
  <2>1. local = "off"
    BY <1>1 DEF FanInv, LocalInOrder, Before
  <2> QED
    BY <1>1, <2>1 DEF FanInv, LocalInOrder, Before, Steps, Follows, Gone
<1>6. DockerInOrder' /\ (\A m \in AwsModes : ModeInOrder(m)') /\ AllInOrder'
  BY <1>1, <1>2, DiscoveryRests
<1> QED
  BY <1>3, <1>4, <1>5, <1>6 DEF FanInv

\* local.Server.Run opens its listeners and starts serving.
LEMMA ListenKeeps ==
    ASSUME FanInv, NEW s \in Servers, NEW ok \in BOOLEAN, Listen(s, ok)
    PROVE  FanInv'
<1>1. UNCHANGED <<readerVars, main, started, docker, fanIn, firstErr>>
  BY DEF Listen
<1>2. Onward /\ config' = config /\ UNCHANGED <<step, ctxDone, results, left, reported>>
  BY <1>1, StayOnward DEF readerVars, main, fanIn
<1>3. ChannelType /\ StartInOrder /\ LocalInOrder
  BY DEF FanInv
<1>4. CASE ok
  <2>1. /\ UNCHANGED chan
        /\ serving' = [serving EXCEPT ![s] = "on"]
        /\ \/ s = "tailnet" /\ local = "listen" /\ local' = "metrics"
           \/ s = "metrics" /\ local = "metrics" /\ local' = "select"
    BY <1>4, ChanNames DEF Listen
  <2>2. ChannelType'
    BY <1>1, <1>2, <1>3, <2>1 DEF ChannelType
  <2>3. StartInOrder'
    BY <1>1, <1>2, <1>3, <2>1, SameConfig DEF StartInOrder
  <2>4. /\ serving'[s] = "on" /\ \A t \in Servers \ {s} : serving'[t] = serving[t]
        /\ serving[s] = "off" /\ Gone(s) = 0
    BY <1>3, <2>1 DEF ChannelType, LocalInOrder, Gone
  <2>5. LocalInOrder'
    <3>1. CASE s = "tailnet"
      BY <3>1, <1>1, <1>2, <1>3, <2>1, <2>4, ChanNames DEF LocalInOrder, Gone
    <3>2. CASE s = "metrics"
      <4>1. Len(chan["localErr"]) = 0 /\ Range(chan'["localErr"]) = {}
        BY <3>2, <1>3, <2>1, ChanNames, Contents DEF LocalInOrder
      <4> QED
        BY <3>2, <4>1, <1>1, <1>2, <1>3, <2>1, <2>4, ChanNames DEF LocalInOrder, Gone
    <3> QED
      BY <3>1, <3>2, ChanNames
  <2>6. DockerInOrder' /\ (\A m \in AwsModes : ModeInOrder(m)') /\ AllInOrder'
    BY <1>1, <1>2, <2>1, DiscoveryRests
  <2> QED
    BY <2>2, <2>3, <2>5, <2>6 DEF FanInv
<1>5. CASE ~ok
  <2>1. /\ Send("localErr", "error")
        /\ serving' = [serving EXCEPT !["tailnet"] = IF @ = "on" THEN "closed" ELSE @]
        /\ local \in {"listen", "metrics"} /\ local' = "returned"
    BY <1>5, ChanNames DEF Listen
  <2>2. /\ chan' \in [Chans -> Seq(Vals)]
        /\ \A d \in Chans \ {"localErr"} : chan'[d] = chan[d]
        /\ Len(chan'["localErr"]) = Len(chan["localErr"]) + 1
        /\ Range(chan'["localErr"]) = Range(chan["localErr"]) \cup {"error"}
    BY <1>3, <2>1, ChanNames, SendOne DEF Vals
  <2>3. ChannelType'
    BY <1>1, <1>2, <1>3, <2>1, <2>2, ChanNames DEF ChannelType
  <2>4. StartInOrder'
    BY <1>1, <1>2, <1>3, <2>2, ChanNames, SameConfig DEF StartInOrder
  <2>5. Gone("tailnet")' = Gone("tailnet") /\ Gone("metrics")' = Gone("metrics")
    BY <1>3, <2>1, ChanNames DEF ChannelType, Gone
  <2>6. LocalInOrder'
    <3>1. chan'["errCh"] = chan["errCh"] /\ Len(chan["localErr"]) = 0 /\ Range(chan["localErr"]) = {}
      BY <1>3, <2>1, <2>2, ChanNames, Contents DEF LocalInOrder
    <3> QED
      BY <1>1, <1>2, <1>3, <2>1, <2>2, <2>5, <3>1 DEF LocalInOrder
  <2>7. DockerInOrder' /\ (\A m \in AwsModes : ModeInOrder(m)') /\ AllInOrder'
    BY <1>1, <1>2, <2>2, ChanNames, DiscoveryRests
  <2> QED
    BY <2>3, <2>4, <2>6, <2>7 DEF FanInv
<1> QED
  BY <1>4, <1>5

\* Serve returns and sends on errCh.
LEMMA ServeReturnsKeeps ==
    ASSUME FanInv, NEW s \in Servers, ServeReturns(s)
    PROVE  FanInv'
<1>1. UNCHANGED <<readerVars, main, started, docker, fanIn, local, firstErr>>
  BY DEF ServeReturns
<1>2. Onward /\ config' = config /\ UNCHANGED <<step, ctxDone, results, left, reported>>
  BY <1>1, StayOnward DEF readerVars, main, fanIn
<1>3. ChannelType /\ StartInOrder /\ LocalInOrder
  BY DEF FanInv
<1>4. PICK v \in Vals : /\ Send("errCh", v)
                        /\ serving[s] \in {"closed", "on"}
                        /\ v = "error" \/ serving[s] = "closed"
  BY DEF ServeReturns, Vals
<1>5. /\ chan' \in [Chans -> Seq(Vals)]
      /\ \A d \in Chans \ {"errCh"} : chan'[d] = chan[d]
      /\ Len(chan'["errCh"]) = Len(chan["errCh"]) + 1
      /\ Range(chan'["errCh"]) = Range(chan["errCh"]) \cup {v}
  BY <1>3, <1>4, ChanNames, SendOne
<1>6. serving' = [serving EXCEPT ![s] = "returned"]
  BY DEF ServeReturns
<1>7. /\ serving'[s] = "returned" /\ \A t \in Servers \ {s} : serving'[t] = serving[t]
      /\ Gone(s) = 0 /\ Gone(s)' = 1 /\ \A t \in Servers \ {s} : Gone(t)' = Gone(t)
  BY <1>3, <1>4, <1>6 DEF ChannelType, Gone
<1>8. ChannelType'
  BY <1>1, <1>2, <1>3, <1>5, <1>6 DEF ChannelType
<1>9. StartInOrder'
  BY <1>1, <1>2, <1>3, <1>5, ChanNames, SameConfig DEF StartInOrder
<1>10. LocalInOrder'
  <2>1. chan'["localErr"] = chan["localErr"]
    BY <1>5, ChanNames
  <2>2. Len(chan'["errCh"]) <= Gone("tailnet")' + Gone("metrics")'
    <3>1. Gone("tailnet")' + Gone("metrics")' = Gone("tailnet") + Gone("metrics") + 1
      BY <1>7, ChanNames DEF Gone
    <3>2. Len(chan["errCh"]) \in Nat /\ Len(chan["errCh"]) <= Gone("tailnet") + Gone("metrics")
      BY <1>3, ChanNames, Contents DEF LocalInOrder
    <3>3. Gone("tailnet") \in Nat /\ Gone("metrics") \in Nat
      BY DEF Gone
    <3> QED
      BY <1>5, <3>1, <3>2, <3>3
  <2>3. \A t \in Servers : serving'[t] = "off" <=> serving[t] = "off"
    BY <1>4, <1>7
  <2>4. \A t \in Servers : serving'[t] = "closed" => serving[t] = "closed"
    BY <1>4, <1>7
  <2>5. local \notin {"shutdown", "returned"} => Range(chan'["errCh"]) \subseteq {"error"}
    BY <1>3, <1>4, <1>5 DEF LocalInOrder
  <2> QED
    BY <1>1, <1>2, <1>3, <2>1, <2>2, <2>3, <2>4, <2>5, ChanNames DEF LocalInOrder
<1>11. DockerInOrder' /\ (\A m \in AwsModes : ModeInOrder(m)') /\ AllInOrder'
  BY <1>1, <1>2, <1>5, ChanNames, DiscoveryRests
<1> QED
  BY <1>8, <1>9, <1>10, <1>11 DEF FanInv

\* local.Server.Run leaves its select, on an error or on ctx.
LEMMA SelectKeeps ==
    ASSUME FanInv, Select
    PROVE  FanInv'
<1>1. /\ UNCHANGED <<readerVars, main, started, docker, fanIn, serving>>
      /\ local = "select" /\ local' = "shutdown"
  BY DEF Select
<1>2. Onward /\ config' = config /\ UNCHANGED <<step, ctxDone, results, left, reported>>
  BY <1>1, StayOnward DEF readerVars, main, fanIn
<1>3. ChannelType /\ StartInOrder /\ LocalInOrder
  BY DEF FanInv
<1>4. /\ chan' \in [Chans -> Seq(Vals)]
      /\ \A d \in Chans \ {"errCh"} : chan'[d] = chan[d]
      /\ Len(chan'["errCh"]) <= Len(chan["errCh"]) /\ Len(chan'["errCh"]) \in Nat
      /\ firstErr' = "error" \/ (ctxDone /\ firstErr' = firstErr)
  <2>1. CASE ctxDone /\ UNCHANGED <<chan, firstErr>>
    BY <2>1, <1>3, ChanNames, Contents DEF ChannelType
  <2>2. CASE Receive("errCh") /\ firstErr' = Head(chan["errCh"])
    <3>1. /\ chan' \in [Chans -> Seq(Vals)]
          /\ \A d \in Chans \ {"errCh"} : chan'[d] = chan[d]
          /\ Len(chan["errCh"]) > 0 /\ Len(chan'["errCh"]) = Len(chan["errCh"]) - 1
          /\ Head(chan["errCh"]) \in Range(chan["errCh"])
      BY <1>3, <2>2, ChanNames, ReceiveOne
    <3>2. firstErr' = "error"
      BY <1>1, <1>3, <2>2, <3>1 DEF LocalInOrder
    <3>3. Len(chan["errCh"]) \in Nat
      BY <1>3, ChanNames, Contents
    <3> QED
      BY <3>1, <3>2, <3>3
  <2> QED
    BY <2>1, <2>2 DEF Select
<1>5. ChannelType'
  BY <1>1, <1>2, <1>3, <1>4 DEF ChannelType
<1>6. StartInOrder'
  BY <1>1, <1>2, <1>3, <1>4, ChanNames, SameConfig DEF StartInOrder
<1>7. LocalInOrder'
  <2>1. Len(chan'["errCh"]) <= Gone("tailnet")' + Gone("metrics")'
    BY <1>1, <1>3, <1>4, ChanNames, Contents DEF LocalInOrder, Gone
  <2> QED
    BY <1>1, <1>2, <1>3, <1>4, <2>1, ChanNames DEF LocalInOrder
<1>8. DockerInOrder' /\ (\A m \in AwsModes : ModeInOrder(m)') /\ AllInOrder'
  BY <1>1, <1>2, <1>4, ChanNames, DiscoveryRests
<1> QED
  BY <1>5, <1>6, <1>7, <1>8 DEF FanInv

\* local.Server.Run shuts its servers down and returns on localErr.
LEMMA ShutdownKeeps ==
    ASSUME FanInv, Shutdown
    PROVE  FanInv'
<1>1. /\ UNCHANGED <<readerVars, main, started, docker, fanIn, firstErr>>
      /\ local = "shutdown" /\ local' = "returned" /\ Send("localErr", firstErr)
      /\ serving' = [s \in Servers |-> IF serving[s] = "on" THEN "closed" ELSE serving[s]]
  BY DEF Shutdown
<1>2. Onward /\ config' = config /\ UNCHANGED <<step, ctxDone, results, left, reported>>
  BY <1>1, StayOnward DEF readerVars, main, fanIn
<1>3. ChannelType /\ StartInOrder /\ LocalInOrder
  BY DEF FanInv
<1>4. /\ chan' \in [Chans -> Seq(Vals)]
      /\ \A d \in Chans \ {"localErr"} : chan'[d] = chan[d]
      /\ Len(chan'["localErr"]) = Len(chan["localErr"]) + 1
      /\ Range(chan'["localErr"]) = Range(chan["localErr"]) \cup {firstErr}
  <2>1. firstErr \in Vals
    BY <1>3 DEF ChannelType, Vals
  <2> QED
    BY <1>1, <1>3, <2>1, ChanNames, SendOne
<1>5. ChannelType'
  BY <1>1, <1>2, <1>3, <1>4 DEF ChannelType
<1>6. StartInOrder'
  BY <1>1, <1>2, <1>3, <1>4, ChanNames, SameConfig DEF StartInOrder
<1>7. LocalInOrder'
  <2>1. Gone("tailnet")' = Gone("tailnet") /\ Gone("metrics")' = Gone("metrics")
    BY <1>1, <1>3, ChanNames DEF ChannelType, Gone
  <2>2. chan'["errCh"] = chan["errCh"] /\ Len(chan["localErr"]) = 0 /\ Range(chan["localErr"]) = {}
    BY <1>1, <1>3, <1>4, ChanNames, Contents DEF LocalInOrder
  <2> QED
    BY <1>1, <1>2, <1>3, <1>4, <2>1, <2>2 DEF LocalInOrder
<1>8. DockerInOrder' /\ (\A m \in AwsModes : ModeInOrder(m)') /\ AllInOrder'
  BY <1>1, <1>2, <1>4, ChanNames, DiscoveryRests
<1> QED
  BY <1>5, <1>6, <1>7, <1>8 DEF FanInv

\* The certificate mirror's fatal error.
LEMMA FatalKeeps ==
    ASSUME FanInv, Fatal
    PROVE  FanInv'
<1>1. /\ UNCHANGED <<readerVars, main, started, docker, fanIn, localVars>>
      /\ chan["fatal"] = <<>> /\ Send("fatal", "error")
  BY DEF Fatal
<1>2. Onward /\ config' = config
      /\ UNCHANGED <<step, ctxDone, results, left, reported, firstErr, serving>>
  BY <1>1, StayOnward DEF readerVars, main, fanIn, localVars
<1>3. ChannelType /\ StartInOrder
  BY DEF FanInv
<1>4. /\ chan' \in [Chans -> Seq(Vals)]
      /\ \A d \in Chans \ {"fatal"} : chan'[d] = chan[d]
      /\ Len(chan'["fatal"]) = Len(chan["fatal"]) + 1
  BY <1>1, <1>3, ChanNames, SendOne DEF Vals
<1>5. ChannelType'
  BY <1>1, <1>2, <1>3, <1>4 DEF ChannelType
<1>6. Len(chan["fatal"]) = 0
  BY <1>1
<1>7. StartInOrder'
  BY <1>1, <1>2, <1>3, <1>4, <1>6, SameConfig DEF StartInOrder
<1>8. LocalInOrder'
  BY <1>1, <1>2, <1>4, ChanNames, LocalKeeps
<1>9. DockerInOrder' /\ (\A m \in AwsModes : ModeInOrder(m)') /\ AllInOrder'
  BY <1>1, <1>2, <1>4, ChanNames, DiscoveryRests
<1> QED
  BY <1>5, <1>7, <1>8, <1>9 DEF FanInv

\* awaitTerminal takes one of the four terminal events.
LEMMA AwaitKeeps ==
    ASSUME FanInv, awaitTerminal
    PROVE  FanInv'
<1>1. /\ UNCHANGED <<readerVars, ctxDone, started, docker, fanIn, localVars>>
      /\ step = "await"
  BY DEF awaitTerminal
<1>2. step' = "unwind"
  BY DEF awaitTerminal, Return
<1>3. /\ Onward /\ config' = config
      /\ UNCHANGED <<results, left, reported, waiting, readers, firstErr, serving>>
  BY <1>1, <1>2 DEF readerVars, fanIn, localVars, Onward, Before, Steps, Follows
<1>4. ChannelType /\ StartInOrder /\ LocalInOrder /\ AllInOrder
  BY DEF FanInv
<1>5. UNCHANGED chan \/ Receive("fatal") \/ Receive("watchErr") \/ Receive("localErr")
  BY DEF awaitTerminal
<1>6. /\ chan' \in [Chans -> Seq(Vals)]
      /\ \A d \in Chans \ {"fatal", "watchErr", "localErr"} : chan'[d] = chan[d]
      /\ \A d \in Chans : /\ Len(chan'[d]) <= Len(chan[d]) /\ Len(chan[d]) \in Nat
                          /\ Len(chan'[d]) \in Nat
                          /\ Range(chan'[d]) \subseteq Range(chan[d])
  <2>1. CASE UNCHANGED chan
    BY <2>1, <1>4, Contents DEF ChannelType
  <2>2. ASSUME NEW c \in {"fatal", "watchErr", "localErr"}, Receive(c) PROVE <1>6!:
    <3>1. /\ chan' \in [Chans -> Seq(Vals)]
          /\ \A d \in Chans \ {c} : chan'[d] = chan[d]
          /\ Len(chan[c]) > 0 /\ Len(chan'[c]) = Len(chan[c]) - 1
          /\ Range(chan'[c]) \subseteq Range(chan[c])
      BY <2>2, <1>4, ChanNames, ReceiveOne
    <3>2. \A d \in Chans : Len(chan[d]) \in Nat
      BY <1>4, Contents
    <3>3. ASSUME NEW d \in Chans
          PROVE  /\ Len(chan'[d]) <= Len(chan[d]) /\ Len(chan[d]) \in Nat
                 /\ Len(chan'[d]) \in Nat
                 /\ Range(chan'[d]) \subseteq Range(chan[d])
      <4>1. CASE d = c
        BY <4>1, <3>1, <3>2, ChanNames
      <4>2. CASE d # c
        BY <4>2, <3>1, <3>2
      <4> QED
        BY <4>1, <4>2
    <3> QED
      BY <3>1, <3>3
  <2> QED
    BY <1>5, <2>1, <2>2
<1>7. ChannelType'
  BY <1>1, <1>3, <1>4, <1>6 DEF ChannelType
<1>8. StartInOrder'
  BY <1>1, <1>2, <1>3, <1>4, <1>6, ChanNames, SameConfig DEF StartInOrder
<1>9. LocalInOrder'
  <2>1. /\ chan'["errCh"] = chan["errCh"]
        /\ Len(chan'["localErr"]) <= Len(chan["localErr"]) /\ Len(chan["localErr"]) \in Nat
        /\ Len(chan'["localErr"]) \in Nat
        /\ Range(chan'["localErr"]) \subseteq Range(chan["localErr"])
    BY <1>6, ChanNames
  <2>2. UNCHANGED <<local, firstErr, serving>>
    BY <1>1 DEF localVars
  <2> QED
    BY <1>1, <1>2, <1>4, <2>1, <2>2 DEF LocalInOrder, Gone, Before, Steps, Follows
<1>10. DockerInOrder'
  BY <1>1, <1>3, <1>6, ChanNames, UnstartedStays, DockerKeeps
<1>11. \A m \in AwsModes : ModeInOrder(m)'
  BY <1>1, <1>3, <1>6, ChanNames, UnstartedStays, ModeKeeps DEF Modes
<1>12. AllInOrder'
  <2>1. /\ Len(chan'["watchErr"]) <= Len(chan["watchErr"]) /\ Len(chan["watchErr"]) \in Nat
        /\ Len(chan'["watchErr"]) \in Nat
        /\ Range(chan'["watchErr"]) \subseteq Range(chan["watchErr"])
    BY <1>6, ChanNames
  <2> QED
    BY <1>1, <1>2, <1>3, <1>4, <2>1, SameConfig
    DEF AllInOrder, OnlyDocker, Before, Steps, Follows
<1> QED
  BY <1>7, <1>8, <1>9, <1>10, <1>11, <1>12 DEF FanInv

-----------------------------------------------------------------------------
(* Starting the modes.                                                      *)

\* TSSERVE_DISCOVERY names each mode once, so the mode being started has not
\* been, and starting it starts no other.
LEMMA StartingFacts ==
    ASSUME FanInv, config' = config, started' = started + 1, NEW m, Starting(m)
    PROVE  /\ Unstarted(m) /\ ~Unstarted(m)'
           /\ \A n : Unstarted(n)' => Unstarted(n)
           /\ started' \in 0 .. Len(raw)
<1>1. /\ raw \in Seq(STRING) /\ started \in 0 .. Len(raw) /\ parsed
      /\ started < Len(raw) /\ modes[started + 1] = m
  BY RawAssumption DEF FanInv, StartInOrder, Starting, raw
<1>2. Len(raw) \in Nat /\ DOMAIN raw = 1 .. Len(raw) /\ DOMAIN modes = DOMAIN raw
  BY <1>1 DEF modes
<1>3. \A i, j \in DOMAIN modes : modes[i] = modes[j] => i = j
  BY <1>1 DEF parsed, IsInjective
<1>4. modes' = modes
  BY SameConfig
<1>5. Unstarted(m)
  BY <1>1, <1>2, <1>3 DEF Unstarted
<1>6. ~Unstarted(m)'
  BY <1>1, <1>2, <1>4 DEF Unstarted
<1>7. \A n : Unstarted(n)' => Unstarted(n)
  BY <1>1, <1>2, <1>4 DEF Unstarted
<1> QED
  BY <1>1, <1>2, <1>5, <1>6, <1>7

\* startModes starts the Docker watcher.
LEMMA StartDockerKeeps ==
    ASSUME FanInv, StartDocker
    PROVE  FanInv'
<1>1. /\ UNCHANGED <<readerVars, main, fanIn, chan, localVars>>
      /\ Starting("docker") /\ docker' = "running" /\ started' = started + 1
  BY DEF StartDocker
<1>2. /\ Onward /\ config' = config
      /\ UNCHANGED <<readers, step, ctxDone, waiting, results, left, reported, firstErr, serving>>
  BY <1>1, StayOnward DEF readerVars, main, fanIn, localVars
<1>3. ChannelType /\ StartInOrder /\ DockerInOrder
  BY DEF FanInv
<1>4. /\ Unstarted("docker") /\ ~Unstarted("docker")'
      /\ \A n : Unstarted(n)' => Unstarted(n)
      /\ started' \in 0 .. Len(raw)
  BY <1>1, <1>2, StartingFacts
<1>5. docker = "off" /\ Len(chan["docker"]) = 0 /\ Range(chan["docker"]) = {}
  BY <1>3, <1>4, ChanNames, Contents DEF DockerInOrder
<1>6. ChannelType'
  BY <1>1, <1>2, <1>3 DEF ChannelType
<1>7. StartInOrder'
  BY <1>1, <1>2, <1>3, <1>4, SameConfig DEF StartInOrder
<1>8. LocalInOrder'
  BY <1>1, <1>2, LocalKeeps
<1>9. DockerInOrder'
  BY <1>1, <1>4, <1>5 DEF DockerInOrder
<1>10. \A m \in AwsModes : ModeInOrder(m)'
  BY <1>1, <1>2, <1>4, ModeKeeps
<1>11. AllInOrder'
  BY <1>1, <1>2, <1>5, AllKeeps
<1> QED
  BY <1>6, <1>7, <1>8, <1>9, <1>10, <1>11 DEF FanInv

\* The indices of readers[m] are finitely many.
LEMMA FinitelyMany ==
    ASSUME NEW q \in Seq(Reader), NEW S \in SUBSET DOMAIN q
    PROVE  IsFiniteSet(S) /\ Cardinality(S) \in Nat
<1>1. DOMAIN q = 1 .. Len(q) /\ Len(q) \in Nat
  OBVIOUS
<1>2. IsFiniteSet(1 .. Len(q))
  BY <1>1, FS_Interval
<1>3. IsFiniteSet(S)
  BY <1>1, <1>2, FS_Subset
<1> QED
  BY <1>3, FS_CardinalityType

\* A mode's readers are built, resolve and return.
LEMMA StartReaderKeeps ==
    ASSUME FanInv, IInv, NEW m \in AwsModes, StartReader(m)
    PROVE  FanInv'
<1>1. /\ UNCHANGED <<main, started, docker, fanIn, chan, localVars>>
      /\ Starting(m) /\ BuildReader(m)
  BY DEF StartReader
<1>2. config' = config /\ \E r \in Reader : r.status \in {"disabled", "ready"} /\ Add(m, r)
  <2>1. CASE BuildDisabled(m)
    BY <2>1, NewReaders DEF BuildDisabled
  <2>2. CASE BuildNamed(m)
    BY <2>2, NewReaders DEF BuildNamed
  <2>3. CASE BuildResolved(m)
    <3>1. /\ config \in Configs /\ readers[m] \in Seq(Reader)
      BY DEF IInv, ReadersInOrder
    <3>2. /\ Add(m, Resolved(m, Len(readers[m]) + 1, NewReader)) /\ config' = config
          /\ ~Built(m) /\ Derived(m, Len(readers[m]) + 1)
      BY <2>3 DEF BuildResolved
    <3>3. Listed(m)[Len(readers[m]) + 1].account \in Names
      <4>1. Listed(m) \in Seq(AccountSpec) /\ Len(Plan(m)) = Len(Listed(m))
        BY <3>1, <3>2, PlanFacts DEF Derived, Listed
      <4>2. Len(readers[m]) <= Len(Plan(m)) /\ Len(readers[m]) # Len(Plan(m))
        BY <3>2 DEF IInv, ReadersInOrder, Built
      <4>3. Len(readers[m]) + 1 \in 1 .. Len(Listed(m))
        BY <3>1, <4>1, <4>2
      <4>4. Listed(m)[Len(readers[m]) + 1] \in AccountSpec
        BY <4>1, <4>3
      <4> QED
        BY <4>4 DEF AccountSpec
    <3> QED
      BY <3>2, <3>3, NewReaders, ResolvedReader
  <2>4. CASE BuildLazy(m)
    BY <2>4, NewReaders DEF BuildLazy
  <2> QED
    BY <1>1, <2>1, <2>2, <2>3, <2>4 DEF BuildReader
<1>3. PICK r \in Reader : r.status \in {"disabled", "ready"} /\ Add(m, r)
  BY <1>2
<1>4. /\ Onward
      /\ UNCHANGED <<step, ctxDone, waiting, results, left, reported, firstErr, serving>>
  BY <1>1, <1>2, StayOnward DEF main, fanIn, localVars
<1>5. readers \in [AwsModes -> Seq(Reader)] /\ readers[m] \in Seq(Reader)
  BY DEF IInv, ReadersInOrder
<1>6. /\ \A k \in AwsModes \ {m} : readers'[k] = readers[k]
      /\ readers'[m] = Append(readers[m], r)
  BY <1>3, <1>5 DEF Add
<1>7. /\ DOMAIN readers'[m] = DOMAIN readers[m] \cup {Len(readers[m]) + 1}
      /\ readers'[m][Len(readers[m]) + 1] = r
      /\ Len(readers[m]) + 1 \notin DOMAIN readers[m]
      /\ \A i \in DOMAIN readers[m] : readers'[m][i] = readers[m][i]
  BY <1>3, <1>5, <1>6, AppendFacts
<1>8. Returned(m)' = Returned(m)
  BY <1>3, <1>7 DEF Returned
<1>9. ChannelType' /\ StartInOrder'
  BY <1>1, <1>2, <1>4, SameConfig DEF FanInv, ChannelType, StartInOrder
<1>10. LocalInOrder' /\ DockerInOrder' /\ AllInOrder'
  BY <1>1, <1>2, <1>4, UnstartedStays, LocalKeeps, DockerKeeps, AllKeeps
<1>11. ASSUME NEW k \in AwsModes PROVE ModeInOrder(k)'
  <2>1. CASE k # m
    BY <2>1, <1>1, <1>2, <1>4, <1>6, UnstartedStays, ModeKeeps
  <2>2. CASE k = m
    <3>1. ModeInOrder(m)
      BY DEF FanInv
    <3>2. Unstarted(m)' => \A i \in DOMAIN readers'[m] : readers'[m][i].status \in {"disabled", "ready"}
      BY <1>1, <1>2, <1>3, <1>7, <3>1, UnstartedStays DEF ModeInOrder
    <3> QED
      BY <2>2, <1>1, <1>2, <1>4, <1>8, <3>1, <3>2, UnstartedStays DEF ModeInOrder
  <2> QED
    BY <2>1, <2>2
<1> QED
  BY <1>9, <1>10, <1>11 DEF FanInv

\* runAll starts the readers of a mode.
LEMMA StartReadersKeeps ==
    ASSUME FanInv, IInv, NEW m \in AwsModes, StartReaders(m)
    PROVE  FanInv'
<1>1. /\ UNCHANGED <<config, claims, main, docker, waiting, results, reported, chan, localVars>>
      /\ Starting(m) /\ started' = started + 1
      /\ left' = [left EXCEPT ![m] = Cardinality(Watchers(m))]
      /\ readers' = [readers EXCEPT ![m] =
            [i \in DOMAIN @ |-> IF i \in Watchers(m)
                                THEN [@[i] EXCEPT !.status = "running"] ELSE @[i]]]
  BY DEF StartReaders
<1>2. /\ Onward
      /\ UNCHANGED <<step, ctxDone, firstErr, serving>>
  BY <1>1, StayOnward DEF main, localVars
<1>3. ChannelType /\ StartInOrder /\ ModeInOrder(m)
  BY DEF FanInv
<1>4. /\ Unstarted(m) /\ ~Unstarted(m)'
      /\ \A n : Unstarted(n)' => Unstarted(n)
      /\ started' \in 0 .. Len(raw)
  BY <1>1, StartingFacts
<1>5. readers \in [AwsModes -> Seq(Reader)] /\ readers[m] \in Seq(Reader)
  BY DEF IInv, ReadersInOrder
<1>6. \A k \in AwsModes \ {m} : readers'[k] = readers[k]
  BY <1>1, <1>5
<1>7. Cardinality(Watchers(m)) \in Nat
  BY <1>5, FinitelyMany DEF Watchers
<1>8. /\ left' \in [Groups -> Nat] /\ \A g \in Groups \ {m} : left'[g] = left[g]
  BY <1>1, <1>3, <1>7, ChanNames DEF ChannelType
<1>9. ChannelType' /\ StartInOrder'
  BY <1>1, <1>2, <1>3, <1>4, <1>8, SameConfig DEF ChannelType, StartInOrder
<1>10. LocalInOrder' /\ DockerInOrder' /\ AllInOrder'
  BY <1>1, <1>2, <1>4, <1>8, ChanNames, LocalKeeps, DockerKeeps, AllKeeps
<1>11. ASSUME NEW k \in AwsModes PROVE ModeInOrder(k)'
  <2>1. CASE k # m
    BY <2>1, <1>1, <1>2, <1>4, <1>6, <1>8, ChanNames, ModeKeeps
  <2>2. CASE k = m
    <3>1. Len(results[m]) = 0 /\ Len(chan[m]) = 0 /\ Range(results[m]) = {} /\ Range(chan[m]) = {}
      BY <1>3, <1>4, ChanNames, Contents DEF ModeInOrder
    <3>2. DOMAIN readers'[m] = DOMAIN readers[m] /\ \A i \in DOMAIN readers'[m] : readers'[m][i].status # "returned"
      <4>1. readers'[m] = [i \in DOMAIN readers[m] |->
               IF i \in Watchers(m) THEN [readers[m][i] EXCEPT !.status = "running"]
               ELSE readers[m][i]]
        BY <1>1, <1>5
      <4>2. \A i \in DOMAIN readers[m] : readers[m][i] \in Reader
                                         /\ readers[m][i].status \in {"disabled", "ready"}
        BY <1>3, <1>4, <1>5 DEF ModeInOrder
      <4>3. ASSUME NEW i \in DOMAIN readers[m] PROVE readers'[m][i].status # "returned"
        BY <4>1, <4>2 DEF Reader
      <4> QED
        BY <4>1, <4>3
    <3>3. Returned(m)' = {}
      BY <3>2 DEF Returned
    <3>4. Cardinality(Returned(m)') = 0
      BY <3>3, FS_EmptySet
    <3> QED
      BY <2>2, <1>1, <1>2, <1>4, <3>1, <3>4 DEF ModeInOrder
  <2> QED
    BY <2>1, <2>2
<1> QED
  BY <1>9, <1>10, <1>11 DEF FanInv

\* The modes are as many as the entries of TSSERVE_DISCOVERY.
LEMMA ModesCounted ==
    ASSUME FanInv, parsed
    PROVE  /\ IsFiniteSet(Range(modes)) /\ Cardinality(Range(modes)) = Len(raw)
           /\ Len(modes) = Len(raw) /\ Len(raw) \in Nat
<1>1. raw \in Seq(STRING)
  BY RawAssumption DEF FanInv, StartInOrder, raw
<1>2. PICK n \in Nat : n = Len(raw) /\ DOMAIN raw = 1 .. n
  BY <1>1
<1>3. DOMAIN modes = 1 .. n /\ modes = [i \in 1 .. n |-> modes[i]]
  BY <1>2 DEF modes
<1>4. \A i, j \in DOMAIN modes : modes[i] = modes[j] => i = j
  BY DEF parsed, IsInjective
<1>5. modes \in [1 .. n -> Range(modes)]
  BY <1>3 DEF Range
<1>6. Len(modes) = n
  BY <1>5, FunctionSeq
<1>7. modes \in Bijection(1 .. n, Range(modes))
  <2>1. IsInjective(modes)
    BY <1>4 DEF IsInjective
  <2>2. \A t \in Range(modes) : \E s \in 1 .. n : modes[s] = t
    BY <1>3 DEF Range
  <2> QED
    BY <1>5, <2>1, <2>2 DEF Bijection, Injection, Surjection
<1>8. IsFiniteSet(1 .. n) /\ Cardinality(1 .. n) = n
  BY FS_Interval
<1>9. ExistsBijection(1 .. n, Range(modes))
  BY <1>7 DEF ExistsBijection
<1> QED
  BY <1>2, <1>6, <1>8, <1>9, FS_Bijection

\* The outer runAll starts one goroutine for each mode.
LEMMA FanInKeeps ==
    ASSUME FanInv, FanIn
    PROVE  FanInv'
<1>1. /\ UNCHANGED <<readerVars, ctxDone, started, docker, results, reported, chan, localVars>>
      /\ step = "watch" /\ step' = "await"
      /\ waiting' = Range(modes) /\ left' = [left EXCEPT !["all"] = Len(modes)]
  BY DEF FanIn
<1>2. /\ Onward /\ config' = config /\ UNCHANGED <<readers, firstErr, serving>>
  BY <1>1 DEF Onward, readerVars, localVars, Before, Steps, Follows
<1>3. ChannelType /\ StartInOrder /\ AllInOrder
  BY DEF FanInv
<1>4. parsed
  BY <1>1, <1>3 DEF StartInOrder
<1>5. /\ IsFiniteSet(Range(modes)) /\ Cardinality(Range(modes)) = Len(raw)
      /\ Len(modes) = Len(raw) /\ Len(raw) \in Nat
  BY <1>4, ModesCounted
<1>6. /\ left' \in [Groups -> Nat] /\ left'["all"] = Len(raw)
      /\ \A g \in AwsModes : left'[g] = left[g]
  BY <1>1, <1>3, <1>5, ChanNames DEF ChannelType
<1>7. ChannelType' /\ StartInOrder'
  BY <1>1, <1>2, <1>3, <1>6, SameConfig DEF ChannelType, StartInOrder
<1>8. LocalInOrder' /\ DockerInOrder' /\ \A m \in AwsModes : ModeInOrder(m)'
  BY <1>1, <1>2, <1>6, UnstartedStays, LocalKeeps, DockerKeeps, ModeKeeps
<1>9. AllInOrder'
  <2>1. Len(results["all"]) = 0 /\ Len(chan["watchErr"]) = 0
    BY <1>1, <1>3 DEF AllInOrder
  <2>2. Range(results["all"]) = {} /\ Range(chan["watchErr"]) = {}
    BY <1>3, <2>1, ChanNames, Contents
  <2>3. raw' = raw /\ modes' = modes
    BY <1>2, SameConfig
  <2> QED
    BY <1>1, <1>5, <1>6, <2>1, <2>2, <2>3 DEF AllInOrder, Before, Steps, Follows
<1> QED
  BY <1>7, <1>8, <1>9 DEF FanInv

-----------------------------------------------------------------------------
(* Discovery and the fan-in.                                                *)

\* The Docker watcher returns.
LEMMA DockerReturnsKeeps ==
    ASSUME FanInv, NEW v \in Vals, DockerReturns(v)
    PROVE  FanInv'
<1>1. /\ UNCHANGED <<readerVars, main, started, fanIn, localVars>>
      /\ docker = "running" /\ docker' = v /\ Send("docker", v)
      /\ v = "canceled" => ctxDone
  BY DEF DockerReturns, Vals
<1>2. /\ Onward /\ config' = config
      /\ UNCHANGED <<readers, step, ctxDone, waiting, results, left, reported, firstErr, serving>>
  BY <1>1, StayOnward DEF readerVars, main, fanIn, localVars
<1>3. ChannelType /\ StartInOrder /\ DockerInOrder
  BY DEF FanInv
<1>4. /\ chan' \in [Chans -> Seq(Vals)]
      /\ \A d \in Chans \ {"docker"} : chan'[d] = chan[d]
      /\ Len(chan'["docker"]) = Len(chan["docker"]) + 1
      /\ Range(chan'["docker"]) = Range(chan["docker"]) \cup {v}
  BY <1>1, <1>3, ChanNames, SendOne
<1>5. Len(chan["docker"]) = 0 /\ Range(chan["docker"]) = {}
  BY <1>1, <1>3, ChanNames, Contents DEF DockerInOrder
<1>6. ChannelType' /\ StartInOrder'
  BY <1>1, <1>2, <1>3, <1>4, ChanNames, SameConfig DEF ChannelType, StartInOrder
<1>7. DockerInOrder'
  <2>1. ~Unstarted("docker")'
    BY <1>1, <1>2, <1>3, UnstartedStays DEF DockerInOrder
  <2> QED
    BY <1>1, <1>2, <1>4, <1>5, <2>1 DEF DockerInOrder, Vals
<1>8. LocalInOrder'
  BY <1>1, <1>2, <1>4, ChanNames, LocalKeeps
<1>9. \A m \in AwsModes : ModeInOrder(m)'
  <2>1. \A m \in AwsModes : chan'[m] = chan[m]
    BY <1>4, ChanNames DEF Modes
  <2> QED
    BY <2>1, <1>1, <1>2, UnstartedStays, ModeKeeps
<1>10. AllInOrder'
  BY <1>1, <1>2, <1>4, ChanNames, AllKeeps
<1> QED
  BY <1>6, <1>7, <1>8, <1>9, <1>10 DEF FanInv

\* One reader of readers[m] is replaced.
LEMMA ReplacedFacts ==
    ASSUME IInv, NEW m \in AwsModes, NEW i \in DOMAIN readers[m], NEW s,
           readers' = [readers EXCEPT ![m][i] = s]
    PROVE  /\ DOMAIN readers'[m] = DOMAIN readers[m] /\ readers'[m][i] = s
           /\ \A j \in DOMAIN readers[m] \ {i} : readers'[m][j] = readers[m][j]
           /\ \A k \in AwsModes \ {m} : readers'[k] = readers[k]
<1>1. readers \in [AwsModes -> Seq(Reader)]
  BY DEF IInv, ReadersInOrder
<1> QED
  BY <1>1

\* A reader resolves its account.
LEMMA ResolveKeeps ==
    ASSUME FanInv, IInv, NEW m \in AwsModes, NEW i \in DOMAIN readers[m], Resolve(m, i)
    PROVE  FanInv'
<1>1. /\ UNCHANGED <<main, started, docker, fanIn, chan, localVars, config>>
      /\ readers[m][i].status = "running"
      /\ readers' = [readers EXCEPT ![m][i] = Resolved(m, i, readers[m][i])]
  <2>1. readers \in [AwsModes -> Seq(Reader)]
    BY DEF IInv, ReadersInOrder
  <2> QED
    BY <2>1 DEF Resolve, ResolveLazily
<1>2. /\ Onward
      /\ UNCHANGED <<step, ctxDone, waiting, results, left, reported, firstErr, serving>>
  BY <1>1, StayOnward DEF main, fanIn, localVars
<1>3. Resolved(m, i, readers[m][i]).status = "running"
  <2>1. readers[m] \in Seq(Reader)
    BY DEF IInv, ReadersInOrder
  <2>2. PICK r \in Reader : r = readers[m][i] /\ r.status = "running"
    BY <1>1, <2>1
  <2>3. Resolved(m, i, r).status = "running"
    BY <2>2 DEF Resolved, Reader
  <2> QED
    BY <2>2, <2>3
<1>4. Returned(m)' = Returned(m) /\ \A k \in AwsModes \ {m} : readers'[k] = readers[k]
  BY <1>1, <1>3, ReplacedFacts DEF Returned
<1>5. ChannelType' /\ StartInOrder'
  BY <1>1, <1>2, SameConfig DEF FanInv, ChannelType, StartInOrder
<1>6. LocalInOrder' /\ DockerInOrder' /\ AllInOrder'
  BY <1>1, <1>2, UnstartedStays, LocalKeeps, DockerKeeps, AllKeeps
<1>7. ASSUME NEW k \in AwsModes PROVE ModeInOrder(k)'
  <2>1. CASE k # m
    BY <2>1, <1>1, <1>2, <1>4, UnstartedStays, ModeKeeps
  <2>2. CASE k = m
    <3>1. ModeInOrder(m)
      BY DEF FanInv
    <3>2. ~Unstarted(m)'
      BY <1>1, <3>1, UnstartedStays DEF ModeInOrder
    <3> QED
      BY <2>2, <1>1, <1>2, <1>4, <3>1, <3>2 DEF ModeInOrder
  <2> QED
    BY <2>1, <2>2
<1> QED
  BY <1>5, <1>6, <1>7 DEF FanInv

\* A reader returns, and its goroutine in runAll sends.
LEMMA ReaderReturnsKeeps ==
    ASSUME FanInv, IInv, NEW m \in AwsModes, NEW i \in DOMAIN readers[m], ReaderReturns(m, i)
    PROVE  FanInv'
<1>1. readers \in [AwsModes -> Seq(Reader)] /\ readers[m] \in Seq(Reader)
  BY DEF IInv, ReadersInOrder
<1>2. /\ UNCHANGED <<main, started, docker, waiting, reported, left, chan, localVars, config>>
      /\ readers[m][i].status = "running" /\ ctxDone
      /\ results' = [results EXCEPT ![m] = Append(@, "canceled")]
  BY DEF ReaderReturns
<1>3. PICK s \in Reader : s.status = "returned" /\ readers' = [readers EXCEPT ![m][i] = s]
  <2>1. PICK s \in Reader : s = [readers[m][i] EXCEPT !.status = "returned"] /\ s.status = "returned"
    <3>1. PICK r \in Reader : r = readers[m][i]
      BY <1>1
    <3> QED
      BY <3>1, ReturnedReader
  <2> QED
    BY <1>1, <2>1 DEF ReaderReturns
<1>4. Onward /\ UNCHANGED <<step, ctxDone, firstErr, serving>>
  BY <1>2, StayOnward DEF main, localVars
<1>5. ChannelType /\ StartInOrder /\ ModeInOrder(m)
  BY DEF FanInv
<1>6. /\ results' \in [Groups -> Seq(Vals)]
      /\ \A h \in Groups \ {m} : results'[h] = results[h]
      /\ Len(results'[m]) = Len(results[m]) + 1
      /\ Range(results'[m]) = Range(results[m]) \cup {"canceled"}
  BY <1>2, <1>5, ChanNames, ResultSent DEF Vals
<1>7. /\ DOMAIN readers'[m] = DOMAIN readers[m] /\ readers'[m][i] = s
      /\ \A j \in DOMAIN readers[m] \ {i} : readers'[m][j] = readers[m][j]
      /\ \A k \in AwsModes \ {m} : readers'[k] = readers[k]
  BY <1>3, ReplacedFacts
<1>8. Cardinality(Returned(m)') = Cardinality(Returned(m)) + 1 /\ Cardinality(Returned(m)) \in Nat
  <2>1. Returned(m)' = Returned(m) \cup {i} /\ i \notin Returned(m)
    BY <1>2, <1>3, <1>7 DEF Returned
  <2>2. IsFiniteSet(Returned(m)) /\ Cardinality(Returned(m)) \in Nat
    BY <1>1, FinitelyMany DEF Returned
  <2> QED
    BY <2>1, <2>2, FS_AddElement
<1>9. ChannelType' /\ StartInOrder'
  BY <1>2, <1>4, <1>5, <1>6, SameConfig DEF ChannelType, StartInOrder
<1>10. LocalInOrder' /\ DockerInOrder' /\ AllInOrder'
  BY <1>2, <1>4, <1>6, ChanNames, UnstartedStays, LocalKeeps, DockerKeeps, AllKeeps
<1>11. ASSUME NEW k \in AwsModes PROVE ModeInOrder(k)'
  <2>1. CASE k # m
    BY <2>1, <1>2, <1>4, <1>6, <1>7, ChanNames, UnstartedStays, ModeKeeps
  <2>2. CASE k = m
    <3>1. ~Unstarted(m)'
      BY <1>2, <1>5, UnstartedStays DEF ModeInOrder
    <3>2. Len(results[m]) \in Nat
      BY <1>5, ChanNames, Contents
    <3> QED
      BY <2>2, <1>2, <1>4, <1>5, <1>6, <1>8, <3>1, <3>2 DEF ModeInOrder
  <2> QED
    BY <2>1, <2>2
<1> QED
  BY <1>9, <1>10, <1>11 DEF FanInv

\* A mode's result goes on to the outer runAll.
LEMMA ModeReportsKeeps ==
    ASSUME FanInv, NEW m \in Modes, ModeReports(m)
    PROVE  FanInv'
<1>1. /\ UNCHANGED <<readerVars, main, started, docker, reported, left, localVars>>
      /\ m \in waiting /\ waiting' = waiting \ {m}
  BY DEF ModeReports
<1>2. /\ Onward /\ config' = config /\ UNCHANGED <<readers, step, ctxDone, firstErr, serving>>
  BY <1>1, StayOnward DEF readerVars, main, localVars
<1>3. /\ ChannelType /\ StartInOrder /\ DockerInOrder /\ AllInOrder
      /\ \A k \in AwsModes : ModeInOrder(k)
  BY DEF FanInv
<1>4. PICK v \in Vals :
          /\ results' = [results EXCEPT !["all"] = Append(@, v)]
          /\ v = "error" => docker = "error"
          /\ v = "canceled" => ctxDone
          /\ v = "nil" => ctxDone \/ docker = "nil"
          /\ m # "docker" => ctxDone
          /\ chan' \in [Chans -> Seq(Vals)]
          /\ \A d \in Chans \ {m} : chan'[d] = chan[d]
          /\ Len(chan'[m]) \in Nat /\ Len(chan[m]) \in Nat
          /\ Len(chan'[m]) <= Len(chan[m]) /\ Range(chan'[m]) \subseteq Range(chan[m])
  <2>1. CASE Receive(m) /\ results' = [results EXCEPT !["all"] = Append(@, Head(chan[m]))]
    <3>1. /\ chan' \in [Chans -> Seq(Vals)]
          /\ \A d \in Chans \ {m} : chan'[d] = chan[d]
          /\ Len(chan[m]) > 0 /\ Len(chan'[m]) = Len(chan[m]) - 1
          /\ Range(chan'[m]) \subseteq Range(chan[m])
          /\ Head(chan[m]) \in Range(chan[m])
      BY <1>3, <2>1, ChanNames, ReceiveOne
    <3>2. Len(chan[m]) \in Nat /\ Range(chan[m]) \subseteq Vals
      BY <1>3, ChanNames, Contents
    <3>5. PICK v \in Vals : v = Head(chan[m])
      BY <3>1, <3>2
    <3>6. Len(chan'[m]) \in Nat /\ Len(chan'[m]) <= Len(chan[m])
      BY <3>1, <3>2
    <3>3. CASE m = "docker"
      <4>1. v = docker
        BY <3>1, <3>3, <3>5, <1>3 DEF DockerInOrder
      <4>2. v = "canceled" => ctxDone
        BY <4>1, <1>3 DEF DockerInOrder
      <4> QED
        BY <2>1, <3>1, <3>2, <3>3, <3>5, <3>6, <4>1, <4>2
    <3>4. CASE m \in AwsModes
      <4>0. ModeInOrder(m)
        BY <1>3, <3>4
      <4>1. v = "nil"
        BY <3>1, <3>5, <4>0 DEF ModeInOrder
      <4>2. ctxDone
        BY <3>1, <4>0 DEF ModeInOrder
      <4> QED
        BY <2>1, <3>1, <3>2, <3>5, <3>6, <4>1, <4>2
    <3> QED
      BY <3>3, <3>4 DEF Modes
  <2>2. CASE /\ ctxDone /\ UNCHANGED chan
             /\ results' = [results EXCEPT !["all"] = Append(@, "canceled")]
    BY <2>2, <1>3, ChanNames, Contents DEF ChannelType, Vals
  <2> QED
    BY <2>1, <2>2 DEF ModeReports
<1>5. /\ results' \in [Groups -> Seq(Vals)]
      /\ \A h \in Groups \ {"all"} : results'[h] = results[h]
      /\ Len(results'["all"]) = Len(results["all"]) + 1
      /\ Range(results'["all"]) = Range(results["all"]) \cup {v}
  BY <1>3, <1>4, ChanNames, ResultSent
<1>6. ChannelType' /\ StartInOrder'
  BY <1>1, <1>2, <1>3, <1>4, <1>5, ChanNames, SameConfig DEF ChannelType, StartInOrder
<1>7. LocalInOrder'
  BY <1>1, <1>2, <1>4, ChanNames, LocalKeeps
<1>8. DockerInOrder'
  <2>1. CASE m = "docker"
    BY <2>1, <1>1, <1>2, <1>3, <1>4, UnstartedStays DEF DockerInOrder
  <2>2. CASE m # "docker"
    BY <2>2, <1>1, <1>2, <1>4, ChanNames, UnstartedStays, DockerKeeps
  <2> QED
    BY <2>1, <2>2
<1>9. ASSUME NEW k \in AwsModes PROVE ModeInOrder(k)'
  <2>1. results'[k] = results[k] /\ k \in Chans /\ Len(results[k]) \in Nat
    BY <1>3, <1>5, ChanNames, Contents DEF Modes
  <2>2. CASE k # m
    BY <2>1, <2>2, <1>1, <1>2, <1>4, UnstartedStays, ModeKeeps
  <2>3. CASE k = m
    <3>1. Returned(k)' = Returned(k)
      BY <1>2 DEF Returned
    <3>2. ModeInOrder(k)
      BY <1>3
    <3>3. Unstarted(k)' <=> Unstarted(k)
      BY <1>1, <1>2, UnstartedStays
    <3>4. /\ Len(chan'[k]) \in Nat /\ Len(chan[k]) \in Nat
          /\ Len(chan'[k]) <= Len(chan[k]) /\ Range(chan'[k]) \subseteq Range(chan[k])
      BY <2>3, <1>4
    <3>6. /\ Len(chan[k]) = 0 => Len(chan'[k]) = 0
          /\ Len(chan'[k]) > 0 => Len(chan[k]) > 0
          /\ Len(chan[k]) <= 1 => Len(chan'[k]) <= 1
      BY <3>4
    <3> QED
      BY <2>1, <3>1, <3>2, <3>3, <3>4, <3>6, <1>1, <1>2 DEF ModeInOrder
  <2> QED
    BY <2>2, <2>3
<1>10. AllInOrder'
  <2>1. chan'["watchErr"] = chan["watchErr"]
    BY <1>4, ChanNames
  <2>2. /\ IsFiniteSet(waiting') /\ Cardinality(waiting') = Cardinality(waiting) - 1
        /\ Cardinality(waiting) \in Nat
    BY <1>1, <1>3, FS_RemoveElement, FS_CardinalityType DEF AllInOrder
  <2>3. Len(results["all"]) \in Nat
    BY <1>3, ChanNames, Contents
  <2>4. step \notin Before \cup {"watch"}
    BY <1>1, <1>3 DEF AllInOrder
  <2>5. raw' = raw /\ modes' = modes
    BY <1>2, SameConfig
  <2>6. left["all"] > 0 => ctxDone \/ Range(modes) \subseteq waiting' \cup {"docker"}
    BY <1>1, <1>3, <1>4 DEF AllInOrder
  <2>7. left'["all"] = Cardinality(waiting') + Len(results'["all"]) /\ left'["all"] <= Len(raw')
    BY <1>1, <1>3, <1>5, <2>2, <2>3, <2>5 DEF AllInOrder
  <2>8. /\ "error" \in Range(results'["all"]) => docker = "error"
        /\ "canceled" \in Range(results'["all"]) => ctxDone
        /\ "nil" \in Range(results'["all"]) => ctxDone \/ docker = "nil"
    BY <1>3, <1>4, <1>5 DEF AllInOrder
  <2> QED
    BY <1>1, <1>2, <1>3, <2>1, <2>2, <2>4, <2>5, <2>6, <2>7, <2>8 DEF AllInOrder, OnlyDocker
<1> QED
  BY <1>6, <1>7, <1>8, <1>9, <1>10 DEF FanInv

\* The inner runAll of a mode takes a result.
LEMMA CoordinateModeKeeps ==
    ASSUME FanInv, IInv, NEW m \in AwsModes, Coordinate(m)
    PROVE  FanInv'
<1>1. /\ UNCHANGED <<readerVars, main, started, docker, waiting, localVars>>
      /\ left[m] > 0 /\ results[m] # <<>>
      /\ results' = [results EXCEPT ![m] = Tail(@)]
      /\ left' = [left EXCEPT ![m] = @ - 1]
  BY DEF Coordinate
<1>2. /\ Onward /\ config' = config /\ UNCHANGED <<readers, step, ctxDone, firstErr, serving>>
  BY <1>1, StayOnward DEF readerVars, main, localVars
<1>3. ChannelType /\ StartInOrder /\ ModeInOrder(m)
  BY DEF FanInv
<1>4. /\ results' \in [Groups -> Seq(Vals)]
      /\ \A h \in Groups \ {m} : results'[h] = results[h]
      /\ Len(results[m]) > 0 /\ Len(results'[m]) = Len(results[m]) - 1
      /\ Range(results'[m]) \subseteq Range(results[m])
      /\ Head(results[m]) \in Range(results[m])
  BY <1>1, <1>3, ChanNames, ResultTaken
<1>5. /\ Head(results[m]) = "canceled" /\ m \notin reported /\ ctxDone /\ Report(m) = m
      /\ Len(chan[m]) = 0 /\ Range(chan[m]) = {}
  <2>1. Head(results[m]) = "canceled" /\ ctxDone /\ Len(chan[m]) = 0
    BY <1>1, <1>3, <1>4 DEF ModeInOrder
  <2>2. m # "all" /\ m \notin reported
    BY <1>3, ChanNames DEF StartInOrder
  <2>3. Range(chan[m]) = {}
    BY <1>3, <2>1, ChanNames, Contents DEF Modes
  <2> QED
    BY <2>1, <2>2, <2>3 DEF Report
<1>6. /\ UNCHANGED reported
      /\ IF left[m] = 1 THEN Send(m, "nil") ELSE UNCHANGED chan
  BY <1>5 DEF Coordinate
<1>7. /\ left[m] \in Nat /\ left' \in [Groups -> Nat] /\ left'[m] = left[m] - 1
      /\ \A g \in Groups \ {m} : left'[g] = left[g]
  <2>1. left[m] \in Nat /\ left[m] - 1 \in Nat
    BY <1>1, <1>3, ChanNames DEF ChannelType
  <2> QED
    BY <1>1, <1>3, <2>1, ChanNames DEF ChannelType
<1>8. /\ chan' \in [Chans -> Seq(Vals)]
      /\ \A d \in Chans \ {m} : chan'[d] = chan[d]
      /\ left'[m] > 0 => Len(chan'[m]) = 0
      /\ Len(chan'[m]) <= 1 /\ Range(chan'[m]) \subseteq {"nil"}
  <2>1. m \in Chans
    BY ChanNames DEF Modes
  <2>2. CASE left[m] = 1
    <3>1. Send(m, "nil")
      BY <1>6, <2>2
    <3>2. /\ chan' \in [Chans -> Seq(Vals)]
          /\ \A d \in Chans \ {m} : chan'[d] = chan[d]
          /\ Len(chan'[m]) = Len(chan[m]) + 1
          /\ Range(chan'[m]) = Range(chan[m]) \cup {"nil"}
      BY <1>3, <2>1, <3>1, SendOne DEF Vals
    <3> QED
      BY <1>5, <1>7, <2>2, <3>2
  <2>3. CASE left[m] # 1
    BY <1>3, <1>5, <1>6, <2>3 DEF ChannelType
  <2> QED
    BY <2>2, <2>3
<1>9. ChannelType' /\ StartInOrder'
  BY <1>1, <1>2, <1>3, <1>4, <1>6, <1>7, <1>8, ChanNames, SameConfig DEF ChannelType, StartInOrder, Modes
<1>10. LocalInOrder' /\ DockerInOrder'
  BY <1>1, <1>2, <1>8, ChanNames, UnstartedStays, LocalKeeps, DockerKeeps DEF Modes
<1>11. AllInOrder'
  <2>1. chan'["watchErr"] = chan["watchErr"] /\ left'["all"] = left["all"] /\ results'["all"] = results["all"]
    BY <1>4, <1>7, <1>8, ChanNames DEF Modes
  <2> QED
    BY <1>1, <1>2, <1>6, <2>1, AllKeeps
<1>12. ASSUME NEW k \in AwsModes PROVE ModeInOrder(k)'
  <2>1. CASE k # m
    <3>1. results'[k] = results[k] /\ chan'[k] = chan[k] /\ left'[k] = left[k]
      BY <2>1, <1>4, <1>7, <1>8, ChanNames DEF Modes
    <3> QED
      BY <3>1, <1>1, <1>2, UnstartedStays, ModeKeeps
  <2>2. CASE k = m
    <3>1. Returned(m)' = Returned(m)
      BY <1>2 DEF Returned
    <3>2. ~Unstarted(m)'
      BY <1>1, <1>2, <1>3, UnstartedStays DEF ModeInOrder
    <3>3. Len(results'[m]) <= Cardinality(Returned(m))
      <4>1. Len(results[m]) \in Nat
        BY <1>3, ChanNames, Contents
      <4>2. readers[m] \in Seq(Reader)
        BY DEF IInv, ReadersInOrder
      <4>3. Cardinality(Returned(m)) \in Nat
        BY <4>2, FinitelyMany DEF Returned
      <4>4. Len(results[m]) <= Cardinality(Returned(m))
        BY <1>3 DEF ModeInOrder
      <4> QED
        BY <1>4, <4>1, <4>3, <4>4
    <3> QED
      BY <2>2, <1>2, <1>3, <1>4, <1>5, <1>8, <3>1, <3>2, <3>3 DEF ModeInOrder
  <2> QED
    BY <2>1, <2>2
<1> QED
  BY <1>9, <1>10, <1>11, <1>12 DEF FanInv

\* The outer runAll takes a result.
LEMMA CoordinateAllKeeps ==
    ASSUME FanInv, Coordinate("all")
    PROVE  FanInv'
<1>1. /\ UNCHANGED <<readerVars, main, started, docker, waiting, localVars>>
      /\ left["all"] > 0 /\ results["all"] # <<>>
      /\ results' = [results EXCEPT !["all"] = Tail(@)]
      /\ left' = [left EXCEPT !["all"] = @ - 1]
  BY DEF Coordinate
<1>2. /\ Onward /\ config' = config /\ UNCHANGED <<readers, step, ctxDone, firstErr, serving>>
  BY <1>1, StayOnward DEF readerVars, main, localVars
<1>3. ChannelType /\ StartInOrder /\ AllInOrder
  BY DEF FanInv
<1>4. /\ results' \in [Groups -> Seq(Vals)]
      /\ \A h \in Groups \ {"all"} : results'[h] = results[h]
      /\ Len(results["all"]) > 0 /\ Len(results'["all"]) = Len(results["all"]) - 1
      /\ Range(results'["all"]) \subseteq Range(results["all"])
      /\ Head(results["all"]) \in Range(results["all"])
  BY <1>1, <1>3, ChanNames, ResultTaken
<1>5. PICK v : v = Head(results["all"])
  OBVIOUS
<1>6. /\ v \in Vals
      /\ v = "error" => docker = "error"
      /\ v # "error" => ctxDone \/ docker = "nil"
  BY <1>3, <1>4, <1>5, ChanNames, Contents DEF AllInOrder, Vals
<1>7. \/ /\ v = "error" /\ "all" \notin reported /\ reported' = reported \cup {"all"}
         /\ Send("watchErr", "error")
      \/ /\ v # "error" /\ "all" \notin reported /\ left["all"] = 1
         /\ UNCHANGED reported /\ Send("watchErr", "nil")
      \/ /\ left["all"] = 1 => "all" \in reported
         /\ UNCHANGED <<reported, chan>>
  BY <1>5 DEF Coordinate, Report
<1>8. /\ left["all"] \in Nat /\ left' \in [Groups -> Nat] /\ left'["all"] = left["all"] - 1
      /\ \A g \in Groups \ {"all"} : left'[g] = left[g]
  <2>1. left["all"] \in Nat /\ left["all"] - 1 \in Nat
    BY <1>1, <1>3, ChanNames DEF ChannelType
  <2> QED
    BY <1>1, <1>3, <2>1, ChanNames DEF ChannelType
<1>9. /\ chan' \in [Chans -> Seq(Vals)]
      /\ \A d \in Chans \ {"watchErr"} : chan'[d] = chan[d]
      /\ left'["all"] > 0 /\ "all" \notin reported' => Len(chan'["watchErr"]) = 0
      /\ Len(chan'["watchErr"]) <= 1
      /\ "error" \in Range(chan'["watchErr"]) => docker = "error"
      /\ Range(chan'["watchErr"]) \subseteq {"error"} \/ ctxDone \/ OnlyDocker
  <2>1. "all" \notin reported => Len(chan["watchErr"]) = 0 /\ Range(chan["watchErr"]) = {}
    BY <1>1, <1>3, ChanNames, Contents DEF AllInOrder
  <2>2. CASE /\ v = "error" /\ "all" \notin reported /\ reported' = reported \cup {"all"}
             /\ Send("watchErr", "error")
    <3>1. /\ chan' \in [Chans -> Seq(Vals)]
          /\ \A d \in Chans \ {"watchErr"} : chan'[d] = chan[d]
          /\ Len(chan'["watchErr"]) = Len(chan["watchErr"]) + 1
          /\ Range(chan'["watchErr"]) = Range(chan["watchErr"]) \cup {"error"}
      BY <1>3, <2>2, ChanNames, SendOne DEF Vals
    <3> QED
      BY <1>6, <2>1, <2>2, <3>1
  <2>3. CASE /\ v # "error" /\ "all" \notin reported /\ left["all"] = 1
             /\ UNCHANGED reported /\ Send("watchErr", "nil")
    <3>1. /\ chan' \in [Chans -> Seq(Vals)]
          /\ \A d \in Chans \ {"watchErr"} : chan'[d] = chan[d]
          /\ Len(chan'["watchErr"]) = Len(chan["watchErr"]) + 1
          /\ Range(chan'["watchErr"]) = Range(chan["watchErr"]) \cup {"nil"}
      BY <1>3, <2>3, ChanNames, SendOne DEF Vals
    <3>2. waiting = {}
      <4>1. IsFiniteSet(waiting) /\ left["all"] = Cardinality(waiting) + Len(results["all"])
        BY <1>3 DEF AllInOrder
      <4>2. Cardinality(waiting) \in Nat
        BY <4>1, FS_CardinalityType
      <4>3. Len(results["all"]) \in Nat
        BY <1>3, ChanNames, Contents
      <4>4. Cardinality(waiting) = 0
        BY <1>4, <2>3, <4>1, <4>2, <4>3
      <4> QED
        BY <4>1, <4>4, FS_EmptySet
    <3>3. ctxDone \/ OnlyDocker
      BY <1>1, <1>3, <1>6, <2>3, <3>2 DEF AllInOrder, OnlyDocker
    <3>4. left'["all"] = 0
      BY <1>8, <2>3
    <3>5. Len(chan'["watchErr"]) = 1 /\ Range(chan'["watchErr"]) = {"nil"}
      BY <2>1, <2>3, <3>1
    <3>6. ~(left'["all"] > 0) /\ Len(chan'["watchErr"]) <= 1
      BY <3>4, <3>5
    <3>7. "error" \notin Range(chan'["watchErr"])
      BY <3>5
    <3> QED
      BY <3>1, <3>3, <3>6, <3>7, Zenon
  <2>4. CASE /\ left["all"] = 1 => "all" \in reported
             /\ UNCHANGED <<reported, chan>>
    BY <1>1, <1>3, <1>8, <2>4 DEF ChannelType, AllInOrder
  <2> QED
    BY <1>7, <2>2, <2>3, <2>4
<1>10. ChannelType'
  BY <1>1, <1>2, <1>3, <1>4, <1>8, <1>9 DEF ChannelType
<1>11. StartInOrder'
  BY <1>1, <1>2, <1>3, <1>7, <1>9, ChanNames, SameConfig DEF StartInOrder
<1>12. LocalInOrder' /\ DockerInOrder'
  BY <1>1, <1>2, <1>9, ChanNames, UnstartedStays, LocalKeeps, DockerKeeps DEF Modes
<1>13. ASSUME NEW k \in AwsModes PROVE ModeInOrder(k)'
  <2>1. results'[k] = results[k] /\ chan'[k] = chan[k] /\ left'[k] = left[k]
    BY <1>4, <1>8, <1>9, ChanNames DEF Modes
  <2> QED
    BY <2>1, <1>1, <1>2, UnstartedStays, ModeKeeps
<1>14. AllInOrder'
  <2>1. raw' = raw /\ modes' = modes
    BY <1>2, SameConfig
  <2>2. OnlyDocker' <=> OnlyDocker
    BY <1>1, <2>1 DEF OnlyDocker
  <2>3. /\ Cardinality(waiting) \in Nat /\ Len(results["all"]) \in Nat
        /\ left["all"] = Cardinality(waiting) + Len(results["all"]) /\ left["all"] <= Len(raw)
    BY <1>3, ChanNames, Contents, FS_CardinalityType DEF AllInOrder
  <2>4. left'["all"] = Cardinality(waiting) + Len(results'["all"])
    BY <1>4, <1>8, <2>3
  <2>5. left'["all"] <= Len(raw)
    <3>1. Len(raw) \in Nat
      BY <1>3, RawAssumption DEF StartInOrder, raw
    <3> QED
      BY <1>8, <2>3, <3>1
  <2>6. step' \notin Before \cup {"watch"}
    BY <1>2, <1>3, <1>4 DEF AllInOrder
  <2> QED
    BY <1>1, <1>2, <1>3, <1>4, <1>9, <2>1, <2>2, <2>4, <2>5, <2>6 DEF AllInOrder
<1> QED
  BY <1>10, <1>11, <1>12, <1>13, <1>14 DEF FanInv

-----------------------------------------------------------------------------

\* Nothing is in a channel at the start.
LEMMA FanInit == Init => FanInv
<1> SUFFICES ASSUME Init PROVE FanInv
  OBVIOUS
<1>1. /\ \A c \in Chans : chan[c] = <<>>
      /\ \A g \in Groups : results[g] = <<>> /\ left[g] = 0
      /\ \A s \in Servers : serving[s] = "off"
      /\ step = "auth" /\ started = 0 /\ docker = "off" /\ waiting = {} /\ reported = {}
      /\ local = "off" /\ firstErr = "nil" /\ config \in Configs
      /\ \A m \in AwsModes : readers[m] = <<>>
  BY DEF Init, ReadersInit
<1>2. <<>> \in Seq(Vals) /\ Len(<<>>) = 0
  OBVIOUS
<1>3. ChannelType
  BY <1>2 DEF Init, ChannelType
<1>4. /\ \A c \in Chans : Len(chan[c]) = 0 /\ Range(chan[c]) = {}
      /\ \A g \in Groups : Len(results[g]) = 0 /\ Range(results[g]) = {}
  BY <1>1, <1>2, <1>3, Contents
<1>5. raw \in Seq(STRING) /\ Len(raw) \in Nat
  BY <1>1, RawAssumption DEF raw
<1>6. StartInOrder
  BY <1>1, <1>4, <1>5, ChanNames DEF StartInOrder
<1>7. LocalInOrder
  <2>1. /\ Len(chan["errCh"]) = 0 /\ Range(chan["errCh"]) = {}
        /\ Len(chan["localErr"]) = 0 /\ Range(chan["localErr"]) = {}
    BY <1>4, ChanNames
  <2>2. \A s \in Servers : serving[s] = "off"
    BY <1>1
  <2>3. serving["tailnet"] = "off" /\ serving["metrics"] = "off"
    BY <2>2 DEF Servers
  <2>4. Gone("tailnet") = 0 /\ Gone("metrics") = 0
    BY <2>3 DEF Gone
  <2>5. Len(chan["errCh"]) <= Gone("tailnet") + Gone("metrics") /\ Len(chan["localErr"]) <= 1
    BY <2>1, <2>4
  <2>6. local = "off" /\ firstErr = "nil"
    BY <1>1
  <2>7. "off" # "closed" /\ "off" # "shutdown" /\ "off" # "returned"
    OBVIOUS
  <2>8. Range(chan["errCh"]) \subseteq {"error"} /\ Range(chan["localErr"]) \subseteq {"error"}
    BY <2>1
  <2> QED
    BY <2>1, <2>2, <2>3, <2>5, <2>6, <2>7, <2>8, Zenon DEF LocalInOrder
<1>8. DockerInOrder
  BY <1>1, <1>4, ChanNames DEF DockerInOrder
<1>9. ASSUME NEW m \in AwsModes PROVE ModeInOrder(m)
  <2>1. DOMAIN readers[m] = {}
    BY <1>1
  <2>2. Cardinality(Returned(m)) = 0
    BY <2>1, FS_EmptySet DEF Returned
  <2>3. m \in Chans /\ m \in Groups
    BY ChanNames DEF Modes
  <2> QED
    <3>1. /\ left[m] = 0 /\ Len(results[m]) = 0 /\ Len(chan[m]) = 0
          /\ Range(results[m]) = {} /\ Range(chan[m]) = {}
      BY <1>1, <1>4, <2>3
    <3>2. /\ Len(results[m]) <= Cardinality(Returned(m)) /\ ~(left[m] > 0)
          /\ Len(chan[m]) <= 1 /\ ~(Len(results[m]) > 0) /\ ~(Len(chan[m]) > 0)
      BY <2>2, <3>1
    <3>3. /\ Range(results[m]) \subseteq {"canceled"} /\ Range(chan[m]) \subseteq {"nil"}
          /\ \A i \in DOMAIN readers[m] : readers[m][i].status \in {"disabled", "ready"}
      BY <2>1, <3>1
    <3> QED
      BY <3>1, <3>2, <3>3, Zenon DEF ModeInOrder
<1>10. AllInOrder
  <2>1. /\ left["all"] = 0 /\ Len(results["all"]) = 0 /\ Range(results["all"]) = {}
        /\ Len(chan["watchErr"]) = 0 /\ Range(chan["watchErr"]) = {}
    BY <1>1, <1>4, ChanNames
  <2>2. waiting = {} /\ IsFiniteSet(waiting) /\ Cardinality(waiting) = 0
    BY <1>1, FS_EmptySet
  <2>3. /\ left["all"] = Cardinality(waiting) + Len(results["all"])
        /\ left["all"] <= Len(raw) /\ ~(left["all"] > 0) /\ Len(chan["watchErr"]) <= 1
    BY <1>5, <2>1, <2>2
  <2>4. /\ Range(chan["watchErr"]) \subseteq {"error"}
        /\ "error" \notin Range(results["all"]) \cup Range(chan["watchErr"])
        /\ "canceled" \notin Range(results["all"]) /\ "nil" \notin Range(results["all"])
    BY <2>1
  <2> QED
    BY <2>1, <2>2, <2>3, <2>4, Zenon DEF AllInOrder
<1> QED
  BY <1>3, <1>6, <1>7, <1>8, <1>9, <1>10 DEF FanInv

\* Every step keeps the invariant.
LEMMA FanNext ==
    ASSUME FanInv, IInv, [Next]_vars
    PROVE  FanInv'
<1>1. CASE UNCHANGED vars
  <2>1. RunMoves
    BY <1>1 DEF vars, RunMoves, Onward, readerVars, main
  <2> QED
    BY <2>1, RunMovesKeeps
<1>2. CASE Main
  <2>1. CASE StartLocal \/ FanIn \/ StartDocker \/ awaitTerminal
    BY <2>1, StartLocalKeeps, FanInKeeps, StartDockerKeeps, AwaitKeeps
  <2>2. ASSUME NEW m \in AwsModes, StartReader(m) \/ StartReaders(m) PROVE FanInv'
    BY <2>2, StartReaderKeeps, StartReadersKeeps
  <2>3. CASE \/ (\E s \in Steps : Proceed(s))
             \/ (\E s \in Steps \cup {"traefik"} : Fail(s))
             \/ Auth \/ ParseModes \/ (\E m \in Modes : StartFails(m))
             \/ RunDeferred \/ Flush \/ Exit
    BY <2>3, RunAlone, RunMovesKeeps
  <2> QED
    BY <1>2, <2>1, <2>2, <2>3 DEF Main
<1>3. CASE Signal \/ Proceed("up")
  BY <1>3, RunAlone, RunMovesKeeps DEF Steps, Follows
<1>4. CASE Local
  BY <1>4, ListenKeeps, SelectKeeps, ShutdownKeeps DEF Local
<1>5. CASE Discovery
  <2>1. ASSUME NEW v \in Vals, DockerReturns(v) PROVE FanInv'
    BY <2>1, DockerReturnsKeeps
  <2>2. ASSUME NEW m \in AwsModes, NEW i \in DOMAIN readers[m],
               Resolve(m, i) \/ ReaderReturns(m, i)
        PROVE FanInv'
    BY <2>2, ResolveKeeps, ReaderReturnsKeeps
  <2> QED
    BY <1>5, <2>1, <2>2 DEF Discovery, Vals
<1>6. CASE Fatal
  BY <1>6, FatalKeeps
<1>7. ASSUME NEW m \in Modes, ModeReports(m) PROVE FanInv'
  BY <1>7, ModeReportsKeeps
<1>8. ASSUME NEW g \in Groups, Coordinate(g) PROVE FanInv'
  BY <1>8, CoordinateModeKeeps, CoordinateAllKeeps DEF Groups
<1>9. ASSUME NEW s \in Servers, ServeReturns(s) PROVE FanInv'
  BY <1>9, ServeReturnsKeeps
<1> QED
  BY <1>1, <1>2, <1>3, <1>4, <1>5, <1>6, <1>7, <1>8, <1>9 DEF Next

\* Every send finds room: no channel of run, startModes, runAll or
\* local.Server.Run ever holds more than its capacity, so no goroutine is left
\* blocked in a send when run has stopped receiving.
THEOREM NobodyHangs == Spec => []SendsFindRoom
<1>1. FanInv /\ IInv => SendsFindRoom
  <2> SUFFICES ASSUME FanInv, IInv PROVE SendsFindRoom
    OBVIOUS
  <2>1. ChannelType /\ StartInOrder /\ LocalInOrder /\ DockerInOrder /\ AllInOrder
        /\ \A m \in AwsModes : ModeInOrder(m)
    BY DEF FanInv
  <2>2. Len(chan["errCh"]) <= 2
    <3>1. Len(chan["errCh"]) \in Nat /\ Len(chan["errCh"]) <= Gone("tailnet") + Gone("metrics")
      BY <2>1, ChanNames, Contents DEF LocalInOrder
    <3> QED
      BY <3>1 DEF Gone
  <2>3. \A c \in Chans \ {"errCh"} : Len(chan[c]) <= 1
    BY <2>1, ChanNames DEF Chans, Modes, LocalInOrder, DockerInOrder, AllInOrder, ModeInOrder, StartInOrder
  <2>4. ASSUME NEW m \in AwsModes PROVE Len(results[m]) <= Cardinality(Watchers(m))
    <3>1. readers[m] \in Seq(Reader)
      BY DEF IInv, ReadersInOrder
    <3>2. Returned(m) \subseteq Watchers(m) /\ IsFiniteSet(Watchers(m))
      BY <3>1, FinitelyMany DEF Returned, Watchers
    <3>3. /\ Cardinality(Returned(m)) <= Cardinality(Watchers(m))
          /\ Cardinality(Returned(m)) \in Nat /\ Cardinality(Watchers(m)) \in Nat
      BY <3>2, FS_Subset, FS_CardinalityType
    <3>4. Len(results[m]) \in Nat /\ Len(results[m]) <= Cardinality(Returned(m))
      BY <2>1, ChanNames, Contents DEF ModeInOrder
    <3> QED
      BY <3>3, <3>4
  <2>5. Len(results["all"]) <= Len(raw)
    <3>1. /\ Cardinality(waiting) \in Nat /\ Len(results["all"]) \in Nat
          /\ left["all"] = Cardinality(waiting) + Len(results["all"]) /\ left["all"] <= Len(raw)
      BY <2>1, ChanNames, Contents, FS_CardinalityType DEF AllInOrder
    <3>2. Len(raw) \in Nat
      BY <2>1, RawAssumption DEF StartInOrder, raw
    <3> QED
      BY <3>1, <3>2
  <2> QED
    BY <2>2, <2>3, <2>4, <2>5 DEF SendsFindRoom, Cap
<1> QED
  BY <1>1, FanInit, FanNext, InductiveInvariant, PTL DEF Spec

\* What awaitTerminal returns is what happened: no error only when ctx is done or
\* every mode has ended, a watcher's error only when the Docker watcher failed, and
\* the local server's only once it has returned one.
THEOREM ResultsAreTrue == Spec => ResultIsTrue
<1>1. FanInv /\ [Next]_vars =>
        [step = "await" /\ step' # "await" =>
           /\ result' = "finished" => ctxDone \/ \A m \in Range(modes) : Ended(m)
           /\ result' = "watch" => docker = "error"
           /\ result' = "local" =>
                 local = "returned" /\ (firstErr = "error" \/ serving["metrics"] = "off")]_vars
  <2> SUFFICES ASSUME FanInv, Next, step = "await", step' # "await"
               PROVE  /\ result' = "finished" => ctxDone \/ \A m \in Range(modes) : Ended(m)
                      /\ result' = "watch" => docker = "error"
                      /\ result' = "local" =>
                            /\ local = "returned"
                            /\ firstErr = "error" \/ serving["metrics"] = "off"
    OBVIOUS
  <2>1. awaitTerminal
    <3>1. ~UNCHANGED main
      BY DEF main
    <3>2. ~Signal
      BY DEF Signal
    <3>3. ~Proceed("up") /\ \A s \in Steps : ~Proceed(s)
      BY DEF Proceed, Steps, Follows
    <3>4. ~Auth /\ ~ParseModes /\ ~StartLocal /\ ~FanIn /\ \A s \in Steps \cup {"traefik"} : ~Fail(s)
      BY DEF Auth, ParseModes, StartLocal, FanIn, Fail, Steps, Follows
    <3>5. ~StartDocker /\ \A m : ~StartFails(m) /\ ~StartReader(m) /\ ~StartReaders(m)
      BY DEF StartDocker, StartFails, StartReader, StartReaders, Starting
    <3>6. ~RunDeferred /\ ~Flush /\ ~Exit
      BY DEF RunDeferred, Flush, Exit
    <3>7. ~Local /\ ~Fatal /\ \A s : ~ServeReturns(s)
      BY <3>1 DEF Local, Listen, Select, Shutdown, Fatal, ServeReturns
    <3>8. ~Discovery /\ \A m : ~ModeReports(m) /\ ~Coordinate(m)
      BY <3>1 DEF Discovery, DockerReturns, Resolve, ReaderReturns, ModeReports, Coordinate
    <3> QED
      BY <3>2, <3>3, <3>4, <3>5, <3>6, <3>7, <3>8 DEF Next, Main
  <2>2. ChannelType /\ LocalInOrder /\ AllInOrder
    BY DEF FanInv
  <2>3. CASE ctxDone /\ Return("shutdown")
    BY <2>3 DEF Return
  <2>4. CASE Receive("fatal") /\ Return("fatal")
    BY <2>4 DEF Return
  <2>5. CASE Receive("watchErr") /\ Return(Verdict(Head(chan["watchErr"]), "watch"))
    <3>1. Head(chan["watchErr"]) \in Range(chan["watchErr"]) /\ Range(chan["watchErr"]) \subseteq Vals
      BY <2>2, <2>5, ChanNames, ReceiveOne, Contents
    <3>2. result' = Verdict(Head(chan["watchErr"]), "watch")
      BY <2>5 DEF Return
    <3>3. CASE Head(chan["watchErr"]) = "error"
      BY <3>1, <3>2, <3>3, <2>2 DEF Verdict, AllInOrder
    <3>4. CASE Head(chan["watchErr"]) # "error"
      <4>1. ctxDone \/ OnlyDocker
        BY <3>1, <3>4, <2>2 DEF AllInOrder
      <4>2. OnlyDocker => \A m \in Range(modes) : Ended(m)
        BY DEF OnlyDocker, Ended
      <4>3. result' = "finished"
        BY <3>1, <3>2, <3>4 DEF Verdict, Vals
      <4> QED
        BY <4>1, <4>2, <4>3
    <3> QED
      BY <3>3, <3>4
  <2>6. CASE Receive("localErr") /\ Return(Verdict(Head(chan["localErr"]), "local"))
    <3>1. /\ Head(chan["localErr"]) \in Range(chan["localErr"]) /\ Len(chan["localErr"]) > 0
      BY <2>2, <2>6, ChanNames, ReceiveOne
    <3>2. result' = Verdict(Head(chan["localErr"]), "local")
      BY <2>6 DEF Return
    <3>3. local = "returned"
      BY <2>2, <3>1 DEF LocalInOrder
    <3>4. Head(chan["localErr"]) = "error" \/ ctxDone
      BY <2>2, <3>1 DEF LocalInOrder
    <3>5. Head(chan["localErr"]) = "error" => firstErr = "error" \/ serving["metrics"] = "off"
      BY <2>2, <3>1 DEF LocalInOrder
    <3>6. Range(chan["localErr"]) \subseteq Vals
      BY <2>2, ChanNames, Contents
    <3> QED
      BY <3>1, <3>2, <3>3, <3>4, <3>5, <3>6 DEF Verdict, Vals
  <2> QED
    BY <2>1, <2>3, <2>4, <2>5, <2>6 DEF awaitTerminal
<1> QED
  BY <1>1, FanInit, FanNext, InductiveInvariant, PTL DEF Spec, ResultIsTrue

=============================================================================
