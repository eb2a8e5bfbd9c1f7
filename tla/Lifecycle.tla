------------------------------ MODULE Lifecycle ------------------------------
(***************************************************************************)
(* The process: run, startModes, runAll and awaitTerminal of src/main.go, the *)
(* local server (src/local/server.go), and what each discovery mode's         *)
(* goroutines report when they end.  The readers are those of Readers.        *)
(* config.env is the set of authentication variables that are set, config.raw *)
(* TSSERVE_DISCOVERY split at its commas, config.mirror whether certificates  *)
(* are mirrored.                                                            *)
(*                                                                         *)
(* Channels are sequences that a send appends to whether or not there is      *)
(* room: SendsFindRoom says that there always is.                           *)
(***************************************************************************)
EXTENDS Readers, FiniteSets

CONSTANTS
    Faults  \* what may go wrong, among FaultKinds

FaultKinds == {"store", "mirror", "start", "up", "client", "traefik", "docker",
               "events", "eof", "settings", "fatal", "listen", "serve"}

ASSUME RawAssumption == \A c \in Configs : c.raw \in Seq(STRING)

ASSUME FaultsAssumption == Faults \subseteq FaultKinds

VARIABLES
    step,      \* where run is
    result,    \* what run returns
    ctxDone,   \* ctx is cancelled
    open,      \* what run has opened and not closed yet
    deferred,  \* the functions run has deferred, the last one first
    started,   \* startModes: the number of modes started
    docker,    \* the Docker watcher: "off", "running", or what Run returned
    waiting,   \* the modes whose modeResult.Run is under way
    results,   \* results[g]: the results channel of a runAll
    reported,  \* the groups whose coordinator has forwarded an error
    left,      \* left[g]: the results a coordinator has yet to receive
    chan,      \* the other channels
    local,     \* where local.Server.Run is
    firstErr,  \* its firstErr
    serving    \* serving[s]: the goroutine of one of its two http.Servers

main == <<step, result, ctxDone, open, deferred>>
fanIn == <<waiting, results, reported, left>>
localVars == <<local, firstErr, serving>>
vars == <<readerVars, main, started, docker, fanIn, chan, localVars>>

\* The runs of runAll: one for the readers of each mode, one for the modes.
Groups == AwsModes \cup {"all"}
Modes == AwsModes \cup {"docker"}
Chans == Modes \cup {"watchErr", "localErr", "fatal", "errCh"}
Servers == {"tailnet", "metrics"}

\* The channel a group's coordinator reports to.
Report(g) == IF g = "all" THEN "watchErr" ELSE g

Cap(c) == IF c = "errCh" THEN 2 ELSE 1

-----------------------------------------------------------------------------
(* What run makes of its environment.                                       *)

env == config.env
raw == config.raw

validateAuth ==
    CASE "TS_CLIENT_ID" \in env /\ env \cap {"TS_ID_TOKEN", "TS_AUDIENCE"} # {} ->
            ~ {"TS_ID_TOKEN", "TS_AUDIENCE"} \subseteq env /\ "TSSERVE_TAGS" \in env
      [] {"TS_CLIENT_ID", "TS_CLIENT_SECRET"} \subseteq env -> "TSSERVE_TAGS" \in env
      [] OTHER -> "TS_AUTHKEY" \in env

\* Entries are trimmed and lowered: no entry here differs in spaces alone.
lower(entry) ==
    CASE entry = "Docker" -> "docker"
      [] entry = "ECS" -> "ecs"
      [] OTHER -> entry

modes == [i \in DOMAIN raw |-> lower(raw[i])]

\* parseDiscoveryModes: no entry is empty or unknown, and none is repeated.
parsed == /\ Range(modes) \subseteq {"docker", "ecs", "lambda"}
          /\ IsInjective(modes)

-----------------------------------------------------------------------------

TypeOK ==
    /\ readers \in [AwsModes -> Seq(Reader)]
    /\ step \in {"auth", "store", "mirror", "start", "up", "client", "modes",
                 "traefik", "watch", "await", "unwind", "flush", "exited"}
    /\ result \in {"none", "shutdown", "finished", "fatal", "watch", "local",
                   "startup"}
    /\ ctxDone \in BOOLEAN
    /\ open \subseteq {"manager", "tsnet", "mirror"}
    /\ deferred \in Seq({"manager", "tsnet", "mirror", "cancel"})
    /\ started \in 0 .. Len(raw)
    /\ docker \in {"off", "running", "nil", "canceled", "error"}
    /\ waiting \subseteq Modes
    /\ results \in [Groups -> Seq({"nil", "canceled", "error"})]
    /\ reported \subseteq Groups
    /\ left \in [Groups -> Nat]
    /\ chan \in [Chans -> Seq({"nil", "canceled", "error"})]
    /\ local \in {"off", "listen", "metrics", "select", "shutdown", "returned"}
    /\ firstErr \in {"nil", "error"}
    /\ serving \in [Servers -> {"off", "on", "closed", "returned"}]

Init ==
    /\ ReadersInit
    /\ step = "auth"
    /\ result = "none"
    /\ ctxDone = FALSE
    /\ open = {}
    /\ deferred = <<>>
    /\ started = 0
    /\ docker = "off"
    /\ waiting = {}
    /\ results = [g \in Groups |-> <<>>]
    /\ reported = {}
    /\ left = [g \in Groups |-> 0]
    /\ chan = [c \in Chans |-> <<>>]
    /\ local = "off"
    /\ firstErr = "nil"
    /\ serving = [s \in Servers |-> "off"]

Send(c, v) == chan' = [chan EXCEPT ![c] = Append(@, v)]
Receive(c) == chan[c] # <<>> /\ chan' = [chan EXCEPT ![c] = Tail(@)]

Return(r) == step' = "unwind" /\ result' = r

-----------------------------------------------------------------------------
(* run, as far as awaitTerminal.  A step that fails returns its error.       *)

\* From signal.NotifyContext to the cancel that run defers with it.
Signal ==
    /\ deferred # <<>>
    /\ ~ctxDone
    /\ ctxDone' = TRUE
    /\ UNCHANGED <<readerVars, step, result, open, deferred, started, docker,
                   fanIn, chan, localVars>>

\* What a step of run opens: the mirror is a goroutine, the manager and the tsnet
\* server have a Close.
Opens(s) ==
    CASE s = "mirror" -> IF config.mirror THEN {"mirror"} ELSE {}
      [] s = "start" -> {"tsnet"}
      [] s = "client" -> {"manager"}
      [] OTHER -> {}

\* Mutant of Defers: the wait for the mirror is deferred once tsnet has started.
DefersMirrorLast(s) ==
    CASE s = "store" -> <<"cancel">>
      [] s = "start" -> IF config.mirror THEN <<"mirror", "tsnet">> ELSE <<"tsnet">>
      [] s = "client" -> <<"manager">>
      [] OTHER -> <<>>

\* What it defers.
Defers(s) ==
    CASE s = "store" -> <<"cancel">>
      [] s = "mirror" -> IF config.mirror THEN <<"mirror">> ELSE <<>>
      [] s = "start" -> <<"tsnet">>
      [] s = "client" -> <<"manager">>
      [] OTHER -> <<>>

Follows == [store |-> "mirror", mirror |-> "start", start |-> "up",
            up |-> "client", client |-> "modes"]

Proceed(s) ==
    /\ step = s
    /\ s = "up" => ~ctxDone
    /\ step' = Follows[s]
    /\ open' = open \cup Opens(s)
    /\ deferred' = Defers(s) \o deferred
    /\ UNCHANGED <<readerVars, result, ctxDone, started, docker, fanIn,
                   chan, localVars>>

Fail(s) ==
    /\ step = s
    /\ s \in Faults \/ (s = "up" /\ ctxDone)
    /\ Return("startup")
    /\ UNCHANGED <<readerVars, ctxDone, open, deferred, started, docker, fanIn,
                   chan, localVars>>

Auth ==
    /\ step = "auth"
    /\ IF validateAuth THEN step' = "store" /\ UNCHANGED result
       ELSE Return("startup")
    /\ UNCHANGED <<readerVars, ctxDone, open, deferred, started, docker, fanIn,
                   chan, localVars>>

ParseModes ==
    /\ step = "modes"
    /\ IF parsed THEN step' = "traefik" /\ UNCHANGED result
       ELSE Return("startup")
    /\ UNCHANGED <<readerVars, ctxDone, open, deferred, started, docker, fanIn,
                   chan, localVars>>

\* The Traefik port is parsed, and the local server's goroutine started.
StartLocal ==
    /\ step = "traefik"
    /\ step' = "watch"
    /\ local' = "listen"
    /\ UNCHANGED <<readerVars, result, ctxDone, open, deferred, started, docker,
                   fanIn, chan, firstErr, serving>>

\* The mode startModes is starting.
Starting(m) == step = "watch" /\ started < Len(raw) /\ modes[started + 1] = m

StartDocker ==
    /\ Starting("docker")
    /\ docker' = "running"
    /\ started' = started + 1
    /\ UNCHANGED <<readerVars, main, fanIn, chan, localVars>>

\* A reader of mode m is built.
StartReader(m) ==
    /\ Starting(m) /\ PlanValid(m)
    /\ BuildReader(m)
    /\ UNCHANGED <<main, started, docker, fanIn, chan, localVars>>

\* Mutant of StartReaders: a mode without readers reports nil at once.
StartReadersOrReport(m) ==
    /\ Starting(m) /\ PlanValid(m) /\ Built(m)
    /\ started' = started + 1
    /\ readers' = [readers EXCEPT ![m] =
          [i \in DOMAIN @ |-> IF i \in Watchers(m)
                              THEN [@[i] EXCEPT !.status = "running"] ELSE @[i]]]
    /\ left' = [left EXCEPT ![m] = Cardinality(Watchers(m))]
    /\ IF Watchers(m) = {} THEN Send(m, "nil") ELSE UNCHANGED chan
    /\ UNCHANGED <<config, claims, main, docker, waiting,
                   results, reported, localVars>>

\* All are: runAll runs those that have a watcher.  If none has, nothing is
\* ever sent to the mode's channel.
StartReaders(m) ==
    /\ Starting(m) /\ PlanValid(m) /\ Built(m)
    /\ started' = started + 1
    /\ readers' = [readers EXCEPT ![m] =
          [i \in DOMAIN @ |-> IF i \in Watchers(m)
                              THEN [@[i] EXCEPT !.status = "running"] ELSE @[i]]]
    /\ left' = [left EXCEPT ![m] = Cardinality(Watchers(m))]
    /\ UNCHANGED <<config, claims, main, docker, waiting,
                   results, reported, chan, localVars>>

\* A mode cannot be started; the ones before it have been.
StartFails(m) ==
    /\ Starting(m)
    /\ IF m = "docker" THEN "docker" \in Faults
       ELSE ~PlanValid(m) \/ ("settings" \in Faults /\ readers[m] = <<>>)
    /\ Return("startup")
    /\ UNCHANGED <<readerVars, ctxDone, open, deferred, started, docker, fanIn,
                   chan, localVars>>

\* Every mode is: their reports are fanned in.
FanIn ==
    /\ step = "watch" /\ started = Len(raw)
    /\ step' = "await"
    /\ waiting' = Range(modes)
    /\ left' = [left EXCEPT !["all"] = Len(modes)]
    /\ UNCHANGED <<readerVars, result, ctxDone, open, deferred, started, docker,
                   results, reported, chan, localVars>>

-----------------------------------------------------------------------------
(* Discovery.                                                               *)

\* Watcher.Run of Docker returns: cancelled; because its event stream or a call
\* before it failed; or because the stream's error channel was closed.
DockerReturns(v) ==
    /\ docker = "running"
    /\ CASE v = "canceled" -> ctxDone
         [] v = "error" -> "events" \in Faults
         [] v = "nil" -> "eof" \in Faults /\ ~ctxDone
    /\ docker' = v
    /\ Send("docker", v)
    /\ UNCHANGED <<readerVars, main, started, fanIn, localVars>>

Resolve(m, i) ==
    /\ ResolveLazily(m, i)
    /\ UNCHANGED <<main, started, docker, fanIn, chan, localVars>>

\* Run of a reader's watcher returns only when ctx is cancelled.
ReaderReturns(m, i) ==
    /\ readers[m][i].status = "running" /\ ctxDone
    /\ readers' = [readers EXCEPT ![m][i].status = "returned"]
    /\ results' = [results EXCEPT ![m] = Append(@, "canceled")]
    /\ UNCHANGED <<config, claims, main, started, docker,
                   waiting, reported, left, chan, localVars>>

\* A watcher is registering a backend and is told of a FatalError, which it
\* forwards unless one is waiting already.
Fatal ==
    /\ "fatal" \in Faults
    /\ \/ docker = "running"
       \/ \E m \in AwsModes : \E i \in DOMAIN readers[m] :
             readers[m][i].status = "running"
    /\ chan["fatal"] = <<>>
    /\ Send("fatal", "error")
    /\ UNCHANGED <<readerVars, main, started, docker, fanIn, localVars>>

-----------------------------------------------------------------------------
(* runAll, and modeResult.Run between its two levels.                       *)

\* Mutant of Coordinate: nil is sent at the end though an error was.
CoordinateTwice(g) ==
    LET v == Head(results[g]) IN
    /\ left[g] > 0 /\ results[g] # <<>>
    /\ results' = [results EXCEPT ![g] = Tail(@)]
    /\ left' = [left EXCEPT ![g] = @ - 1]
    /\ IF v = "error" /\ g \notin reported
       THEN /\ reported' = reported \cup {g}
            /\ chan' = [chan EXCEPT ![Report(g)] =
                  @ \o (IF left[g] = 1 THEN <<v, "nil">> ELSE <<v>>)]
       ELSE /\ IF left[g] = 1 THEN Send(Report(g), "nil") ELSE UNCHANGED chan
            /\ UNCHANGED reported
    /\ UNCHANGED <<readerVars, main, started, docker, waiting,
                   localVars>>

\* Mutant of Coordinate: it drains every result before it reports.
CoordinateAtEnd(g) ==
    LET v == Head(results[g]) IN
    /\ left[g] > 0 /\ results[g] # <<>>
    /\ results' = [results EXCEPT ![g] = Tail(@)]
    /\ left' = [left EXCEPT ![g] = @ - 1]
    /\ reported' = IF v = "error" THEN reported \cup {g} ELSE reported
    /\ IF left[g] = 1
       THEN Send(Report(g), IF g \in reported' THEN "error" ELSE "nil")
       ELSE UNCHANGED chan
    /\ UNCHANGED <<readerVars, main, started, docker, waiting,
                   localVars>>

\* The coordinator forwards the first genuine error, or nil at the end.
Coordinate(g) ==
    LET v == Head(results[g]) IN
    /\ left[g] > 0 /\ results[g] # <<>>
    /\ results' = [results EXCEPT ![g] = Tail(@)]
    /\ left' = [left EXCEPT ![g] = @ - 1]
    /\ IF v = "error" /\ g \notin reported
       THEN /\ reported' = reported \cup {g}
            /\ Send(Report(g), v)
       ELSE /\ IF left[g] = 1 /\ g \notin reported THEN Send(Report(g), "nil")
               ELSE UNCHANGED chan
            /\ UNCHANGED reported
    /\ UNCHANGED <<readerVars, main, started, docker, waiting,
                   localVars>>

ModeReports(m) ==
    /\ m \in waiting
    /\ waiting' = waiting \ {m}
    /\ \/ /\ Receive(m)
          /\ results' = [results EXCEPT !["all"] = Append(@, Head(chan[m]))]
       \/ /\ ctxDone
          /\ results' = [results EXCEPT !["all"] = Append(@, "canceled")]
          /\ UNCHANGED chan
    /\ UNCHANGED <<readerVars, main, started, docker, reported, left,
                   localVars>>

-----------------------------------------------------------------------------
(* local.Server.Run.  MetricsAddr is never empty: envDefault sees to it.     *)

\* ListenTLS, or the listener of the metrics, which on failure closes the first.
Listen(s, ok) ==
    LET at == IF s = "tailnet" THEN "listen" ELSE "metrics" IN
    /\ local = at
    /\ ok \/ "listen" \in Faults
    /\ IF ok
       THEN /\ serving' = [serving EXCEPT ![s] = "on"]
            /\ local' = IF s = "tailnet" THEN "metrics" ELSE "select"
            /\ UNCHANGED chan
       ELSE /\ serving' = [serving EXCEPT !["tailnet"] =
                              IF @ = "on" THEN "closed" ELSE @]
            /\ local' = "returned"
            /\ Send("localErr", "error")
    /\ UNCHANGED <<readerVars, main, started, docker, fanIn, firstErr>>

\* runHTTP returns: nil after Shutdown or Close, or an error of Serve.
ServeReturns(s) ==
    /\ \/ serving[s] = "closed" /\ Send("errCh", "nil")
       \/ serving[s] = "on" /\ "serve" \in Faults /\ Send("errCh", "error")
    /\ serving' = [serving EXCEPT ![s] = "returned"]
    /\ UNCHANGED <<readerVars, main, started, docker, fanIn, local,
                   firstErr>>

Select ==
    /\ local = "select"
    /\ \/ ctxDone /\ UNCHANGED <<chan, firstErr>>
       \/ Receive("errCh") /\ firstErr' = Head(chan["errCh"])
    /\ local' = "shutdown"
    /\ UNCHANGED <<readerVars, main, started, docker, fanIn, serving>>

Shutdown ==
    /\ local = "shutdown"
    /\ serving' = [s \in Servers |->
                      IF serving[s] = "on" THEN "closed" ELSE serving[s]]
    /\ local' = "returned"
    /\ Send("localErr", firstErr)
    /\ UNCHANGED <<readerVars, main, started, docker, fanIn, firstErr>>

-----------------------------------------------------------------------------
(* awaitTerminal, and the deferred functions.                                *)

\* What awaitTerminal returns for a value of watchErr or localErr.
Verdict(v, r) == IF v \in {"nil", "canceled"} THEN "finished" ELSE r

awaitTerminal ==
    /\ step = "await"
    /\ \/ ctxDone /\ Return("shutdown") /\ UNCHANGED chan
       \/ Receive("fatal") /\ Return("fatal")
       \/ Receive("watchErr") /\ Return(Verdict(Head(chan["watchErr"]), "watch"))
       \/ Receive("localErr") /\ Return(Verdict(Head(chan["localErr"]), "local"))
    /\ UNCHANGED <<readerVars, ctxDone, open, deferred, started, docker, fanIn,
                   localVars>>

\* run has returned: the last function deferred is called.  The mirror's cancels
\* ctx, and waits.
RunDeferred ==
    /\ step = "unwind" /\ deferred # <<>>
    /\ deferred' = Tail(deferred)
    /\ LET f == Head(deferred) IN
       /\ open' = IF f = "mirror" THEN open ELSE open \ {f}
       /\ ctxDone' = (ctxDone \/ f \in {"mirror", "cancel"})
       /\ step' = IF f = "mirror" THEN "flush" ELSE "unwind"
    /\ UNCHANGED <<readerVars, result, started, docker, fanIn, chan, localVars>>

\* Syncer.Run has returned, or 35 seconds have passed.
Flush ==
    /\ step = "flush"
    /\ open' = open \ {"mirror"}
    /\ step' = "unwind"
    /\ UNCHANGED <<readerVars, result, ctxDone, deferred, started, docker, fanIn,
                   chan, localVars>>

Exit ==
    /\ step = "unwind" /\ deferred = <<>>
    /\ step' = "exited"
    /\ UNCHANGED <<readerVars, result, ctxDone, open, deferred, started, docker,
                   fanIn, chan, localVars>>

-----------------------------------------------------------------------------

Steps == DOMAIN Follows

\* Steps of run that do not wait for the tailnet.
Main ==
    \/ Auth \/ ParseModes \/ StartLocal \/ StartDocker \/ FanIn
    \/ \E s \in Steps \ {"up"} : Proceed(s)
    \/ \E s \in Steps \cup {"traefik"} : Fail(s)
    \/ \E m \in Modes : StartFails(m)
    \/ \E m \in AwsModes : StartReader(m) \/ StartReaders(m)
    \/ awaitTerminal
    \/ RunDeferred \/ Flush \/ Exit

Local ==
    \/ \E s \in Servers : \E ok \in BOOLEAN : Listen(s, ok)
    \/ Select \/ Shutdown

Discovery ==
    \/ \E v \in {"nil", "canceled", "error"} : DockerReturns(v)
    \/ \E m \in AwsModes : \E i \in DOMAIN readers[m] :
          Resolve(m, i) \/ ReaderReturns(m, i)

Next ==
    /\ step # "exited"
    /\ \/ Signal \/ Proceed("up")
       \/ Main \/ Local \/ Discovery \/ Fatal
       \/ \E m \in Modes : ModeReports(m)
       \/ \E g \in Groups : Coordinate(g)
       \/ \E s \in Servers : ServeReturns(s)

Spec == Init /\ [][Next]_vars

\* Goroutines run, and calls return: mgr.Close and srv.Close are bounded, as is
\* the SDK's every attempt.  Only srv.Up may wait for ever for the tailnet; it
\* returns once ctx is cancelled, as the watchers do.
Fairness ==
    /\ WF_vars(step # "exited" /\ Main)
    /\ WF_vars(step # "exited" /\ Local)
    /\ \A m \in Modes : WF_vars(step # "exited" /\ ModeReports(m))
    /\ \A g \in Groups : WF_vars(step # "exited" /\ Coordinate(g))

FairSpec == Spec /\ Fairness

-----------------------------------------------------------------------------

\* No goroutine is left hanging on a send: whatever has become of the receiver,
\* and though startModes returns early and awaitTerminal reads one value, every
\* channel has room for all that is sent to it.
SendsFindRoom ==
    /\ \A c \in Chans : Len(chan[c]) <= Cap(c)
    /\ \A m \in AwsModes : Len(results[m]) <= Cardinality(Watchers(m))
    /\ Len(results["all"]) <= Len(raw)

\* The modes all of whose goroutines have ended without an error.
Ended(m) ==
    IF m = "docker" THEN docker \in {"nil", "canceled"}
    ELSE /\ Watchers(m) # {}
         /\ \A i \in Watchers(m) : readers[m][i].status = "returned"

\* run returns what happened.  Without a signal it returns nil only when every
\* mode has ended, not when one has or when a mode never had a reader, and not
\* when one failed; an error of discovery is that of the Docker watcher, and one of
\* the local server is that of a server that stopped serving, or of a listener that
\* could not be opened: then the metrics are not served.
ResultIsTrue ==
    [][step = "await" /\ step' # "await" =>
         /\ result' = "finished" =>
               ctxDone \/ \A m \in Range(modes) : Ended(m)
         /\ result' = "watch" => docker = "error"
         /\ result' = "local" =>
               local = "returned" /\ (firstErr = "error" \/ serving["metrics"] = "off")]_vars

\* Whichever of its return statements run leaves by, its defers close what had
\* been opened by then before the process exits, and in order: the manager, which
\* withdraws its services from tsnet, before tsnet; and both before run cancels
\* ctx, which starts the mirror's final sweep, so that the sweep sees all that
\* tsnet has written.  A signal cancels ctx at any time, and starts it too early.
UnwoundInOrder ==
    [][/\ step' = "exited" => open' = {}
       /\ "manager" \in open \ open' => "tsnet" \in open'
       /\ step = "unwind" /\ deferred' # deferred /\ ~ctxDone /\ ctxDone' =>
             open \subseteq {"mirror"}]_vars

\* A signal, a fatal registration error, the failure of a discovery mode or of a
\* listener, however deep in the fan-in it is first seen: the process exits.
FailureEndsProcess ==
    \/ ctxDone
    \/ chan["fatal"] # <<>>
    \/ docker = "error"
    \/ chan["errCh"] # <<>>
    \/ chan["localErr"] # <<>>
    ~> step = "exited"
=============================================================================
