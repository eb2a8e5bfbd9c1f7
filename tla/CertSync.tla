------------------------------ MODULE CertSync ------------------------------
(***************************************************************************)
(* The certificate mirror (src/certsync/certsync.go) inside the process     *)
(* that runs it (run and setupCertSync of src/main.go): tsnet writes         *)
(* certificates into a directory, a goroutine uploads them to a bucket, and  *)
(* the next process restores them.                                          *)
(*                                                                         *)
(* A certificate is a version number; 0 is a file that does not exist.  The  *)
(* directory holds nothing else: temporary files never match isCertFile.     *)
(* The bucket outlives the process; the directory may or may not.            *)
(***************************************************************************)
EXTENDS Naturals, FiniteSets

CONSTANTS
    Files,      \* the names isCertFile accepts
    Faults,     \* what may go wrong, among FaultKinds
    MaxIssues,  \* bound: certificates tsnet writes, over all
    MaxStarts   \* bound: processes, one after the other

FaultKinds == {"list", "get", "put", "dir", "overflow", "crash"}

ASSUME FilesAssumption == IsFiniteSet(Files)
ASSUME FaultsAssumption == Faults \subseteq FaultKinds
ASSUME BoundsAssumption == MaxIssues \in Nat /\ MaxStarts \in Nat

VARIABLES
    disk,      \* disk[f]: the version in the directory
    bucket,    \* bucket[f]: the version of the object
    issued,    \* the number of certificates written so far
    starts,    \* the number of processes started so far
    proc,      \* where run of main.go is
    ctxDone,   \* ctx is cancelled
    unlisted,  \* Hydrate: the objects on pages not listed yet
    page,      \* Hydrate: the objects of this page not downloaded yet
    syncer,    \* where Syncer.Run is
    events,    \* filesystem events not read yet
    timer,     \* the debounce timer
    pending,   \* Run's pending
    todo,      \* syncAll: the entries not uploaded yet
    inFlight,  \* upload: the file and the version being put, if any
    expired,   \* the 30 seconds of the final sweep are over
    due,       \* history: disk when ctx was cancelled
    unsaved,   \* history: files whose last chance of an upload failed
    unread     \* history: objects Hydrate failed to restore

world == <<disk, bucket, issued, starts>>
hydration == <<unlisted, page, unread>>
watching == <<events, timer, pending>>
sweeping == <<syncer, todo, inFlight, expired>>
vars == <<world, proc, ctxDone, hydration, watching, sweeping, due, unsaved>>

Versions == 0 .. MaxIssues

TypeOK ==
    /\ disk \in [Files -> Versions]
    /\ bucket \in [Files -> Versions]
    /\ issued \in Versions
    /\ starts \in 0 .. MaxStarts
    /\ proc \in {"off", "hydrating", "serving", "closing", "waiting", "exited"}
    /\ ctxDone \in BOOLEAN
    /\ unlisted \subseteq Files
    /\ page \subseteq Files
    /\ syncer \in {"off", "select", "sweep", "final", "done"}
    /\ events \in Nat
    /\ timer \in {"stopped", "running", "fired"}
    /\ pending \in BOOLEAN
    /\ todo \subseteq Files
    /\ inFlight \subseteq Files \X Versions
    /\ expired \in BOOLEAN
    /\ due \in [Files -> Versions]
    /\ unsaved \subseteq Files
    /\ unread \subseteq Files

\* The file is newer than the object.
Dirty(f) == disk[f] > bucket[f]

Init ==
    /\ disk = [f \in Files |-> 0]
    /\ bucket = [f \in Files |-> 0]
    /\ issued = 0
    /\ starts = 0
    /\ proc = "off"
    /\ ctxDone = FALSE
    /\ unlisted = {}
    /\ page = {}
    /\ syncer = "off"
    /\ events = 0
    /\ timer = "stopped"
    /\ pending = FALSE
    /\ todo = {}
    /\ inFlight = {}
    /\ expired = FALSE
    /\ due = [f \in Files |-> 0]
    /\ unsaved = {}
    /\ unread = {}

-----------------------------------------------------------------------------
(* The process: setupCertSync restores, watches and returns; run then starts *)
(* the goroutine of Syncer.Run and tsnet.                                   *)

Start ==
    /\ proc \in {"off", "exited"}
    /\ starts < MaxStarts
    /\ starts' = starts + 1
    /\ proc' = "hydrating"
    /\ ctxDone' = FALSE
    /\ unlisted' = {f \in Files : bucket[f] > 0}
    /\ page' = {}
    /\ unread' = {}
    /\ UNCHANGED <<disk, bucket, issued, watching, sweeping, due, unsaved>>

\* Mutant of ListPage: a page replaces what is left of the last one, and the
\* continuation token is dropped.
ListPageOnly(p) ==
    /\ proc = "hydrating" /\ page = {} /\ unlisted # {} /\ ~ctxDone
    /\ p # {}
    /\ page' = p
    /\ unlisted' = {}
    /\ UNCHANGED <<world, proc, ctxDone, unread, watching, sweeping, due, unsaved>>

\* ListObjectsV2 returns the next page.
ListPage(p) ==
    /\ proc = "hydrating" /\ page = {} /\ unlisted # {} /\ ~ctxDone
    /\ p # {}
    /\ page' = p
    /\ unlisted' = unlisted \ p
    /\ UNCHANGED <<world, proc, ctxDone, unread, watching, sweeping, due, unsaved>>

\* A page cannot be listed: Hydrate gives up, and setupCertSync goes on.
ListFails ==
    /\ proc = "hydrating" /\ page = {} /\ unlisted # {}
    /\ "list" \in Faults \/ ctxDone
    /\ unlisted' = {}
    /\ unread' = unread \cup unlisted
    /\ UNCHANGED <<world, proc, ctxDone, page, watching, sweeping, due, unsaved>>

Download(f) ==
    /\ proc = "hydrating" /\ f \in page /\ ~ctxDone
    /\ disk' = [disk EXCEPT ![f] = bucket[f]]
    /\ page' = page \ {f}
    /\ UNCHANGED <<bucket, issued, starts, proc, ctxDone, unlisted, unread,
                   watching, sweeping, due, unsaved>>

\* One object that cannot be fetched or written does not keep back the rest.
DownloadFails(f) ==
    /\ proc = "hydrating" /\ f \in page
    /\ "get" \in Faults \/ ctxDone
    /\ page' = page \ {f}
    /\ unread' = unread \cup {f}
    /\ UNCHANGED <<world, proc, ctxDone, unlisted, watching, sweeping, due,
                   unsaved>>

\* Hydrate returns, Watch registers the watch, and Run starts with its timer
\* stopped.  What is on disk and not in the bucket by then raises no event.
Watch ==
    /\ proc = "hydrating" /\ page = {} /\ unlisted = {}
    /\ proc' = "serving"
    /\ syncer' = "select"
    /\ events' = 0
    /\ timer' = "stopped"
    /\ pending' = FALSE
    /\ todo' = {}
    /\ inFlight' = {}
    /\ expired' = FALSE
    /\ due' = IF ctxDone THEN disk ELSE [f \in Files |-> 0]
    /\ unsaved' = {f \in Files : Dirty(f)}
    /\ UNCHANGED <<world, ctxDone, hydration>>

\* SIGTERM or SIGINT.
Signal ==
    /\ proc \in {"hydrating", "serving", "closing"}
    /\ ~ctxDone
    /\ ctxDone' = TRUE
    /\ due' = disk
    /\ UNCHANGED <<world, proc, hydration, watching, sweeping, unsaved>>

\* run returns: on the signal, or with an error of its own, ctx untouched.
Return ==
    /\ proc = "serving"
    /\ proc' = "closing"
    /\ UNCHANGED <<world, ctxDone, hydration, watching, sweeping, due, unsaved>>

\* The deferred mgr.Close and srv.Close have run, tsnet writes no more, and the
\* next deferred function cancels ctx.
Cancel ==
    /\ proc = "closing"
    /\ proc' = "waiting"
    /\ ctxDone' = TRUE
    /\ due' = IF ctxDone THEN due ELSE disk
    /\ UNCHANGED <<world, hydration, watching, sweeping, unsaved>>

\* The process is gone, and with it the directory if its disk was ephemeral.  A
\* put in flight may still take effect.
Gone ==
    /\ disk' \in {disk, [f \in Files |-> 0]}
    /\ \/ UNCHANGED bucket
       \/ \E u \in inFlight : bucket' = [bucket EXCEPT ![u[1]] = u[2]]
    /\ syncer' = "off"
    /\ inFlight' = {}
    /\ UNCHANGED <<issued, starts, ctxDone, hydration, watching, todo, expired,
                   due, unsaved>>

\* Mutant of Exit: run does not wait for the syncer.
ExitAtOnce ==
    /\ proc = "waiting"
    /\ proc' = "exited"
    /\ Gone

\* syncDone is closed.  The wait of 35 seconds ends without it only if the
\* final sweep, which has 30 and began no later, is past its own deadline.
Exit ==
    /\ proc = "waiting"
    /\ syncer = "done" \/ expired
    /\ proc' = "exited"
    /\ Gone

\* The process dies without running its deferred functions, or setupCertSync
\* returns an error before any is registered.
Crash ==
    /\ "crash" \in Faults
    /\ proc \notin {"off", "exited"}
    /\ proc' = "off"
    /\ Gone

-----------------------------------------------------------------------------
(* tsnet.                                                                   *)

\* A certificate is issued or renewed: an atomic write, one event.
Issue(f) ==
    /\ proc \in {"serving", "closing"}
    /\ issued < MaxIssues
    /\ issued' = issued + 1
    /\ disk' = [disk EXCEPT ![f] = issued + 1]
    /\ events' = events + 1
    /\ unsaved' = IF ctxDone THEN unsaved ELSE unsaved \ {f}
    /\ UNCHANGED <<bucket, starts, proc, ctxDone, hydration, timer, pending,
                   sweeping, due>>

\* inotify's queue overflows: Run reads the error from w.Errors and logs it.
EventsLost ==
    /\ "overflow" \in Faults
    /\ syncer = "select" /\ events > 0
    /\ events' = 0
    /\ unsaved' = {f \in Files : Dirty(f)}
    /\ UNCHANGED <<world, proc, ctxDone, hydration, timer, pending, sweeping,
                   due>>

-----------------------------------------------------------------------------
(* Syncer.Run: its select, one action per case.                             *)

\* Mutant of ReadEvent: an event while an upload is pending is dropped, and
\* one that finds none pending does not start the timer anew.
ReadEventNoReset ==
    /\ syncer = "select" /\ events > 0
    /\ events' = events - 1
    /\ pending' = TRUE
    /\ UNCHANGED <<world, proc, ctxDone, hydration, timer, sweeping, due,
                   unsaved>>

ReadEvent ==
    /\ syncer = "select" /\ events > 0
    /\ events' = events - 1
    /\ timer' = "running"
    /\ pending' = TRUE
    /\ UNCHANGED <<world, proc, ctxDone, hydration, sweeping, due, unsaved>>

\* Two seconds pass without an event being read.
TimerFires ==
    /\ timer = "running" /\ syncer # "off"
    /\ timer' = "fired"
    /\ UNCHANGED <<world, proc, ctxDone, hydration, events, pending, sweeping,
                   due, unsaved>>

\* syncAll begins: os.ReadDir.
ReadDir(step) ==
    /\ syncer' = step
    /\ todo' = {f \in Files : disk[f] > 0}
    /\ UNCHANGED <<inFlight, expired>>

\* os.ReadDir fails, and with it the whole sweep.
DirFails(step) ==
    /\ "dir" \in Faults
    /\ syncer' = step
    /\ unsaved' = unsaved \cup {f \in Files : Dirty(f)}
    /\ UNCHANGED <<todo, inFlight, expired>>

\* A tick with nothing pending, or once ctx is cancelled, is ignored.
Tick ==
    /\ syncer = "select" /\ timer = "fired"
    /\ timer' = "stopped"
    /\ IF ~pending \/ ctxDone
       THEN UNCHANGED <<pending, sweeping, unsaved>>
       ELSE /\ pending' = FALSE
            /\ \/ ReadDir("sweep") /\ UNCHANGED unsaved
               \/ DirFails("select")
    /\ UNCHANGED <<world, proc, ctxDone, hydration, events, due>>

FinalSweep ==
    /\ syncer = "select" /\ ctxDone
    /\ \/ ReadDir("final") /\ UNCHANGED unsaved
       \/ DirFails("done")
    /\ UNCHANGED <<world, proc, ctxDone, hydration, watching, due>>

\* The context the sweep in progress was given has ended.
SweepCancelled == IF syncer = "final" THEN expired ELSE ctxDone

\* What becomes of a file when the upload of version v fails: it has missed its
\* chance, unless the final sweep or the event of a newer version is to come.
Missed(f, v) ==
    IF syncer = "final" \/ (~ctxDone /\ v = disk[f]) THEN unsaved \cup {f}
    ELSE unsaved

\* upload reads the file; PutObject with a context that has ended fails.
Read(f) ==
    /\ syncer \in {"sweep", "final"}
    /\ inFlight = {} /\ f \in todo
    /\ todo' = todo \ {f}
    /\ IF SweepCancelled
       THEN /\ unsaved' = Missed(f, disk[f])
            /\ UNCHANGED inFlight
       ELSE /\ inFlight' = {<<f, disk[f]>>}
            /\ UNCHANGED unsaved
    /\ UNCHANGED <<world, proc, ctxDone, hydration, watching, syncer, expired,
                   due>>

Put ==
    \E u \in inFlight :
        /\ bucket' = [bucket EXCEPT ![u[1]] = u[2]]
        /\ inFlight' = {}
        /\ unsaved' = unsaved \ {u[1]}
        /\ UNCHANGED <<disk, issued, starts, proc, ctxDone, hydration, watching,
                       syncer, todo, expired, due>>

\* Mutant of PutFails: one failed upload ends the sweep.
PutFailsEndsSweep ==
    \E u \in inFlight :
        /\ "put" \in Faults \/ SweepCancelled
        /\ inFlight' = {}
        /\ todo' = {}
        /\ unsaved' = Missed(u[1], u[2])
        /\ UNCHANGED <<world, proc, ctxDone, hydration, watching, syncer,
                       expired, due>>

\* PutObject returns an error, whether or not the object was written.
PutFails ==
    \E u \in inFlight :
        /\ "put" \in Faults \/ SweepCancelled
        /\ \/ UNCHANGED bucket
           \/ bucket' = [bucket EXCEPT ![u[1]] = u[2]]
        /\ inFlight' = {}
        /\ unsaved' = Missed(u[1], u[2])
        /\ UNCHANGED <<disk, issued, starts, proc, ctxDone, hydration, watching,
                       syncer, todo, expired, due>>

\* Every file has been tried: back to the select, or Run returns.
SweepDone ==
    /\ syncer \in {"sweep", "final"}
    /\ todo = {} /\ inFlight = {}
    /\ syncer' = IF syncer = "final" THEN "done" ELSE "select"
    /\ UNCHANGED <<world, proc, ctxDone, hydration, watching, todo, inFlight,
                   expired, due, unsaved>>

\* The final sweep's 30 seconds pass, which only slow calls can bring about.
Expire ==
    /\ "put" \in Faults
    /\ syncer = "final" /\ ~expired
    /\ expired' = TRUE
    /\ UNCHANGED <<world, proc, ctxDone, hydration, watching, syncer, todo,
                   inFlight, due, unsaved>>

-----------------------------------------------------------------------------

Hydrate ==
    \/ \E p \in SUBSET unlisted : ListPage(p)
    \/ ListFails
    \/ \E f \in Files : Download(f) \/ DownloadFails(f)
    \/ Watch

Run ==
    \/ ReadEvent
    \/ Tick
    \/ FinalSweep
    \/ \E f \in Files : Read(f)
    \/ Put
    \/ PutFails
    \/ SweepDone

Next ==
    \/ Start \/ Hydrate \/ Signal \/ Return \/ Cancel \/ Exit \/ Crash
    \/ \E f \in Files : Issue(f)
    \/ EventsLost \/ TimerFires \/ Expire
    \/ Run

Spec == Init /\ [][Next]_vars

\* The goroutines run, timers fire, calls to S3 return, and mgr.Close and
\* srv.Close, which are bounded, come to an end.
Fairness == WF_vars(Run) /\ WF_vars(TimerFires) /\ WF_vars(Cancel) /\ WF_vars(Exit)

FairSpec == Spec /\ Fairness

-----------------------------------------------------------------------------

\* While Run serves its select, no certificate is forgotten: one that is newer
\* than its object has an event waiting, a pending upload with the timer going,
\* a place in the sweep in progress or the final sweep to come, unless its
\* upload was tried and failed, or its event was lost.
DirtyIsNoticed ==
    syncer \in {"select", "sweep"} =>
        /\ pending => timer # "stopped" \/ ctxDone
        /\ \A f \in Files : Dirty(f) /\ f \notin unsaved =>
              events > 0 \/ pending \/ f \in todo \/ <<f, disk[f]>> \in inFlight
              \/ ctxDone

\* When Run has returned, or run has waited for it and the process has exited,
\* all that was on disk when ctx was cancelled is in the bucket, unless its
\* upload failed or ran out of time.
SweptBeforeExit ==
    syncer = "done" \/ (proc = "exited" /\ ~expired) =>
        \A f \in Files \ unsaved : bucket[f] >= due[f]

\* When tsnet starts, whatever of the mirror could be read is on disk: neither
\* the paging nor an object that failed keeps another one back.
RestoredWhatCouldBe ==
    syncer # "off" => \A f \in Files \ unread : disk[f] >= bucket[f]

\* A new certificate reaches the bucket while the process lives, unless its
\* upload fails: no event or tick is consumed in vain.
IssuedIsUploaded ==
    \A f \in Files :
        Dirty(f) /\ f \notin unsaved /\ syncer \in {"select", "sweep"} ~>
            ~Dirty(f) \/ f \in unsaved \/ syncer \notin {"select", "sweep"}
=============================================================================
