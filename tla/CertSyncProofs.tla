---------------------------- MODULE CertSyncProofs ----------------------------
(***************************************************************************)
(* Proofs about CertSync, for any certificates, any set of faults, and any   *)
(* number of processes and of certificates issued.                          *)
(***************************************************************************)
EXTENDS CertSync, TLAPS

\* The goroutine of Syncer.Run lives inside run of main.go, the final sweep only
\* after ctx is cancelled; between sweeps nothing is in hand, and an upload is
\* of one file.
SyncerInOrder ==
    /\ syncer # "off" <=> proc \in {"serving", "closing", "waiting"}
    /\ syncer \in {"final", "done"} => ctxDone
    /\ syncer \in {"select", "done"} => todo = {}
    /\ syncer \notin {"sweep", "final"} => inFlight = {}
    /\ \A u, v \in inFlight : u = v

\* Versions only grow while a process runs: no file or object is newer than the
\* last certificate issued, no upload is newer than its file, and a cancelled
\* ctx found no newer file than there is.
NoNewer ==
    /\ \A f \in Files : disk[f] <= issued /\ bucket[f] <= issued
    /\ \A u \in inFlight : u[2] <= disk[u[1]]
    /\ syncer # "off" /\ ctxDone => \A f \in Files : due[f] <= disk[f]

\* Hydrate has restored what is neither still to come nor failed.
HydratedSoFar ==
    proc = "hydrating" =>
        \A f \in Files : f \in unlisted \cup page \cup unread \/ bucket[f] <= disk[f]

\* A file that is newer than the upload in progress was written during it, and
\* its event has not been read.
RenewalIsNoticed ==
    syncer = "sweep" =>
        \A u \in inFlight : u[2] # disk[u[1]] => events > 0 \/ pending \/ ctxDone

\* The final sweep has saved, failed to save, or has still to save what was on
\* disk when ctx was cancelled.
FinalSoFar ==
    syncer = "final" =>
        /\ \A u \in inFlight : due[u[1]] <= u[2]
        /\ \A f \in Files \ unsaved :
              f \in todo \/ (\E u \in inFlight : u[1] = f) \/ due[f] <= bucket[f]

IInv ==
    /\ TypeOK
    /\ SyncerInOrder
    /\ NoNewer
    /\ HydratedSoFar
    /\ RenewalIsNoticed
    /\ FinalSoFar
    /\ DirtyIsNoticed
    /\ SweptBeforeExit
    /\ RestoredWhatCouldBe

-----------------------------------------------------------------------------

\* The first process finds an empty bucket and an empty directory.
LEMMA InitInv == Init => IInv
<1> SUFFICES ASSUME Init PROVE IInv
    OBVIOUS
<1>1. TypeOK
  <2>1. disk \in [Files -> Versions] /\ bucket \in [Files -> Versions] /\ due \in [Files -> Versions]
    BY BoundsAssumption DEF Init, Versions
  <2>2. issued \in Versions /\ starts \in 0 .. MaxStarts /\ inFlight \subseteq Files \X Versions
    BY BoundsAssumption DEF Init, Versions
  <2> QED
    BY <2>1, <2>2 DEF Init, TypeOK
<1>2. SyncerInOrder /\ NoNewer /\ HydratedSoFar /\ RenewalIsNoticed /\ FinalSoFar
  BY DEF Init, SyncerInOrder, NoNewer, HydratedSoFar, RenewalIsNoticed, FinalSoFar
<1>3. DirtyIsNoticed /\ SweptBeforeExit /\ RestoredWhatCouldBe
  BY DEF Init, DirtyIsNoticed, SweptBeforeExit, RestoredWhatCouldBe
<1> QED
  BY <1>1, <1>2, <1>3 DEF IInv

-----------------------------------------------------------------------------
(* The steps, one lemma for each.                                           *)

\* A process starts: everything in the bucket is to be restored.
LEMMA StartInv == ASSUME IInv, Start PROVE IInv'
<1> USE DEF IInv
<1>1. TypeOK'
  <2>1. starts' \in 0 .. MaxStarts
    BY BoundsAssumption DEF Start, TypeOK
  <2>2. ctxDone' \in BOOLEAN /\ unlisted' \subseteq Files
    BY DEF Start
  <2> QED
    BY <2>1, <2>2 DEF Start, TypeOK, watching, sweeping
<1>2. SyncerInOrder' /\ NoNewer' /\ HydratedSoFar' /\ RenewalIsNoticed'
  BY DEF Start, SyncerInOrder, NoNewer, HydratedSoFar, RenewalIsNoticed, TypeOK,
         Versions, sweeping
<1>3. FinalSoFar' /\ DirtyIsNoticed' /\ SweptBeforeExit' /\ RestoredWhatCouldBe'
  BY DEF Start, FinalSoFar, DirtyIsNoticed, SweptBeforeExit, RestoredWhatCouldBe,
         SyncerInOrder, sweeping
<1> QED
  BY <1>1, <1>2, <1>3

\* A page of the mirror is listed.
LEMMA ListPageInv == ASSUME IInv, NEW p \in SUBSET unlisted, ListPage(p) PROVE IInv'
<1> USE DEF IInv
<1>1. TypeOK'
  BY DEF ListPage, TypeOK, world, watching, sweeping
<1>2. SyncerInOrder' /\ NoNewer' /\ HydratedSoFar' /\ RenewalIsNoticed'
  BY DEF ListPage, SyncerInOrder, NoNewer, HydratedSoFar, RenewalIsNoticed, world,
         sweeping
<1>3. FinalSoFar' /\ DirtyIsNoticed' /\ SweptBeforeExit' /\ RestoredWhatCouldBe'
  BY DEF ListPage, FinalSoFar, DirtyIsNoticed, SweptBeforeExit, RestoredWhatCouldBe,
         SyncerInOrder, sweeping
<1> QED
  BY <1>1, <1>2, <1>3

\* The listing fails: what was on the pages to come counts as unread.
LEMMA ListFailsInv == ASSUME IInv, ListFails PROVE IInv'
<1> USE DEF IInv
<1>1. TypeOK'
  BY DEF ListFails, TypeOK, world, watching, sweeping
<1>2. SyncerInOrder' /\ NoNewer' /\ HydratedSoFar' /\ RenewalIsNoticed'
  BY DEF ListFails, SyncerInOrder, NoNewer, HydratedSoFar, RenewalIsNoticed, world,
         sweeping
<1>3. FinalSoFar' /\ DirtyIsNoticed' /\ SweptBeforeExit' /\ RestoredWhatCouldBe'
  BY DEF ListFails, FinalSoFar, DirtyIsNoticed, SweptBeforeExit, RestoredWhatCouldBe,
         SyncerInOrder, sweeping
<1> QED
  BY <1>1, <1>2, <1>3

\* An object is written to the directory.
LEMMA DownloadInv == ASSUME IInv, NEW f \in Files, Download(f) PROVE IInv'
<1> USE DEF IInv
<1>1. TypeOK'
  BY DEF Download, TypeOK, watching, sweeping
<1>2. SyncerInOrder' /\ NoNewer' /\ RenewalIsNoticed' /\ FinalSoFar'
  BY DEF Download, SyncerInOrder, NoNewer, RenewalIsNoticed, FinalSoFar, sweeping
<1>3. DirtyIsNoticed' /\ SweptBeforeExit' /\ RestoredWhatCouldBe'
  BY DEF Download, DirtyIsNoticed, SweptBeforeExit, RestoredWhatCouldBe,
         SyncerInOrder, sweeping
<1>4. HydratedSoFar'
  BY DEF Download, HydratedSoFar, TypeOK, Versions
<1> QED
  BY <1>1, <1>2, <1>3, <1>4

\* An object cannot be restored, and the others are not affected.
LEMMA DownloadFailsInv == ASSUME IInv, NEW f \in Files, DownloadFails(f) PROVE IInv'
<1> USE DEF IInv
<1>1. TypeOK'
  BY DEF DownloadFails, TypeOK, world, watching, sweeping
<1>2. SyncerInOrder' /\ NoNewer' /\ HydratedSoFar' /\ RenewalIsNoticed'
  BY DEF DownloadFails, SyncerInOrder, NoNewer, HydratedSoFar, RenewalIsNoticed,
         world, sweeping
<1>3. FinalSoFar' /\ DirtyIsNoticed' /\ SweptBeforeExit' /\ RestoredWhatCouldBe'
  BY DEF DownloadFails, FinalSoFar, DirtyIsNoticed, SweptBeforeExit,
         RestoredWhatCouldBe, SyncerInOrder, sweeping
<1> QED
  BY <1>1, <1>2, <1>3

\* Hydrate is over and Syncer.Run starts.
LEMMA WatchInv == ASSUME IInv, Watch PROVE IInv'
<1> USE DEF IInv
<1>1. TypeOK'
  <2>1. due' \in [Files -> Versions]
    BY BoundsAssumption DEF Watch, TypeOK, Versions
  <2>2. inFlight' \subseteq Files \X Versions /\ todo' \subseteq Files /\ unsaved' \subseteq Files
    BY DEF Watch
  <2>3. pending' \in BOOLEAN /\ expired' \in BOOLEAN /\ ctxDone' \in BOOLEAN /\ events' \in Nat
    BY DEF Watch, TypeOK
  <2> QED
    BY <2>1, <2>2, <2>3 DEF Watch, TypeOK, world, hydration
<1>2. SyncerInOrder' /\ NoNewer' /\ HydratedSoFar' /\ RenewalIsNoticed'
  BY DEF Watch, SyncerInOrder, NoNewer, HydratedSoFar, RenewalIsNoticed, TypeOK,
         Versions, world
<1>3. FinalSoFar' /\ SweptBeforeExit'
  BY DEF Watch, FinalSoFar, SweptBeforeExit
<1>4. DirtyIsNoticed'
  BY DEF Watch, DirtyIsNoticed, Dirty, world
<1>5. RestoredWhatCouldBe'
  BY DEF Watch, RestoredWhatCouldBe, HydratedSoFar, world, hydration
<1> QED
  BY <1>1, <1>2, <1>3, <1>4, <1>5

\* ctx is cancelled by a signal.
LEMMA SignalInv == ASSUME IInv, Signal PROVE IInv'
<1> USE DEF IInv
<1>1. TypeOK'
  BY DEF Signal, TypeOK, world, hydration, watching, sweeping
<1>2. SyncerInOrder' /\ NoNewer' /\ HydratedSoFar' /\ RenewalIsNoticed'
  BY DEF Signal, SyncerInOrder, NoNewer, HydratedSoFar, RenewalIsNoticed, TypeOK,
         Versions, world, hydration, sweeping
<1>3. FinalSoFar' /\ DirtyIsNoticed' /\ SweptBeforeExit' /\ RestoredWhatCouldBe'
  BY DEF Signal, FinalSoFar, DirtyIsNoticed, SweptBeforeExit, RestoredWhatCouldBe,
         SyncerInOrder, world, hydration, sweeping
<1> QED
  BY <1>1, <1>2, <1>3

\* run returns and its deferred functions begin.
LEMMA ReturnInv == ASSUME IInv, Return PROVE IInv'
<1> USE DEF IInv
<1>1. TypeOK'
  BY DEF Return, TypeOK, world, hydration, watching, sweeping
<1>2. SyncerInOrder' /\ NoNewer' /\ HydratedSoFar' /\ RenewalIsNoticed'
  BY DEF Return, SyncerInOrder, NoNewer, HydratedSoFar, RenewalIsNoticed, world,
         watching, sweeping
<1>3. FinalSoFar' /\ DirtyIsNoticed' /\ SweptBeforeExit' /\ RestoredWhatCouldBe'
  BY DEF Return, FinalSoFar, DirtyIsNoticed, SweptBeforeExit, RestoredWhatCouldBe,
         Dirty, world, hydration, watching, sweeping
<1> QED
  BY <1>1, <1>2, <1>3

\* ctx is cancelled by run's own deferred function.
LEMMA CancelInv == ASSUME IInv, Cancel PROVE IInv'
<1> USE DEF IInv
<1>1. TypeOK'
  BY DEF Cancel, TypeOK, world, hydration, watching, sweeping
<1>2. SyncerInOrder' /\ HydratedSoFar' /\ RenewalIsNoticed' /\ FinalSoFar'
  BY DEF Cancel, SyncerInOrder, HydratedSoFar, RenewalIsNoticed, FinalSoFar, world,
         sweeping
<1>3. DirtyIsNoticed' /\ SweptBeforeExit' /\ RestoredWhatCouldBe'
  BY DEF Cancel, DirtyIsNoticed, SweptBeforeExit, RestoredWhatCouldBe, SyncerInOrder,
         world, hydration, sweeping
<1>4. NoNewer'
  BY DEF Cancel, NoNewer, TypeOK, Versions, world, sweeping
<1> QED
  BY <1>1, <1>2, <1>3, <1>4

\* The process exits, having waited for the final sweep.
LEMMA ExitInv == ASSUME IInv, Exit PROVE IInv'
<1> USE DEF IInv
<1>1. TypeOK'
  BY BoundsAssumption DEF Exit, Gone, TypeOK, Versions, hydration, watching
<1>2. SyncerInOrder' /\ HydratedSoFar' /\ RenewalIsNoticed' /\ FinalSoFar'
  BY DEF Exit, Gone, SyncerInOrder, HydratedSoFar, RenewalIsNoticed, FinalSoFar
<1>3. DirtyIsNoticed' /\ RestoredWhatCouldBe'
  BY DEF Exit, Gone, DirtyIsNoticed, RestoredWhatCouldBe
<1>4. NoNewer'
  BY DEF Exit, Gone, NoNewer, TypeOK, Versions
<1>5. SweptBeforeExit'
  BY DEF Exit, Gone, SweptBeforeExit, SyncerInOrder
<1> QED
  BY <1>1, <1>2, <1>3, <1>4, <1>5

\* The process dies.
LEMMA CrashInv == ASSUME IInv, Crash PROVE IInv'
<1> USE DEF IInv
<1>1. TypeOK'
  BY BoundsAssumption DEF Crash, Gone, TypeOK, Versions, hydration, watching
<1>2. SyncerInOrder' /\ HydratedSoFar' /\ RenewalIsNoticed' /\ FinalSoFar'
  BY DEF Crash, Gone, SyncerInOrder, HydratedSoFar, RenewalIsNoticed, FinalSoFar
<1>3. DirtyIsNoticed' /\ SweptBeforeExit' /\ RestoredWhatCouldBe'
  BY DEF Crash, Gone, DirtyIsNoticed, SweptBeforeExit, RestoredWhatCouldBe
<1>4. NoNewer'
  BY DEF Crash, Gone, NoNewer, TypeOK, Versions
<1> QED
  BY <1>1, <1>2, <1>3, <1>4

\* tsnet writes a certificate, newer than any before.
LEMMA IssueInv == ASSUME IInv, NEW f \in Files, Issue(f) PROVE IInv'
<1> USE DEF IInv
<1>1. TypeOK'
  BY BoundsAssumption DEF Issue, TypeOK, Versions, hydration, sweeping
<1>2. SyncerInOrder' /\ HydratedSoFar' /\ RenewalIsNoticed' /\ FinalSoFar'
  BY DEF Issue, SyncerInOrder, HydratedSoFar, RenewalIsNoticed, FinalSoFar, TypeOK,
         sweeping
<1>3. SweptBeforeExit'
  BY DEF Issue, SweptBeforeExit, SyncerInOrder, sweeping
<1>4. NoNewer'
  BY DEF Issue, NoNewer, TypeOK, Versions, sweeping
<1>5. DirtyIsNoticed'
  BY DEF Issue, DirtyIsNoticed, TypeOK, SyncerInOrder
<1>6. RestoredWhatCouldBe'
  BY DEF Issue, RestoredWhatCouldBe, TypeOK, Versions, SyncerInOrder, NoNewer,
         hydration
<1> QED
  BY <1>1, <1>2, <1>3, <1>4, <1>5, <1>6

\* Events are lost: what they were about is recorded as missed.
LEMMA EventsLostInv == ASSUME IInv, EventsLost PROVE IInv'
<1> USE DEF IInv
<1>1. TypeOK'
  BY DEF EventsLost, TypeOK, world, hydration, sweeping
<1>2. SyncerInOrder' /\ NoNewer' /\ HydratedSoFar' /\ RenewalIsNoticed'
  BY DEF EventsLost, SyncerInOrder, NoNewer, HydratedSoFar, RenewalIsNoticed, world,
         sweeping
<1>3. FinalSoFar' /\ SweptBeforeExit' /\ RestoredWhatCouldBe'
  BY DEF EventsLost, FinalSoFar, SweptBeforeExit, RestoredWhatCouldBe, SyncerInOrder,
         world, hydration, sweeping
<1>4. DirtyIsNoticed'
  BY DEF EventsLost, DirtyIsNoticed, Dirty, world
<1> QED
  BY <1>1, <1>2, <1>3, <1>4

\* An event is read: an upload is pending and the timer runs.
LEMMA ReadEventInv == ASSUME IInv, ReadEvent PROVE IInv'
<1> USE DEF IInv
<1>1. TypeOK'
  BY DEF ReadEvent, TypeOK, world, hydration, sweeping
<1>2. SyncerInOrder' /\ NoNewer' /\ HydratedSoFar' /\ RenewalIsNoticed'
  BY DEF ReadEvent, SyncerInOrder, NoNewer, HydratedSoFar, RenewalIsNoticed, world,
         sweeping
<1>3. FinalSoFar' /\ SweptBeforeExit' /\ RestoredWhatCouldBe'
  BY DEF ReadEvent, FinalSoFar, SweptBeforeExit, RestoredWhatCouldBe, world,
         hydration, sweeping
<1>4. DirtyIsNoticed'
  BY DEF ReadEvent, DirtyIsNoticed
<1> QED
  BY <1>1, <1>2, <1>3, <1>4

\* The timer fires.
LEMMA TimerFiresInv == ASSUME IInv, TimerFires PROVE IInv'
<1> USE DEF IInv
<1>1. TypeOK'
  BY DEF TimerFires, TypeOK, world, hydration, sweeping
<1>2. SyncerInOrder' /\ NoNewer' /\ HydratedSoFar' /\ RenewalIsNoticed'
  BY DEF TimerFires, SyncerInOrder, NoNewer, HydratedSoFar, RenewalIsNoticed, world,
         sweeping
<1>3. FinalSoFar' /\ DirtyIsNoticed' /\ SweptBeforeExit' /\ RestoredWhatCouldBe'
  BY DEF TimerFires, FinalSoFar, DirtyIsNoticed, SweptBeforeExit,
         RestoredWhatCouldBe, Dirty, world, hydration, sweeping
<1> QED
  BY <1>1, <1>2, <1>3

\* The tick is taken: a sweep starts if an upload is pending.
LEMMA TickInv == ASSUME IInv, Tick PROVE IInv'
<1> USE DEF IInv
<1>1. TypeOK'
  BY DEF Tick, ReadDir, DirFails, TypeOK, world, hydration, sweeping
<1>2. SyncerInOrder' /\ NoNewer' /\ HydratedSoFar' /\ RenewalIsNoticed'
  BY DEF Tick, ReadDir, DirFails, SyncerInOrder, NoNewer, HydratedSoFar,
         RenewalIsNoticed, world, sweeping
<1>3. FinalSoFar' /\ SweptBeforeExit' /\ RestoredWhatCouldBe'
  BY DEF Tick, ReadDir, DirFails, FinalSoFar, SweptBeforeExit, RestoredWhatCouldBe,
         world, hydration, sweeping
<1>4. DirtyIsNoticed'
  BY DEF Tick, ReadDir, DirFails, DirtyIsNoticed, TypeOK, Versions, SyncerInOrder,
         Dirty, world
<1> QED
  BY <1>1, <1>2, <1>3, <1>4

\* The final sweep starts with all that is on disk.
LEMMA FinalSweepInv == ASSUME IInv, FinalSweep PROVE IInv'
<1> USE DEF IInv
<1>1. TypeOK'
  BY DEF FinalSweep, ReadDir, DirFails, TypeOK, world, hydration, watching
<1>2. SyncerInOrder' /\ NoNewer' /\ HydratedSoFar' /\ RenewalIsNoticed'
  BY DEF FinalSweep, ReadDir, DirFails, SyncerInOrder, NoNewer, HydratedSoFar,
         RenewalIsNoticed, world
<1>3. DirtyIsNoticed' /\ RestoredWhatCouldBe'
  BY DEF FinalSweep, DirtyIsNoticed, RestoredWhatCouldBe, world, hydration
<1>4. FinalSoFar'
  BY DEF FinalSweep, ReadDir, DirFails, FinalSoFar, TypeOK, Versions, SyncerInOrder,
         NoNewer, world
<1>5. SweptBeforeExit'
  BY DEF FinalSweep, ReadDir, DirFails, SweptBeforeExit, TypeOK, Versions, NoNewer,
         Dirty, world
<1> QED
  BY <1>1, <1>2, <1>3, <1>4, <1>5

\* upload reads a file.
LEMMA ReadInv == ASSUME IInv, NEW f \in Files, Read(f) PROVE IInv'
<1> USE DEF IInv
<1>1. TypeOK'
  BY DEF Read, Missed, TypeOK, world, hydration, watching
<1>2. SyncerInOrder' /\ HydratedSoFar' /\ RenewalIsNoticed' /\ SweptBeforeExit'
  BY DEF Read, SyncerInOrder, HydratedSoFar, RenewalIsNoticed, SweptBeforeExit, world
<1>3. RestoredWhatCouldBe'
  BY DEF Read, RestoredWhatCouldBe, world, hydration
<1>4. NoNewer'
  BY DEF Read, NoNewer, TypeOK, Versions, world
<1>5. FinalSoFar'
  <2> SUFFICES ASSUME syncer = "final" PROVE FinalSoFar'
    BY DEF Read, FinalSoFar
  <2>1. CASE expired
    <3>1. inFlight' = {} /\ todo' = todo \ {f} /\ unsaved' = unsaved \cup {f}
      BY <2>1 DEF Read, SweepCancelled, Missed
    <3>2. due' = due /\ bucket' = bucket
      BY DEF Read, world
    <3> QED
      BY <3>1, <3>2 DEF Read, FinalSoFar
  <2>2. CASE ~expired
    <3>1. inFlight' = {<<f, disk[f]>>} /\ inFlight = {} /\ todo' = todo \ {f} /\ unsaved' = unsaved
      BY <2>2 DEF Read, SweepCancelled
    <3>2. due' = due /\ bucket' = bucket /\ due[f] <= disk[f]
      BY DEF Read, NoNewer, SyncerInOrder, world
    <3> QED
      BY <3>1, <3>2 DEF FinalSoFar
  <2> QED
    BY <2>1, <2>2
<1>6. DirtyIsNoticed'
  BY DEF Read, SweepCancelled, DirtyIsNoticed, Dirty, world, watching
<1> QED
  BY <1>1, <1>2, <1>3, <1>4, <1>5, <1>6

\* An object is written.
LEMMA PutInv == ASSUME IInv, Put PROVE IInv'
<1> USE DEF IInv
<1>1. TypeOK'
  BY DEF Put, TypeOK, hydration, watching
<1>2. SyncerInOrder' /\ HydratedSoFar' /\ RenewalIsNoticed' /\ RestoredWhatCouldBe'
  BY DEF Put, SyncerInOrder, HydratedSoFar, RenewalIsNoticed, RestoredWhatCouldBe,
         NoNewer, hydration
<1>3. NoNewer'
  BY DEF Put, NoNewer, TypeOK, Versions
<1>4. FinalSoFar'
  BY DEF Put, FinalSoFar, TypeOK, SyncerInOrder
<1>5. SweptBeforeExit'
  BY DEF Put, SweptBeforeExit, SyncerInOrder
<1>6. DirtyIsNoticed'
  <2>1. PICK u \in inFlight : bucket' = [bucket EXCEPT ![u[1]] = u[2]] /\ unsaved' = unsaved \ {u[1]}
    BY DEF Put
  <2>2. inFlight = {u} /\ u \in Files \X Versions
    BY DEF SyncerInOrder, TypeOK
  <2> SUFFICES ASSUME syncer \in {"select", "sweep"}, ~ctxDone,
                      NEW f \in Files, Dirty(f)', f \notin unsaved'
               PROVE  events > 0 \/ pending \/ f \in todo
    BY DEF Put, DirtyIsNoticed, Dirty, watching
  <2>3. CASE f = u[1]
    <3>1. u[2] # disk[f]
      BY <2>1, <2>2, <2>3 DEF Put, Dirty, TypeOK, Versions
    <3> QED
      BY <2>3, <3>1 DEF RenewalIsNoticed, SyncerInOrder
  <2>4. CASE f # u[1]
    <3>1. Dirty(f) /\ f \notin unsaved /\ <<f, disk[f]>> \notin inFlight
      BY <2>1, <2>2, <2>4 DEF Put, Dirty
    <3> QED
      BY <3>1 DEF DirtyIsNoticed
  <2> QED
    BY <2>3, <2>4
<1> QED
  BY <1>1, <1>2, <1>3, <1>4, <1>5, <1>6

\* An upload fails, and with it at most the chance of its own file.
LEMMA PutFailsInv == ASSUME IInv, PutFails PROVE IInv'
<1> USE DEF IInv
<1>1. TypeOK'
  BY DEF PutFails, Missed, TypeOK, hydration, watching
<1>2. SyncerInOrder' /\ HydratedSoFar' /\ RenewalIsNoticed' /\ RestoredWhatCouldBe'
  BY DEF PutFails, SyncerInOrder, HydratedSoFar, RenewalIsNoticed,
         RestoredWhatCouldBe, TypeOK, NoNewer, hydration
<1>3. NoNewer'
  BY DEF PutFails, NoNewer, TypeOK, Versions
<1>4. FinalSoFar'
  BY DEF PutFails, Missed, FinalSoFar, TypeOK, SyncerInOrder
<1>5. SweptBeforeExit'
  BY DEF PutFails, SweptBeforeExit, SyncerInOrder
<1>6. DirtyIsNoticed'
  <2>1. PICK u \in inFlight :
            /\ bucket' = bucket \/ bucket' = [bucket EXCEPT ![u[1]] = u[2]]
            /\ unsaved' = Missed(u[1], u[2])
    BY DEF PutFails
  <2>2. inFlight = {u} /\ u \in Files \X Versions
    BY DEF SyncerInOrder, TypeOK
  <2> SUFFICES ASSUME syncer \in {"select", "sweep"}, ~ctxDone,
                      NEW f \in Files, Dirty(f)', f \notin unsaved'
               PROVE  events > 0 \/ pending \/ f \in todo
    BY DEF PutFails, DirtyIsNoticed, Dirty, watching
  <2>3. CASE f = u[1]
    <3>1. u[2] # disk[f]
      BY <2>1, <2>2, <2>3 DEF PutFails, Missed
    <3> QED
      BY <2>3, <3>1 DEF RenewalIsNoticed, SyncerInOrder
  <2>4. CASE f # u[1]
    <3>1. Dirty(f) /\ f \notin unsaved /\ <<f, disk[f]>> \notin inFlight
      BY <2>1, <2>2, <2>4 DEF PutFails, Dirty, Missed, TypeOK
    <3> QED
      BY <3>1 DEF DirtyIsNoticed
  <2> QED
    BY <2>3, <2>4
<1> QED
  BY <1>1, <1>2, <1>3, <1>4, <1>5, <1>6

\* A sweep is over.
LEMMA SweepDoneInv == ASSUME IInv, SweepDone PROVE IInv'
<1> USE DEF IInv
<1>1. TypeOK'
  BY DEF SweepDone, TypeOK, world, hydration, watching
<1>2. SyncerInOrder' /\ NoNewer' /\ HydratedSoFar' /\ RenewalIsNoticed'
  BY DEF SweepDone, SyncerInOrder, NoNewer, HydratedSoFar, RenewalIsNoticed, world
<1>3. FinalSoFar' /\ DirtyIsNoticed' /\ RestoredWhatCouldBe'
  BY DEF SweepDone, FinalSoFar, DirtyIsNoticed, RestoredWhatCouldBe, Dirty, world,
         hydration, watching
<1>4. SweptBeforeExit'
  BY DEF SweepDone, SweptBeforeExit, FinalSoFar, world
<1> QED
  BY <1>1, <1>2, <1>3, <1>4

\* The final sweep's time is over.
LEMMA ExpireInv == ASSUME IInv, Expire PROVE IInv'
<1> USE DEF IInv
<1>1. TypeOK'
  BY DEF Expire, TypeOK, world, hydration, watching
<1>2. SyncerInOrder' /\ NoNewer' /\ HydratedSoFar' /\ RenewalIsNoticed'
  BY DEF Expire, SyncerInOrder, NoNewer, HydratedSoFar, RenewalIsNoticed, world
<1>3. FinalSoFar' /\ DirtyIsNoticed' /\ SweptBeforeExit' /\ RestoredWhatCouldBe'
  BY DEF Expire, FinalSoFar, DirtyIsNoticed, SweptBeforeExit, RestoredWhatCouldBe,
         world, hydration
<1> QED
  BY <1>1, <1>2, <1>3

\* Every step keeps the invariant.
LEMMA NextInv == IInv /\ [Next]_vars => IInv'
<1>1. IInv /\ UNCHANGED vars => IInv'
  BY DEF IInv, vars, TypeOK, SyncerInOrder, NoNewer, HydratedSoFar, RenewalIsNoticed,
         FinalSoFar, DirtyIsNoticed, SweptBeforeExit, RestoredWhatCouldBe, Dirty, world,
         hydration, watching, sweeping
<1> QED
  BY <1>1, StartInv, ListPageInv, ListFailsInv, DownloadInv, DownloadFailsInv, WatchInv,
     SignalInv, ReturnInv, CancelInv, ExitInv, CrashInv, IssueInv, EventsLostInv,
     ReadEventInv, TimerFiresInv, TickInv, FinalSweepInv, ReadInv, PutInv, PutFailsInv,
     SweepDoneInv, ExpireInv DEF Next, Hydrate, Run

\* The inductive invariant holds throughout.
THEOREM InductiveInvariant == Spec => []IInv
BY InitInv, NextInv, PTL DEF Spec

-----------------------------------------------------------------------------

\* No certificate is forgotten while Syncer.Run serves its select, whatever the
\* events, ticks, sweeps and renewals overlap with (Run, syncAll, upload).
THEOREM NothingForgotten == Spec => []DirtyIsNoticed
<1>1. IInv => DirtyIsNoticed
  BY DEF IInv
<1> QED
  BY <1>1, InductiveInvariant, PTL

\* The final sweep covers all that was on disk when ctx was cancelled, before
\* Run returns and before the process exits (Run, run of main.go).
THEOREM FinalSweepIsComplete == Spec => []SweptBeforeExit
<1>1. IInv => SweptBeforeExit
  BY DEF IInv
<1> QED
  BY <1>1, InductiveInvariant, PTL

\* tsnet starts on a directory with all of the mirror that could be read
\* (Hydrate).
THEOREM RestoreIsComplete == Spec => []RestoredWhatCouldBe
<1>1. IInv => RestoredWhatCouldBe
  BY DEF IInv
<1> QED
  BY <1>1, InductiveInvariant, PTL

-----------------------------------------------------------------------------
(* Uploads overwrite, and never with something older.                        *)

\* A file that is there is no older than its object, also in a directory that
\* outlived its process or that a failed restore left as it was; a sweep uploads
\* files that are there, and an upload in flight is no older than its object.
FilesNotOlder ==
    /\ \A f \in Files : disk[f] = 0 \/ bucket[f] <= disk[f]
    /\ syncer # "off" => \A f \in todo : disk[f] > 0
    /\ \A u \in inFlight : bucket[u[1]] <= u[2]

\* An object is only ever overwritten by a newer version or by the same: not by
\* a directory that came back from an earlier process, not after a restore that
\* failed half way, and not by a put that takes effect as its process dies
\* (syncAll, upload, Hydrate).
MirrorNeverGoesBack == [][\A f \in Files : bucket[f] <= bucket'[f]]_vars

\* A put, whether it is reported or not, keeps FilesNotOlder and the mirror's age.
LEMMA PutKeepsAge ==
    ASSUME IInv, FilesNotOlder, NEW u \in inFlight,
           bucket' = bucket \/ bucket' = [bucket EXCEPT ![u[1]] = u[2]]
    PROVE  /\ \A f \in Files : bucket[f] <= bucket'[f]
           /\ \A f \in Files : disk[f] = 0 \/ bucket'[f] <= disk[f]
<1>1. /\ disk \in [Files -> Nat] /\ bucket \in [Files -> Nat]
      /\ u[1] \in Files /\ u[2] \in Nat
  BY BoundsAssumption DEF IInv, TypeOK, Versions
<1>2. bucket[u[1]] <= u[2] /\ u[2] <= disk[u[1]]
  BY DEF IInv, NoNewer, FilesNotOlder
<1>3. CASE bucket' = bucket
  BY <1>1, <1>3 DEF FilesNotOlder
<1>4. CASE bucket' = [bucket EXCEPT ![u[1]] = u[2]]
  BY <1>1, <1>2, <1>4 DEF FilesNotOlder
<1> QED
  BY <1>3, <1>4

\* The process ends, with its directory or without.
LEMMA GoneKeepsAge ==
    ASSUME IInv, FilesNotOlder, Gone
    PROVE  FilesNotOlder' /\ \A f \in Files : bucket[f] <= bucket'[f]
<1>1. disk \in [Files -> Nat] /\ bucket \in [Files -> Nat]
  BY BoundsAssumption DEF IInv, TypeOK, Versions
<1>2. /\ \A f \in Files : bucket[f] <= bucket'[f]
      /\ \A f \in Files : disk[f] = 0 \/ bucket'[f] <= disk[f]
  <2>1. CASE bucket' = bucket
    BY <1>1, <2>1 DEF FilesNotOlder
  <2>2. CASE \E u \in inFlight : bucket' = [bucket EXCEPT ![u[1]] = u[2]]
    BY <2>2, PutKeepsAge
  <2> QED
    BY <2>1, <2>2 DEF Gone
<1>3. \A f \in Files : disk'[f] = 0 \/ disk'[f] = disk[f]
  BY DEF Gone
<1>4. syncer' = "off" /\ inFlight' = {}
  BY DEF Gone
<1> QED
  BY <1>2, <1>3, <1>4 DEF FilesNotOlder

\* Every step keeps FilesNotOlder and the mirror's age.
LEMMA AgeInduct ==
    ASSUME IInv, FilesNotOlder, [Next]_vars
    PROVE  FilesNotOlder' /\ \A f \in Files : bucket[f] <= bucket'[f]
<1> DEFINE Kept == FilesNotOlder' /\ \A f \in Files : bucket[f] <= bucket'[f]
<1>1. /\ disk \in [Files -> Nat] /\ bucket \in [Files -> Nat] /\ issued \in Nat
      /\ todo \subseteq Files
  BY BoundsAssumption DEF IInv, TypeOK, Versions
<1>2. ASSUME bucket' = bucket, disk' = disk, syncer' # "off" => syncer # "off",
             todo' \subseteq todo, inFlight' \subseteq inFlight
      PROVE  Kept
  BY <1>1, <1>2 DEF FilesNotOlder
<1>3. CASE Start
  <2>1. syncer = "off" /\ inFlight = {}
    BY <1>3 DEF Start, IInv, SyncerInOrder
  <2> QED
    BY <1>2, <1>3, <2>1 DEF Start, watching, sweeping
<1>4. ASSUME \/ \E p \in SUBSET unlisted : ListPage(p)
             \/ ListFails \/ Signal \/ Return \/ Cancel \/ EventsLost \/ TimerFires
             \/ Expire \/ ReadEvent
             \/ \E f \in Files : DownloadFails(f)
      PROVE  Kept
  BY <1>2, <1>4 DEF ListPage, ListFails, Signal, Return, Cancel, EventsLost, TimerFires, Expire,
                    ReadEvent, DownloadFails, world, sweeping
<1>5. ASSUME NEW f \in Files, Download(f)
      PROVE  Kept
  <2>1. syncer = "off" /\ inFlight = {}
    BY <1>5 DEF Download, IInv, SyncerInOrder
  <2>2. /\ disk' = [disk EXCEPT ![f] = bucket[f]] /\ bucket' = bucket
        /\ syncer' = syncer /\ inFlight' = inFlight
    BY <1>5 DEF Download, sweeping
  <2> QED
    BY <1>1, <2>1, <2>2 DEF FilesNotOlder
<1>6. CASE Watch
  <2>1. disk' = disk /\ bucket' = bucket /\ todo' = {} /\ inFlight' = {}
    BY <1>6 DEF Watch, world
  <2> QED
    BY <1>1, <2>1 DEF FilesNotOlder
<1>7. CASE Exit \/ Crash
  BY <1>7, GoneKeepsAge DEF Exit, Crash
<1>8. ASSUME NEW f \in Files, Issue(f)
      PROVE  Kept
  <2>1. /\ disk' = [disk EXCEPT ![f] = issued + 1]
        /\ UNCHANGED <<bucket, syncer, todo, inFlight>>
    BY <1>8 DEF Issue, sweeping
  <2>2. bucket[f] <= issued
    BY DEF IInv, NoNewer
  <2>3. disk'[f] = issued + 1 /\ \A g \in Files \ {f} : disk'[g] = disk[g]
    BY <1>1, <2>1
  <2> QED
    BY <1>1, <2>1, <2>2, <2>3 DEF FilesNotOlder
<1>9. CASE Tick \/ FinalSweep
  <2>1. disk' = disk /\ bucket' = bucket /\ inFlight' = inFlight
    BY <1>9 DEF Tick, FinalSweep, ReadDir, DirFails, world, sweeping
  <2>2. todo' = todo \/ todo' = {f \in Files : disk[f] > 0}
    BY <1>9 DEF Tick, FinalSweep, ReadDir, DirFails, sweeping
  <2>3. syncer # "off"
    BY <1>9 DEF Tick, FinalSweep
  <2> QED
    BY <1>1, <2>1, <2>2, <2>3 DEF FilesNotOlder
<1>10. ASSUME NEW f \in Files, Read(f)
       PROVE  Kept
  <2>1. /\ disk' = disk /\ bucket' = bucket /\ syncer' = syncer /\ todo' = todo \ {f}
        /\ syncer # "off" /\ f \in todo
        /\ inFlight' = inFlight \/ inFlight' = {<<f, disk[f]>>}
    BY <1>10 DEF Read, world
  <2>2. bucket[f] <= disk[f]
    BY <1>1, <2>1 DEF FilesNotOlder
  <2>3. \A u \in inFlight' : bucket[u[1]] <= u[2]
    BY <2>1, <2>2 DEF FilesNotOlder
  <2> QED
    BY <1>1, <2>1, <2>3 DEF FilesNotOlder
<1>11. CASE Put \/ PutFails
  <2>1. PICK u \in inFlight :
           /\ bucket' = bucket \/ bucket' = [bucket EXCEPT ![u[1]] = u[2]]
           /\ inFlight' = {} /\ UNCHANGED <<disk, syncer, todo>>
    BY <1>11 DEF Put, PutFails
  <2> QED
    BY <2>1, PutKeepsAge DEF FilesNotOlder
<1>12. CASE SweepDone
  BY <1>2, <1>12 DEF SweepDone, world
<1>13. CASE UNCHANGED vars
  BY <1>2, <1>13 DEF vars, world, sweeping
<1> QED
  BY <1>3, <1>4, <1>5, <1>6, <1>7, <1>8, <1>9, <1>10, <1>11, <1>12, <1>13
     DEF Next, Hydrate, Run

\* The mirror never goes back to an older certificate, through any sequence of
\* processes, crashes and faults (syncAll, upload, Hydrate).
THEOREM MirrorIsMonotone == Spec => MirrorNeverGoesBack
<1>1. Init => FilesNotOlder
  BY DEF Init, FilesNotOlder
<1>2. IInv /\ FilesNotOlder /\ [Next]_vars => FilesNotOlder'
  BY AgeInduct
<1>3. IInv /\ FilesNotOlder /\ [Next]_vars => [\A f \in Files : bucket[f] <= bucket'[f]]_vars
  BY AgeInduct
<1> QED
  BY <1>1, <1>2, <1>3, InductiveInvariant, PTL DEF Spec, MirrorNeverGoesBack
=============================================================================
