------------------------- MODULE LambdaWatcherProofs -------------------------
(***************************************************************************)
(* Proofs about LambdaWatcher, for any functions, tags and number of retags. *)
(***************************************************************************)
EXTENDS LambdaWatcher, TLAPS

\* Only a cycle that has resolved its account lists or applies, and nothing is
\* applied before the last page has been read.
CycleInOrder ==
    /\ pc \in {"list", "apply"} => resolved
    /\ pc = "list" => seen = {}
    /\ pc = "apply" => pages = {}

\* What the cycle knows of a function was true at some moment of the cycle: the
\* tags it has listed, and that a function it has read about and not listed was
\* disabled.
Explained ==
    /\ \A f \in Functions : tags[f] \in had[f]
    /\ pc \in {"list", "apply"} =>
          \A f \in Functions :
             /\ f \in DOMAIN mappings => mappings[f] \in had[f]
             /\ f \notin pages \cup seen \cup DOMAIN mappings => Disabled \in had[f]

IInv == TypeOK /\ CycleInOrder /\ Explained /\ BooksMatchRegistrar

-----------------------------------------------------------------------------

\* Valid tags have a registration, and it is never None (registrationOf).
LEMMA RegistrationOfValid ==
    \A t \in Valid : registrationOf(t) \in Registrations /\ registrationOf(t) # None
BY DistinctAssumption DEF Registrations

\* NewWatcher starts with empty books.
LEMMA InitInv == Init => IInv
<1> SUFFICES ASSUME Init PROVE IInv
    OBVIOUS
<1>1. TypeOK
  <2>1. resolved \in BOOLEAN /\ healthy \in BOOLEAN /\ (healthy => resolved)
    BY Zenon DEF Init
  <2>2. active \in [Functions -> Registrations] /\ had \in [Functions -> SUBSET Tags]
    BY DEF Init, Registrations
  <2>3. DOMAIN mappings = {}
    BY DEF Init
  <2> QED
    BY <2>1, <2>2, <2>3, BoundsAssumption DEF Init, TypeOK, Steps
<1>2. CycleInOrder /\ Explained
  BY DEF Init, CycleInOrder, Explained
<1>3. BooksMatchRegistrar
  BY DEF Init, BooksMatchRegistrar
<1> QED
  BY <1>1, <1>2, <1>3 DEF IInv

\* A step of AWS or of the watcher keeps the invariant.
LEMMA NextInv == IInv /\ [Next]_vars => IInv'
<1> SUFFICES ASSUME IInv, [Next]_vars PROVE IInv'
    OBVIOUS
<1> USE DEF IInv
<1>1. ASSUME NEW f \in Functions, NEW t \in Tags, Retag(f, t) PROVE IInv'
  <2>1. TypeOK'
    BY <1>1, BoundsAssumption DEF Retag, TypeOK, books, locals
  <2>2. CycleInOrder' /\ BooksMatchRegistrar'
    BY <1>1 DEF Retag, CycleInOrder, BooksMatchRegistrar, books, locals
  <2>3. Explained'
    BY <1>1 DEF Retag, Explained, TypeOK, books, locals
  <2> QED
    BY <2>1, <2>2, <2>3
<1>2. CASE Wake
  <2>1. TypeOK'
    BY <1>2 DEF Wake, TypeOK, Steps, books, locals
  <2>2. CycleInOrder' /\ Explained' /\ BooksMatchRegistrar'
    BY <1>2 DEF Wake, CycleInOrder, Explained, BooksMatchRegistrar, books, locals
  <2> QED
    BY <2>1, <2>2
<1>3. CASE Cancelled \/ CycleFails
  <2>1. TypeOK'
    <3>1. resolved' = resolved /\ (healthy' = healthy \/ healthy' = FALSE)
      BY <1>3 DEF Cancelled, CycleFails
    <3>2. pc' \in Steps /\ UNCHANGED <<aws, resolved, books, locals>>
      BY <1>3 DEF Cancelled, CycleFails, Steps
    <3>3. resolved' \in BOOLEAN /\ healthy' \in BOOLEAN /\ (healthy' => resolved')
      <4>1. resolved \in BOOLEAN /\ healthy \in BOOLEAN /\ (healthy => resolved)
        BY DEF TypeOK
      <4>2. CASE healthy' = healthy
        BY <3>1, <4>1, <4>2, Zenon
      <4>3. CASE healthy' = FALSE
        BY <3>1, <4>1, <4>3, Zenon
      <4> QED
        BY <3>1, <4>2, <4>3, Zenon
    <3> QED
      BY <3>2, <3>3 DEF TypeOK, aws, books, locals
  <2>2. CycleInOrder' /\ Explained' /\ BooksMatchRegistrar'
    BY <1>3 DEF Cancelled, CycleFails, CycleInOrder, Explained, BooksMatchRegistrar,
                aws, books, locals
  <2> QED
    BY <2>1, <2>2
<1>4. CASE AccountKnown
  <2>1. TypeOK'
    BY <1>4 DEF AccountKnown, TypeOK, Steps, aws, books
  <2>2. CycleInOrder' /\ Explained' /\ BooksMatchRegistrar'
    BY <1>4 DEF AccountKnown, CycleInOrder, Explained, BooksMatchRegistrar, aws, books
  <2> QED
    BY <2>1, <2>2
<1>5. ASSUME NEW page \in SUBSET pages, GetResources(page) PROVE IInv'
  <2>1. TypeOK'
    BY <1>5 DEF GetResources, TypeOK, CycleInOrder, Steps, aws, books
  <2>2. CycleInOrder' /\ BooksMatchRegistrar'
    BY <1>5 DEF GetResources, CycleInOrder, BooksMatchRegistrar, aws, books
  <2>3. Explained'
    BY <1>5 DEF GetResources, Explained, TypeOK, aws, books
  <2> QED
    BY <2>1, <2>2, <2>3
<1>6. ASSUME NEW f \in Functions,
             InvalidTags(f) \/ AlreadyServing(f) \/ Registers(f) \/ RegisterFails(f)
      PROVE IInv'
  <2>1. Take(f)
    BY <1>6 DEF InvalidTags, AlreadyServing, Registers, RegisterFails
  <2>2. mappings[f] # Invalid => /\ mappings[f] \in Valid
                                 /\ Wants(f) = registrationOf(mappings[f])
    BY <2>1 DEF Take, TypeOK, Tags, Wants
  <2>3. TypeOK'
    <3>1. /\ active' \in [Functions -> Registrations]
          /\ pool' \in [Functions -> Valid \cup {Disabled}]
          /\ failed' \subseteq Functions
      BY <1>6, <2>2, RegistrationOfValid
      DEF InvalidTags, AlreadyServing, Registers, RegisterFails, TypeOK, Registrations
    <3> QED
      BY <2>1, <3>1 DEF Take, TypeOK, aws
  <2>4. CycleInOrder' /\ Explained'
    BY <2>1 DEF Take, CycleInOrder, Explained, TypeOK, aws
  <2>5. BooksMatchRegistrar'
    BY <1>6, <2>2, DistinctAssumption
    DEF InvalidTags, AlreadyServing, Registers, RegisterFails, BooksMatchRegistrar, TypeOK
  <2> QED
    BY <2>3, <2>4, <2>5
<1>7. CASE RemoveMissing
  <2>1. TypeOK'
    BY <1>7 DEF RemoveMissing, TypeOK, CycleInOrder, Steps, Registrations, aws, locals
  <2>2. CycleInOrder' /\ Explained'
    BY <1>7 DEF RemoveMissing, CycleInOrder, Explained, aws, locals
  <2>3. BooksMatchRegistrar'
    BY <1>7 DEF RemoveMissing, BooksMatchRegistrar, TypeOK
  <2> QED
    BY <2>1, <2>2, <2>3
<1>8. CASE UNCHANGED vars
  BY <1>8 DEF vars, TypeOK, CycleInOrder, Explained, BooksMatchRegistrar, aws, books, locals
<1> QED
  BY <1>1, <1>2, <1>3, <1>4, <1>5, <1>6, <1>7, <1>8
  DEF Next, WatcherStep, AccountFails, GetResourcesFails

\* The inductive invariant holds throughout.
THEOREM InductiveInvariant == Spec => []IInv
BY InitInv, NextInv, PTL DEF Spec

-----------------------------------------------------------------------------

\* What the watcher believes is registered is what the registrar has, whatever
\* fails and whatever is retagged meanwhile (apply, removeMissing).
THEOREM BooksAreTrue == Spec => []BooksMatchRegistrar
<1>1. IInv => BooksMatchRegistrar
  BY DEF IInv
<1> QED
  BY <1>1, InductiveInvariant, PTL

\* The watcher drops or replaces a registration only on the strength of tags
\* the function had during the cycle: no failed call, no page not yet read and
\* no invalid tags cost a function its registration.
THEOREM DropsAreExplained == Spec => DroppedOnlyWhenRetagged
<1>1. ASSUME IInv, [Next]_vars, NEW f \in Functions,
             pool[f] # Disabled, pool'[f] # pool[f]
      PROVE \E t \in had[f] : t # Invalid /\ t # pool[f]
  <2> USE DEF IInv
  <2>1. PICK g \in Functions : Registers(g) \/ RegisterFails(g) \/ RemoveMissing
    BY <1>1 DEF Next, Retag, WatcherStep, Wake, Cancelled, CycleFails, AccountKnown,
                AccountFails, GetResources, GetResourcesFails, InvalidTags, AlreadyServing,
                books, vars
  <2>2. CASE Registers(g) \/ RegisterFails(g)
    <3>1. f = g /\ Take(f) /\ mappings[f] # Invalid /\ active[f] # Wants(f)
      BY <1>1, <2>2 DEF Registers, RegisterFails, TypeOK
    <3>2. mappings[f] \in had[f]
      BY <1>1, <3>1 DEF Take, Explained
    <3>3. mappings[f] # pool[f]
      BY <1>1, <3>1 DEF BooksMatchRegistrar, Wants
    <3> QED
      BY <3>1, <3>2, <3>3
  <2>3. CASE RemoveMissing
    <3>1. f \notin seen
      BY <1>1, <2>3 DEF RemoveMissing
    <3>2. Disabled \in had[f]
      BY <1>1, <2>3, <3>1 DEF RemoveMissing, Explained, CycleInOrder
    <3> QED
      BY <1>1, <3>2, DistinctAssumption
  <2> QED
    BY <2>1, <2>2, <2>3
<1>2. IInv /\ [Next]_vars =>
        [\A f \in Functions : pool[f] # Disabled /\ pool'[f] # pool[f] =>
             \E t \in had[f] : t # Invalid /\ t # pool[f]]_vars
  BY <1>1
<1> QED
  BY <1>2, InductiveInvariant, PTL DEF Spec, DroppedOnlyWhenRetagged

-----------------------------------------------------------------------------
(* What a successful cycle has achieved.                                     *)

\* Function f is as tags t say it should be: not served if they disable it,
\* served as they say if they are valid; or t cannot be served, because they are
\* invalid or their registration failed, and the failure is recorded.
SettledAs(f, t) ==
    \/ t = Disabled /\ pool[f] = Disabled /\ f \notin failed
    \/ /\ t \in Valid /\ pool[f] # Disabled /\ f \notin failed
       /\ registrationOf(pool[f]) = registrationOf(t)
    \/ t \in Valid /\ pool[f] = Disabled /\ f \in failed
    \/ t = Invalid /\ f \in failed

Settled(f) == \E t \in had[f] : SettledAs(f, t)

\* After a cycle that reported success every function is as some tags it had
\* during the cycle say, though the listing spans pages, tags change under it and
\* registrations fail; nothing is left over from the cycles before (cycle).
SuccessIsCurrent == pc = "sleep" /\ healthy => \A f \in Functions : Settled(f)

\* The functions that the cycle has applied are settled.
SettledSoFar ==
    /\ pc = "apply" => \A f \in seen : Settled(f)
    /\ SuccessIsCurrent

\* A function stays settled if only its tags change.
LEMMA StaysSettled ==
    ASSUME NEW f \in Functions, Settled(f), pool'[f] = pool[f],
           f \in failed' <=> f \in failed, had[f] \subseteq had'[f]
    PROVE  Settled(f)'
BY DEF Settled, SettledAs

\* Applying a mapping settles its function.
LEMMA ApplySettles ==
    ASSUME IInv, SettledSoFar, NEW f \in Functions,
           InvalidTags(f) \/ AlreadyServing(f) \/ Registers(f) \/ RegisterFails(f)
    PROVE  SettledSoFar'
<1> USE DEF IInv
<1>1. Take(f)
  BY DEF InvalidTags, AlreadyServing, Registers, RegisterFails
<1>2. /\ pool \in [Functions -> Valid \cup {Disabled}] /\ active \in [Functions -> Registrations]
      /\ seen \subseteq Functions
  BY DEF TypeOK
<1>3. /\ pc = "apply" /\ pc' = pc /\ seen' = seen \cup {f} /\ had' = had /\ f \notin seen
  BY <1>1 DEF Take, aws, TypeOK
<1>4. mappings[f] \in had[f] /\ mappings[f] \in Valid \cup {Invalid}
  BY <1>1 DEF Take, Explained, TypeOK, Tags
<1>5. Settled(f)'
  <2>1. CASE InvalidTags(f)
    <3>1. mappings[f] = Invalid /\ f \in failed'
      BY <2>1 DEF InvalidTags
    <3> QED
      BY <1>3, <1>4, <3>1 DEF Settled, SettledAs
  <2>2. CASE AlreadyServing(f)
    <3>1. /\ mappings[f] \in Valid /\ f \notin failed' /\ pool' = pool
          /\ active[f] = registrationOf(mappings[f])
      BY <1>4, <2>2 DEF AlreadyServing, Wants
    <3>2. active[f] # None
      BY <3>1, RegistrationOfValid
    <3>3. pool[f] # Disabled /\ registrationOf(pool[f]) = registrationOf(mappings[f])
      BY <3>1, <3>2 DEF BooksMatchRegistrar
    <3> QED
      BY <1>3, <1>4, <3>1, <3>3 DEF Settled, SettledAs
  <2>3. CASE Registers(f)
    <3>1. mappings[f] \in Valid /\ f \notin failed' /\ pool'[f] = mappings[f]
      BY <1>2, <1>4, <2>3 DEF Registers
    <3>2. pool'[f] # Disabled
      BY <3>1, DistinctAssumption
    <3> QED
      BY <1>3, <1>4, <3>1, <3>2 DEF Settled, SettledAs
  <2>4. CASE RegisterFails(f)
    <3>1. mappings[f] \in Valid /\ f \in failed' /\ pool'[f] = Disabled
      BY <1>2, <1>4, <2>4 DEF RegisterFails
    <3> QED
      BY <1>3, <1>4, <3>1 DEF Settled, SettledAs
  <2> QED
    BY <2>1, <2>2, <2>3, <2>4
<1>6. ASSUME NEW g \in seen
      PROVE  Settled(g)'
  <2>1. g \in Functions /\ g # f /\ Settled(g)
    BY <1>2, <1>3 DEF SettledSoFar
  <2>2. pool'[g] = pool[g] /\ (g \in failed' <=> g \in failed)
    BY <1>2, <2>1 DEF InvalidTags, AlreadyServing, Registers, RegisterFails
  <2> QED
    BY <1>3, <2>1, <2>2, StaysSettled
<1> QED
  BY <1>3, <1>5, <1>6 DEF SettledSoFar, SuccessIsCurrent

\* removeMissing settles the functions that were not listed.
LEMMA RemoveSettles ==
    ASSUME IInv, SettledSoFar, RemoveMissing
    PROVE  SettledSoFar'
<1> USE DEF IInv
<1>1. /\ pool \in [Functions -> Valid \cup {Disabled}] /\ seen \subseteq Functions
  BY DEF TypeOK
<1>2. /\ pc = "apply" /\ pc' = "sleep" /\ had' = had /\ failed' = failed \cap seen
      /\ DOMAIN mappings = {} /\ pages = {}
  BY DEF RemoveMissing, CycleInOrder, aws
<1>3. ASSUME NEW f \in Functions
      PROVE  Settled(f)'
  <2>1. pool'[f] = IF active[f] # None /\ f \notin seen THEN Disabled ELSE pool[f]
    BY DEF RemoveMissing
  <2>2. CASE f \in seen
    <3>1. Settled(f) /\ pool'[f] = pool[f] /\ (f \in failed' <=> f \in failed)
      BY <1>2, <2>1, <2>2 DEF SettledSoFar
    <3> QED
      BY <1>2, <3>1, StaysSettled
  <2>3. CASE f \notin seen
    <3>1. Disabled \in had[f] /\ f \notin failed'
      BY <1>2, <2>3 DEF Explained
    <3>2. pool'[f] = Disabled
      <4>1. CASE active[f] = None
        BY <1>1, <2>1, <4>1, RegistrationOfValid DEF BooksMatchRegistrar
      <4>2. CASE active[f] # None
        BY <2>1, <2>3, <4>2
      <4> QED
        BY <4>1, <4>2
    <3> QED
      BY <1>2, <3>1, <3>2 DEF Settled, SettledAs
  <2> QED
    BY <2>2, <2>3
<1> QED
  BY <1>2, <1>3 DEF SettledSoFar, SuccessIsCurrent

\* A cycle that reports success has brought every function up to date, for any
\* number of pages and whatever is retagged or refused meanwhile (cycle, apply,
\* removeMissing).
THEOREM SuccessfulCyclesSettle == Spec => []SuccessIsCurrent
<1>1. Init => SettledSoFar
  BY DEF Init, SettledSoFar, SuccessIsCurrent
<1>2. IInv /\ SettledSoFar /\ [Next]_vars => SettledSoFar'
  <2> SUFFICES ASSUME IInv, SettledSoFar, [Next]_vars PROVE SettledSoFar'
    OBVIOUS
  <2>1. seen \subseteq Functions
    BY DEF IInv, TypeOK
  <2>2. ASSUME NEW f \in Functions, NEW t \in Tags, Retag(f, t)
        PROVE  SettledSoFar'
    <3>1. /\ UNCHANGED <<pool, failed, healthy, pc, seen>>
          /\ \A g \in Functions : had[g] \subseteq had'[g]
      BY <2>2 DEF Retag, books, locals, IInv, TypeOK
    <3>2. \A g \in Functions : Settled(g) => Settled(g)'
      BY <3>1, StaysSettled
    <3> QED
      BY <2>1, <3>1, <3>2 DEF SettledSoFar, SuccessIsCurrent
  <2>3. CASE Wake \/ Cancelled \/ AccountKnown
    BY <2>3 DEF Wake, Cancelled, AccountKnown, SettledSoFar, SuccessIsCurrent
  <2>4. CASE CycleFails
    <3>1. CASE pc' = "sleep" /\ healthy' = FALSE
      BY <3>1 DEF SettledSoFar, SuccessIsCurrent
    <3>2. CASE pc' = "returned"
      BY <3>2 DEF SettledSoFar, SuccessIsCurrent
    <3> QED
      BY <2>4, <3>1, <3>2 DEF CycleFails
  <2>5. ASSUME NEW page \in SUBSET pages, GetResources(page)
        PROVE  SettledSoFar'
    <3>1. seen' = {} /\ pc' \in {"apply", "list"}
      BY <2>5 DEF GetResources, IInv, CycleInOrder
    <3> QED
      BY <3>1 DEF SettledSoFar, SuccessIsCurrent
  <2>6. CASE UNCHANGED vars
    BY <2>6 DEF vars, aws, books, locals, SettledSoFar, SuccessIsCurrent, Settled, SettledAs
  <2> QED
    BY <2>2, <2>3, <2>4, <2>5, <2>6, ApplySettles, RemoveSettles
       DEF Next, WatcherStep, AccountFails, GetResourcesFails
<1>3. SettledSoFar => SuccessIsCurrent
  BY DEF SettledSoFar
<1> QED
  BY <1>1, <1>2, <1>3, InductiveInvariant, PTL DEF Spec
=============================================================================
