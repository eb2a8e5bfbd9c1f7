---------------------------- MODULE LambdaWatcher ----------------------------
(***************************************************************************)
(* lambda.Watcher (src/lambda/watcher.go): one goroutine that polls the      *)
(* Tagging API for tagged functions and tells the registrar what to serve.   *)
(*                                                                         *)
(* A live function can be tagged anew at any time, between the pages of a    *)
(* listing too, with a valid registration, with tags that do not parse, or   *)
(* without tsserve.enable.  The registrar is proxy.Manager by its contract.  *)
(***************************************************************************)
EXTENDS Naturals, Sequences, FiniteSets

CONSTANTS
    Functions,
    Services,
    Caps,
    Qualifiers,
    Valid,      \* the valid tags a function may have
    Disabled,   \* the tags of a function without tsserve.enable=true
    Invalid,    \* tags without a valid service or qualifier
    None,       \* no registration
    MaxRetags   \* bound: how often tags change

ASSUME BoundsAssumption == MaxRetags \in Nat

\* The tags of a function as parseFunction reads them.  Caps are names in the
\* order, and as often, as the tag lists them.
ASSUME ValidAssumption ==
    Valid \subseteq [service : Services, caps : Seq(Caps), qualifier : Qualifiers]

Tags == Valid \cup {Disabled, Invalid}

VARIABLES
    \* AWS.
    tags,        \* tags[f]: the tags function f has
    retags,      \* how often tags have changed
    \* The watcher between cycles.
    resolved,    \* the reader's account is known
    active,      \* Watcher.active: the registration of each key, or None
    failed,      \* Watcher.failed: the keys with a recorded failure
    healthy,     \* the last cycle succeeded
    \* The cycle in progress.
    pc,
    pages,       \* the functions the pages still to come are about
    mappings,    \* the tags listed and not yet applied
    seen,        \* the keys observed in this cycle
    had,         \* had[f]: every tags f has had since the cycle began (history)
    \* The registrar.
    pool         \* the tags each key is served as, or Disabled

aws == <<tags, retags, had>>
books == <<active, failed, pool>>
locals == <<pages, mappings, seen>>
vars == <<aws, resolved, books, healthy, pc, locals>>

Steps == {"account", "list", "apply", "sleep", "returned"}

\* registrationOf: caps sorted and joined, so order is lost and repetition kept.
registrationOf(t) ==
    [service |-> t.service, qualifier |-> t.qualifier,
     caps |-> [c \in Caps |-> Cardinality({i \in DOMAIN t.caps : t.caps[i] = c})]]

ASSUME DistinctAssumption ==
    /\ Disabled \notin Valid \cup {Invalid}
    /\ Invalid \notin Valid
    /\ \A t \in Valid : registrationOf(t) # None

Registrations == {registrationOf(t) : t \in Valid} \cup {None}

TypeOK ==
    /\ tags \in [Functions -> Tags]
    /\ retags \in 0 .. MaxRetags
    /\ resolved \in BOOLEAN /\ healthy \in BOOLEAN
    /\ healthy => resolved
    /\ active \in [Functions -> Registrations]
    /\ pool \in [Functions -> Valid \cup {Disabled}]
    /\ failed \subseteq Functions
    /\ pc \in Steps
    /\ pages \subseteq Functions
    /\ DOMAIN mappings \subseteq Functions
    /\ \A f \in DOMAIN mappings : mappings[f] \in Tags \ {Disabled}
    /\ seen \subseteq Functions
    /\ seen \cap DOMAIN mappings = {}
    /\ had \in [Functions -> SUBSET Tags]

Init ==
    /\ tags \in [Functions -> Tags]
    /\ retags = 0
    /\ resolved \in BOOLEAN
    /\ active = [f \in Functions |-> None]
    /\ failed = {}
    /\ healthy = FALSE
    /\ pc = "account"
    /\ pages = {}
    /\ mappings = <<>>
    /\ seen = {}
    /\ had = [f \in Functions |-> {tags[f]}]
    /\ pool = [f \in Functions |-> Disabled]

-----------------------------------------------------------------------------

Retag(f, t) ==
    /\ retags < MaxRetags
    /\ t # tags[f]
    /\ tags' = [tags EXCEPT ![f] = t]
    /\ retags' = retags + 1
    /\ had' = [had EXCEPT ![f] = @ \cup {t}]
    /\ UNCHANGED <<resolved, books, healthy, pc, locals>>

-----------------------------------------------------------------------------
(* Run, reportCycle and the calls of a cycle.                               *)

Wake ==
    /\ pc = "sleep"
    /\ pc' = "account"
    /\ had' = [f \in Functions |-> {tags[f]}]
    /\ UNCHANGED <<tags, retags, resolved, books, healthy, locals>>

Cancelled ==
    /\ pc = "sleep"
    /\ pc' = "returned"
    /\ UNCHANGED <<aws, resolved, books, healthy, locals>>

\* A call fails, and the cycle with it; if by cancellation, Run returns.
CycleFails ==
    /\ \/ pc' = "sleep" /\ healthy' = FALSE
       \/ pc' = "returned" /\ UNCHANGED healthy
    /\ UNCHANGED <<aws, resolved, books, locals>>

AccountKnown ==
    /\ pc = "account"
    /\ resolved' = TRUE
    /\ pages' = Functions
    /\ mappings' = <<>>
    /\ seen' = {}
    /\ pc' = "list"
    /\ UNCHANGED <<aws, books, healthy>>

AccountFails ==
    /\ pc = "account"
    /\ ~resolved
    /\ CycleFails

\* listTagged, a page at a time: the functions tagged tsserve.enable=true now.
GetResources(page) ==
    LET listed == {f \in page : tags[f] # Disabled} IN
    /\ pc = "list"
    /\ page # {}
    /\ mappings' = [f \in DOMAIN mappings \cup listed |->
                       IF f \in listed THEN tags[f] ELSE mappings[f]]
    /\ pages' = pages \ page
    /\ pc' = IF pages' = {} THEN "apply" ELSE "list"
    /\ UNCHANGED <<aws, resolved, books, healthy, seen>>

\* Mutant of GetResourcesFails: the pages read so far are applied.
GetResourcesFailsPartly ==
    /\ pc = "list"
    /\ pc' = "apply"
    /\ UNCHANGED <<aws, resolved, books, healthy, locals>>

GetResourcesFails ==
    /\ pc = "list"
    /\ CycleFails

-----------------------------------------------------------------------------
(* cycle's loop over the mappings, and apply.                                *)

Take(f) ==
    /\ pc = "apply"
    /\ f \in DOMAIN mappings
    /\ mappings' = [g \in DOMAIN mappings \ {f} |-> mappings[g]]
    /\ seen' = seen \cup {f}
    /\ UNCHANGED <<aws, resolved, healthy, pc, pages>>

\* Invalid tags are recorded as a failure; what was served before stays.
InvalidTags(f) ==
    /\ Take(f)
    /\ mappings[f] = Invalid
    /\ failed' = failed \cup {f}
    /\ UNCHANGED <<active, pool>>

Wants(f) == IF mappings[f] = Invalid THEN None ELSE registrationOf(mappings[f])

AlreadyServing(f) ==
    /\ Take(f)
    /\ mappings[f] # Invalid
    /\ active[f] = Wants(f)
    /\ failed' = failed \ {f}
    /\ UNCHANGED <<active, pool>>

\* New, or tagged anew: an old registration was dropped first.
Registers(f) ==
    /\ Take(f)
    /\ mappings[f] # Invalid
    /\ active[f] # Wants(f)
    /\ active' = [active EXCEPT ![f] = Wants(f)]
    /\ pool' = [pool EXCEPT ![f] = mappings[f]]
    /\ failed' = failed \ {f}

\* Mutant of RegisterFails: the key is recorded active whatever Register said.
RegisterFailsRecorded(f) ==
    /\ Take(f)
    /\ mappings[f] # Invalid
    /\ active[f] # Wants(f)
    /\ active' = [active EXCEPT ![f] = Wants(f)]
    /\ pool' = [pool EXCEPT ![f] = Disabled]
    /\ failed' = failed \cup {f}

RegisterFails(f) ==
    /\ Take(f)
    /\ mappings[f] # Invalid
    /\ active[f] # Wants(f)
    /\ active' = [active EXCEPT ![f] = None]
    /\ pool' = [pool EXCEPT ![f] = Disabled]
    /\ failed' = failed \cup {f}

\* Mutant of RemoveMissing: only the records go; nothing is deregistered.
RemoveMissingFailures ==
    /\ pc = "apply"
    /\ DOMAIN mappings = {}
    /\ failed' = failed \cap seen
    /\ healthy' = TRUE
    /\ pc' = "sleep"
    /\ UNCHANGED <<aws, resolved, locals, active, pool>>

\* removeMissing, and the cycle has succeeded.
RemoveMissing ==
    /\ pc = "apply"
    /\ DOMAIN mappings = {}
    /\ pool' = [f \in Functions |->
                   IF active[f] # None /\ f \notin seen THEN Disabled ELSE pool[f]]
    /\ active' = [f \in Functions |-> IF f \in seen THEN active[f] ELSE None]
    /\ failed' = failed \cap seen
    /\ healthy' = TRUE
    /\ pc' = "sleep"
    /\ UNCHANGED <<aws, resolved, locals>>

-----------------------------------------------------------------------------

WatcherStep ==
    \/ Wake
    \/ AccountKnown
    \/ AccountFails
    \/ \E page \in SUBSET pages : GetResources(page)
    \/ GetResourcesFails
    \/ \E f \in Functions : \/ InvalidTags(f) \/ AlreadyServing(f)
                            \/ Registers(f) \/ RegisterFails(f)
    \/ RemoveMissing

Next ==
    \/ \E f \in Functions, t \in Tags : Retag(f, t)
    \/ WatcherStep
    \/ Cancelled

Spec == Init /\ [][Next]_vars

\* The goroutine runs, and a call that is made again and again succeeds.
Fairness ==
    /\ WF_vars(WatcherStep)
    /\ SF_vars(AccountKnown)
    /\ SF_vars(GetResources(pages))
    /\ \A f \in Functions : SF_vars(Registers(f))

FairSpec == Spec /\ Fairness

-----------------------------------------------------------------------------

\* What the watcher believes is registered is what the registrar has, for the
\* same service, qualifier and caps.
BooksMatchRegistrar ==
    \A f \in Functions :
        active[f] = IF pool[f] = Disabled THEN None ELSE registrationOf(pool[f])

\* A function is taken out of service, or served as something else, only if
\* during the cycle it was disabled or validly tagged as something else.  No
\* failed call, no page not yet read and no invalid tags take it away.
DroppedOnlyWhenRetagged ==
    [][\A f \in Functions :
          pool[f] # Disabled /\ pool'[f] # pool[f] =>
             \E t \in had[f] : t # Invalid /\ t # pool[f]]_vars

\* Function f is served as its tags say, up to the order of its caps, and is
\* not served if they say so; of invalid tags nothing is asked.
Agrees(f) ==
    /\ tags[f] = Disabled => pool[f] = Disabled
    /\ tags[f] \in Valid => /\ pool[f] # Disabled
                            /\ registrationOf(pool[f]) = registrationOf(tags[f])

\* Once tags no longer change, every function ends up served as they say,
\* whatever it was tagged as before and however often a call failed.
ServedAsTagged ==
    <>[](pc # "returned") /\ <>[][FALSE]_tags => \A f \in Functions : <>[]Agrees(f)
=============================================================================
