------------------------------- MODULE Readers -------------------------------
(***************************************************************************)
(* The ECS and Lambda readers, from the configured accounts to the watchers  *)
(* that run: Plan (src/ecs/account.go, src/lambda/account.go), and            *)
(* buildECSWatchers, buildLambdaWatchers and newIdentityClaims of             *)
(* src/main.go.  The two modes go through the same steps, each with claims of *)
(* its own.                                                                 *)
(*                                                                         *)
(* An account is a record: the name, cluster and credentials configured for   *)
(* it, and the AWS account they belong to, which STS tells.                  *)
(***************************************************************************)
EXTENDS Naturals, Sequences, SequencesExt

CONSTANTS
    AwsModes,  \* the modes that have readers: "ecs", "lambda"
    Names,     \* of accounts and clusters, and account IDs; "" is a blank
    Configs    \* the configurations the process may be given

ASSUME AwsModesAssumption == AwsModes \subseteq {"ecs", "lambda"}

ASSUME NamesAssumption == "" \in Names

AccountSpec == [name : Names, cluster : Names, account : Names,
                keys : SUBSET {"accessKeyID", "secretAccessKey"}]

ASSUME ConfigsAssumption ==
    \A c \in Configs : \A m \in AwsModes : c.accounts[m] \in Seq(AccountSpec)

VARIABLES
    config,   \* config.accounts[m]: the accounts listed for mode m;
              \* config.cluster: TSSERVE_ECS_CLUSTER
    readers,  \* readers[m]: the readers built so far, in the order of the plan
    claims    \* claims[m]: the identities claimed

readerVars == <<config, readers, claims>>

\* status: no watcher was built, one is ready, runs, or has returned.
\* account, error: what the status page's registry shows.
\* lazy: the watcher has to resolve its account itself.
\* warned: a duplicate was logged.
Reader == [status : {"disabled", "ready", "running", "returned"},
           account : Names, error : BOOLEAN, lazy : BOOLEAN,
           warned : BOOLEAN]

ReadersInit ==
    /\ config \in Configs
    /\ readers = [m \in AwsModes |-> <<>>]
    /\ claims = [m \in AwsModes |-> {}]

-----------------------------------------------------------------------------

firstNonEmpty(a, b) == IF a # "" THEN a ELSE b

\* What Plan rejects: half a credential, a reader of no cluster, a name twice.
PlanValid(m) ==
    LET as == config.accounts[m] IN
    IF as = <<>> THEN m = "ecs" => config.cluster # ""
    ELSE /\ \A i \in DOMAIN as :
              /\ as[i].keys \in {{}, {"accessKeyID", "secretAccessKey"}}
              /\ m = "ecs" => firstNonEmpty(as[i].cluster, config.cluster) # ""
         /\ \A i, j \in DOMAIN as :
              as[i].name = as[j].name /\ as[i].name # "" => i = j

\* The names in the plan, which has one reader even if no account is listed.
Plan(m) ==
    IF config.accounts[m] = <<>> THEN <<"">>
    ELSE [i \in DOMAIN config.accounts[m] |-> config.accounts[m][i].name]

\* Account IDs are resolved only if accounts are listed, and for the unnamed.
Derived(m, i) == config.accounts[m] # <<>> /\ Plan(m)[i] = ""

Built(m) == Len(readers[m]) = Len(Plan(m))

NewReader == [status |-> "ready", account |-> "", error |-> FALSE,
              lazy |-> FALSE, warned |-> FALSE]

Add(m, r) == readers' = [readers EXCEPT ![m] = Append(@, r)]

\* Mutant of Claim: the identity is looked up and not recorded.
ClaimForgets(m, id) == UNCHANGED claims

\* The identity is recorded; the caller has looked at claims before.
Claim(m, id) == claims' = [claims EXCEPT ![m] = @ \cup {id}]

\* onResolved.
Resolved(m, i, r) ==
    [r EXCEPT !.account = config.accounts[m][i].account,
              !.warned = config.accounts[m][i].account \in claims[m],
              !.lazy = FALSE]

\* The AWS configuration does not load: the reader is shown, and has no watcher.
BuildDisabled(m) ==
    /\ ~Built(m)
    /\ Add(m, [NewReader EXCEPT !.status = "disabled", !.error = TRUE])
    /\ UNCHANGED <<config, claims>>

\* A configured name is claimed and the answer ignored.  The reader of a plan
\* without accounts claims nothing.
BuildNamed(m) ==
    LET i == Len(readers[m]) + 1 IN
    /\ ~Built(m) /\ ~Derived(m, i)
    /\ Add(m, NewReader)
    /\ IF Plan(m)[i] = "" THEN UNCHANGED claims ELSE Claim(m, Plan(m)[i])
    /\ UNCHANGED config

\* STS answers at once.
BuildResolved(m) ==
    LET i == Len(readers[m]) + 1 IN
    /\ ~Built(m) /\ Derived(m, i)
    /\ Add(m, Resolved(m, i, NewReader))
    /\ Claim(m, config.accounts[m][i].account)
    /\ UNCHANGED config

\* STS does not: the watcher is built with a resolver.
BuildLazy(m) ==
    LET i == Len(readers[m]) + 1 IN
    /\ ~Built(m) /\ Derived(m, i)
    /\ Add(m, [NewReader EXCEPT !.lazy = TRUE, !.error = TRUE])
    /\ UNCHANGED <<config, claims>>

BuildReader(m) ==
    BuildDisabled(m) \/ BuildNamed(m) \/ BuildResolved(m) \/ BuildLazy(m)

\* The indices of the readers that have a watcher.
Watchers(m) == {i \in DOMAIN readers[m] : readers[m][i].status # "disabled"}

\* A cycle of a running watcher begins by resolving its account.
ResolveLazily(m, i) ==
    /\ readers[m][i].status = "running" /\ readers[m][i].lazy
    /\ readers' = [readers EXCEPT ![m][i] = Resolved(m, i, @)]
    /\ Claim(m, config.accounts[m][i].account)
    /\ UNCHANGED config

-----------------------------------------------------------------------------

\* No reader is out of order in silence: one that has no watcher or does not
\* know its account shows an error, and of two unnamed readers of one account
\* all but the first to find out were warned about, whether they were resolved
\* at start-up or later, each by its own goroutine.
NoSilentReader ==
    \A m \in AwsModes :
        /\ \A i \in DOMAIN readers[m] :
              LET r == readers[m][i] IN
              r.status = "disabled" \/ r.lazy => r.error
        /\ \A i, j \in DOMAIN readers[m] :
              LET r == readers[m][i]
                  s == readers[m][j]
              IN i # j /\ r.account # "" /\ r.account = s.account =>
                     r.warned \/ s.warned
=============================================================================
