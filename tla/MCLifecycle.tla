----------------------------- MODULE MCLifecycle -----------------------------
(***************************************************************************)
(* A small instance of Lifecycle for TLC.                                   *)
(***************************************************************************)
EXTENDS Lifecycle

Account(name, clus, keys, account) ==
    [name |-> name, cluster |-> clus, keys |-> keys, account |-> account]

Key == {"TS_AUTHKEY"}
OAuth == {"TS_CLIENT_ID", "TS_CLIENT_SECRET"}
Federated == {"TS_CLIENT_ID", "TS_AUDIENCE"}

Config(vars_, list, ecs, lambda, clus) ==
    [env |-> vars_, raw |-> list, cluster |-> clus, mirror |-> clus # "",
     accounts |-> [m \in AwsModes |-> IF m = "ecs" THEN ecs ELSE lambda]]

\* Two unnamed accounts that turn out to be one.
Twins == <<Account("", "c", {}, "1"),
           Account("", "c", {"accessKeyID", "secretAccessKey"}, "1")>>

\* A named account, and an unnamed one that turns out to have that name.
Namesakes == <<Account("1", "c", {}, "2"), Account("", "c", {}, "1")>>

Half == <<Account("n", "c", {"accessKeyID"}, "1")>>
Same == <<Account("n", "c", {}, "1"), Account("n", "c", {}, "2")>>
Bare == <<Account("n", "", {}, "1")>>

\* Two modes and one, with the mirror and without; then lists of modes, of
\* accounts and of variables that are rejected.
Few ==
    {Config(Key, <<"ECS", "Docker">>, <<>>, <<>>, "c"),
     Config(Key, <<"ecs">>, Twins, <<>>, ""),
     Config(Federated \cup {"TSSERVE_TAGS"}, <<"docker">>, <<>>, <<>>, ""),
     Config(Key, <<"lambda">>, <<>>, Namesakes, ""),
     Config(Key, <<"docker", "lambda">>, <<>>, Half, ""),
     Config(Key, <<"docker", "ecs">>, Same, <<>>, "c"),
     Config(Key, <<"ecs">>, Bare, <<>>, ""),
     Config(Key, <<"ecs">>, <<>>, <<>>, ""),
     Config(Key, <<"docker", "Docker">>, <<>>, <<>>, "c"),
     Config(Key, <<"ecs", "">>, <<>>, <<>>, "c"),
     Config(Key, <<"swarm">>, <<>>, <<>>, "c"),
     Config(OAuth, <<"docker">>, <<>>, <<>>, ""),
     Config(Federated, <<"docker">>, <<>>, <<>>, ""),
     Config(Federated \cup {"TS_ID_TOKEN", "TSSERVE_TAGS"}, <<"docker">>,
            <<>>, <<>>, ""),
     Config({}, <<"docker">>, <<>>, <<>>, "")}
=============================================================================
