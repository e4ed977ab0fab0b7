------------------------------ MODULE MCStartup ------------------------------
(* The instance of Startup that TLC checks: the environment of             *)
(* examples/.env, the one of an enterprise server, and those that differ   *)
(* from them in one variable, or two.                                      *)
EXTENDS Startup

GitHubURL(host, path) == URL("https", host, path)

Example ==
    [GITHUB_URL |-> GitHubURL(<<"github.com">>, <<"org">>),
     GITHUB_API_URL |-> UnsetURL,
     GITHUB_TOKEN |-> Unset,
     GITHUB_APP_ID |-> "number",
     GITHUB_APP_INSTALLATION_ID |-> "number",
     GITHUB_APP_PRIVATE_KEY |-> "key",
     GITHUB_APP_PRIVATE_KEY_PATH |-> Unset,
     GITHUB_RUNNER_VERSION |-> "2.317.0",
     RUNNERS |-> [text |-> "array", list |-> <<"name">>],
     ORKA_URL |-> URL("http", <<"orka">>, <<>>),
     ORKA_TOKEN |-> "token",
     ORKA_VM_CONFIG |-> "config",
     ORKA_VM_METADATA |-> "pairs",
     ORKA_ENABLE_NODE_IP_MAPPING |-> "false",
     ORKA_NODE_IP_MAPPING |-> Unset,
     ENABLE_METRICS |-> "true",
     METRICS_POLL_INTERVAL |-> Duration("duration", 30),
     VM_TRACKER_INTERVAL |-> Duration("duration", 300),
     RUNNER_DEREGISTRATION_POLL_INTERVAL |-> Duration(Unset, 0)]

\* "When using GHES", as the README has it.
Enterprise ==
    [Example EXCEPT !.GITHUB_URL = GitHubURL(<<"ghes.acme">>, <<"org">>),
                    !.GITHUB_API_URL = GitHubURL(<<"ghes.acme">>, <<"api", "v3">>),
                    !.GITHUB_TOKEN = "token"]

Hosts == {<<>>, <<"github.com">>, <<"github.com", "pany.com">>, <<"ghes.acme">>}

URLs ==
    {UnsetURL, Malformed(Example.GITHUB_URL), Malformed(GitHubURL(<<"ghes.acme">>, <<"org">>)),
     URL("ftp", <<"ghes.acme">>, <<"org">>), URL("http", <<"github.com">>, <<"org">>)}
      \union {GitHubURL(host, path) : host \in Hosts,
                 path \in {<<>>, <<"org">>, <<"org", "repo">>, <<"org", "repo", "tree">>}}

Durations ==
    {Duration(Unset, 0), Duration("soon", 0), Duration("duration", 0),
     Duration("duration", 0 - 5), Duration("duration", 10)}

Lists ==
    {<<>>, <<"Na me">>, <<"name", "name">>, <<"name", "Na me">>, <<"Na me", "name">>}

\* The other values of each variable.
Values ==
    [GITHUB_URL |-> URLs,
     GITHUB_API_URL |-> {UnsetURL, BaseGitHubAPIPath},
     GITHUB_TOKEN |-> {Unset, "token"},
     GITHUB_APP_ID |-> {Unset, "text"},
     GITHUB_APP_INSTALLATION_ID |-> {Unset, "text"},
     GITHUB_APP_PRIVATE_KEY |-> {Unset, "garbage"},
     GITHUB_APP_PRIVATE_KEY_PATH |-> {"key", "garbage", "missing"},
     GITHUB_RUNNER_VERSION |-> {Unset},
     RUNNERS |-> {[text |-> "no array", list |-> <<>>]} \union
                    {[text |-> "array", list |-> list] : list \in Lists},
     ORKA_URL |-> {UnsetURL, URL("ftp", <<"orka">>, <<>>)},
     ORKA_TOKEN |-> {Unset},
     ORKA_VM_CONFIG |-> {Unset},
     ORKA_VM_METADATA |-> {Unset, "other pairs", "garbage"},
     ORKA_ENABLE_NODE_IP_MAPPING |-> {"true", "TRUE", "yes"},
     ORKA_NODE_IP_MAPPING |-> {"nodes", "no nodes", "no object"},
     ENABLE_METRICS |-> {Unset, "false"},
     METRICS_POLL_INTERVAL |-> Durations,
     VM_TRACKER_INTERVAL |-> Durations,
     RUNNER_DEREGISTRATION_POLL_INTERVAL |-> Durations]

With(env, v, w) ==
    {[env EXCEPT ![v] = x, ![w] = y] : x \in Values[v], y \in Values[w]}

\* Variables that decide something together.
Related ==
    {<<"GITHUB_URL", "GITHUB_API_URL">>,
     <<"GITHUB_APP_PRIVATE_KEY", "GITHUB_APP_PRIVATE_KEY_PATH">>,
     <<"ORKA_ENABLE_NODE_IP_MAPPING", "ORKA_NODE_IP_MAPPING">>,
     <<"ENABLE_METRICS", "METRICS_POLL_INTERVAL">>}

Variations ==
    {Example} \union UNION {With(Example, v, v) : v \in DOMAIN Values}
              \union UNION {With(Example, pair[1], pair[2]) : pair \in Related}
              \union {Enterprise} \union With(Enterprise, "GITHUB_URL", "GITHUB_TOKEN")
              \union With(Enterprise, "GITHUB_API_URL", "GITHUB_TOKEN")

\* Time passes and statistics change in the example only; a run in any other
\* environment is followed to the message loop.
OneClock ==
    environment # Example =>
        UNCHANGED <<now, statistics>> /\ ~(\E g \in Goroutine : ExpiryUnreadable(g))

MCSpec == Init /\ [][Next /\ OneClock]_vars /\ Fairness

=============================================================================
