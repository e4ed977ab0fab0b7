----------------------------- MODULE Environment -----------------------------
(***************************************************************************)
(* pkg/env/env.go, NewGitHubConfig of pkg/github/config.go and the checks  *)
(* that main.go makes before it uses the configuration.                    *)
(*                                                                         *)
(* An environment is a record with a field for each variable that decides  *)
(* anything; a value stands for all texts that are treated alike.  The     *)
(* host of an URL is the sequence of the pieces it is looked at in, so     *)
(* that github.company.com is <<"github.com", "pany.com">>, and its path   *)
(* the sequence of its parts.  The variables that are passed on unread     *)
(* (namespace, user, password, log level) are left out.                    *)
(***************************************************************************)
EXTENDS Integers, Sequences

Unset == ""

-----------------------------------------------------------------------------
(* Values.                                                                 *)

\* url.Parse fails on a text that is not well-formed.
URL(scheme, host, path) ==
    [scheme |-> scheme, host |-> host, path |-> path, wellFormed |-> TRUE]

Malformed(url) == [url EXCEPT !.wellFormed = FALSE]

UnsetURL == URL(Unset, <<>>, <<>>)

BaseGitHubAPIPath == URL("https", <<"api.", "github.com">>, <<>>)

\* "soon" stands for a text that ParseDuration refuses.
Duration(text, seconds) == [text |-> text, seconds |-> seconds]

-----------------------------------------------------------------------------
(* Reading the variables.                                                  *)

getBoolEnv(value) == value \in {"true", "TRUE"}

\* Mutation: the error of ParseDuration is passed over.
UnparsableIsZero(value, fallback) ==
    IF value.text = Unset THEN fallback ELSE value.seconds

\* A text that is not a duration is as good as none.
getDurationEnv(value, fallback) ==
    IF value.text \in {Unset, "soon"} THEN fallback ELSE value.seconds

\* The text of the URL contains "https://github.com".
MentionsGitHubCom(url) ==
    url.scheme = "https" /\ url.host # <<>> /\ Head(url.host) = "github.com"

\* The API of an enterprise server.
EnterpriseAPI(url) == URL(url.scheme, url.host, <<"api", "v3">>)

GitHubAPIUrl(env) ==
    IF env.GITHUB_API_URL # UnsetURL THEN env.GITHUB_API_URL
    ELSE IF MentionsGitHubCom(env.GITHUB_URL) THEN BaseGitHubAPIPath
    ELSE EnterpriseAPI(env.GITHUB_URL)

\* The key itself goes before the file; "missing" is a file that cannot be read.
GitHubAppPrivateKey(env) ==
    IF env.GITHUB_APP_PRIVATE_KEY # Unset THEN env.GITHUB_APP_PRIVATE_KEY
    ELSE env.GITHUB_APP_PRIVATE_KEY_PATH

EnvData(env) ==
    [GitHubAPIUrl |-> GitHubAPIUrl(env),
     GitHubAppPrivateKey |-> GitHubAppPrivateKey(env),
     Runners |-> env.RUNNERS.list,
     EnableMetrics |-> getBoolEnv(env.ENABLE_METRICS),
     MetricsPollInterval |-> getDurationEnv(env.METRICS_POLL_INTERVAL, 30),
     VMTrackerInterval |-> getDurationEnv(env.VM_TRACKER_INTERVAL, 300),
     RunnerDeregistrationPollInterval |->
        getDurationEnv(env.RUNNER_DEREGISTRATION_POLL_INTERVAL, 2)]

-----------------------------------------------------------------------------
(* Refusing them.                                                          *)

isNumber(value) == value = "number"

\* ^https?://.+
isHTTP(url) == url.scheme \in {"http", "https"} /\ url.host \o url.path # <<>>

\* The latest release of the runner is asked for only when no version is given:
\* a major version above 2 is refused.
LatestVersionRefused(env, release) ==
    env.GITHUB_RUNNER_VERSION = Unset /\ release \in {"unreachable", "v3"}

NodeIPMappingRefused(env) ==
    /\ getBoolEnv(env.ORKA_ENABLE_NODE_IP_MAPPING)
    /\ env.ORKA_NODE_IP_MAPPING # "nodes"

\* ParseEnv panics with the list of everything it refuses.
Refused(env, release) ==
    \/ env.GITHUB_API_URL = UnsetURL /\ ~MentionsGitHubCom(env.GITHUB_URL)
          /\ ~env.GITHUB_URL.wellFormed
    \/ ~isHTTP(env.GITHUB_URL)
    \/ ~isNumber(env.GITHUB_APP_ID)
    \/ ~isNumber(env.GITHUB_APP_INSTALLATION_ID)
    \/ GitHubAppPrivateKey(env) \in {Unset, "missing"}
    \/ NodeIPMappingRefused(env)
    \/ LatestVersionRefused(env, release)
    \/ env.RUNNERS.text # "array"
    \/ ~isHTTP(env.ORKA_URL)
    \/ env.ORKA_TOKEN = Unset
    \/ env.ORKA_VM_CONFIG = Unset
    \/ env.ORKA_VM_METADATA \notin {Unset, "pairs"}   \* of \w+ only

\* NewGitHubConfig: the URL of an organization or of a repository.
NewGitHubConfigFails(url) == ~url.wellFormed \/ Len(url.path) \notin {1, 2}

\* The first runner is used whether there is one or not.
RunnerNameFails(data) == data.Runners = <<>> \/ Head(data.Runners) # "name"

\* createJWTForGitHubApp cannot parse the key.
SigningFails(data) == data.GitHubAppPrivateKey = "garbage"

-----------------------------------------------------------------------------
(* What the README asks for, part by part: every variable that it does not *)
(* call optional is there, and each has the form that the README gives.    *)

AppIsDocumented(env) ==
    /\ isNumber(env.GITHUB_APP_ID) /\ isNumber(env.GITHUB_APP_INSTALLATION_ID)
    /\ \/ env.GITHUB_APP_PRIVATE_KEY = "key"
       \/ /\ env.GITHUB_APP_PRIVATE_KEY = Unset
          /\ env.GITHUB_APP_PRIVATE_KEY_PATH = "key"

\* "The URL of the GitHub repository or organization"; "Configure the GITHUB_URL
\* to point to your enterprise instance (e.g., https://github.enterprise.com)".
URLIsDocumented(url) ==
    /\ url.wellFormed /\ isHTTP(url) /\ url.host # <<>>
    /\ \/ Len(url.path) \in {1, 2}
       \/ url.path = <<>> /\ url.host # <<"github.com">>

\* An enterprise server has an API of its own and needs the token for the
\* runner, which comes from github.com.
APIIsDocumented(env) ==
    \/ /\ env.GITHUB_URL.host = <<"github.com">>
       /\ env.GITHUB_API_URL \in {UnsetURL, BaseGitHubAPIPath}
    \/ /\ env.GITHUB_URL.host # <<"github.com">>
       /\ env.GITHUB_API_URL = EnterpriseAPI(env.GITHUB_URL)
       /\ env.GITHUB_TOKEN # Unset

\* "Must be formatted as key=value comma separated pairs": the README does not
\* say of which characters, and "other pairs" are pairs such as team=ci-mac.
OrkaIsDocumented(env) ==
    /\ isHTTP(env.ORKA_URL)
    /\ env.ORKA_TOKEN # Unset /\ env.ORKA_VM_CONFIG # Unset
    /\ env.ORKA_VM_METADATA \in {Unset, "pairs", "other pairs"}
    /\ getBoolEnv(env.ORKA_ENABLE_NODE_IP_MAPPING) =>
          env.ORKA_NODE_IP_MAPPING = "nodes"

\* "Currently only one runner is supported."
RunnersAreDocumented(env) ==
    env.RUNNERS.text = "array" /\ env.RUNNERS.list = <<"name">>

Documented(env) ==
    /\ AppIsDocumented(env)
    /\ URLIsDocumented(env.GITHUB_URL) /\ APIIsDocumented(env)
    /\ OrkaIsDocumented(env)
    /\ RunnersAreDocumented(env)

\* The same, without the host of the URL, the API and the token of an enterprise
\* server, and the runners after the first one, and with pairs of \w+ only.
DocumentedInPart(env) ==
    /\ AppIsDocumented(env)
    /\ env.GITHUB_URL.wellFormed /\ isHTTP(env.GITHUB_URL)
    /\ Len(env.GITHUB_URL.path) \in {1, 2}
    /\ OrkaIsDocumented(env) /\ env.ORKA_VM_METADATA # "other pairs"
    /\ env.RUNNERS.text = "array" /\ env.RUNNERS.list # <<>>
    /\ Head(env.RUNNERS.list) = "name"

Intervals(env) ==
    {env.METRICS_POLL_INTERVAL, env.VM_TRACKER_INTERVAL,
     env.RUNNER_DEREGISTRATION_POLL_INTERVAL}

IntervalsArePositive(env) ==
    \A interval \in Intervals(env) : interval.text = "duration" => interval.seconds > 0

=============================================================================
