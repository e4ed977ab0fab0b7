---------------------------- MODULE ActionsClient ----------------------------
(***************************************************************************)
(* pkg/github/actions/client.go and api.go: the admin token of the client  *)
(* that all goroutines share.  Every request first makes sure, under a     *)
(* mutex, that the token is not about to expire, and is then sent outside  *)
(* the mutex with whatever transport the shared HTTP client has by then.   *)
(*                                                                         *)
(* client.Client.Transport is an interface of two words, a type and a      *)
(* pointer to data of that type, that the refresh writes while others may  *)
(* read it: the two words are written one after the other, in any order.   *)
(* A token stands for the time it expires at.                              *)
(***************************************************************************)
EXTENDS Integers

CONSTANTS
    Goroutine,      \* the callers of the client
    NoGoroutine,
    Margin,         \* 60 seconds before a token expires it is replaced
    Lifetime,       \* how long the tokens of GitHub live
    MaxTime         \* the clock stops here

ASSUME ClientAssumption ==
    /\ NoGoroutine \notin Goroutine
    /\ Margin \in Nat \ {0} /\ MaxTime \in Nat
    /\ Lifetime \subseteq Nat /\ \A life \in Lifetime : life >= Margin

VARIABLES
    now,                    \* the clock
    adminToken,
    adminTokenExpiresAt,
    transport,              \* the two words of client.Client.Transport
    mu,                     \* who holds the mutex
    request,                \* how far the request of each goroutine has come
    freshAt                 \* when its token was last known to be good

clientVars == <<now, adminToken, adminTokenExpiresAt, transport, mu, request,
                freshAt>>

NoToken == 0

\* The zero time.Time.
ZeroTime == 0

\* "retrying" is the round tripper of go-retryablehttp, "plain" ClientTransport.
Kind == {"retrying", "plain"}

Transport(kind, token) == [type |-> kind, data |-> [kind |-> kind, token |-> token]]

Refreshing == {"authenticating", "storing", "replacing"}

ClientTypeOK ==
    /\ now \in Nat
    /\ adminToken \in Nat /\ adminTokenExpiresAt \in Nat
    /\ transport \in [type : Kind, data : [kind : Kind, token : Nat]]
    /\ mu \in Goroutine \union {NoGoroutine}
    /\ request \in [Goroutine -> {"none", "updating", "ready", "sent"}
                                    \union Refreshing]
    /\ freshAt \in [Goroutine -> Nat]

ClientInit ==
    /\ now = 0
    /\ adminToken = NoToken /\ adminTokenExpiresAt = ZeroTime
    /\ transport = Transport("retrying", NoToken)
    /\ mu = NoGoroutine
    /\ request = [g \in Goroutine |-> "none"]
    /\ freshAt = [g \in Goroutine |-> 0]

proceed(g, next) == request' = [request EXCEPT ![g] = next]

Tick ==
    /\ now < MaxTime
    /\ now' = now + 1
    /\ UNCHANGED <<adminToken, adminTokenExpiresAt, transport, mu, request,
                   freshAt>>

\* Mutation: the client starts with the expiry of its first token.
NewClientKnowsExpiry ==
    /\ adminToken = NoToken
    /\ \E life \in Lifetime :
          /\ adminToken' = now + life
          /\ adminTokenExpiresAt' = now + life
          /\ transport' = Transport("retrying", now + life)
    /\ UNCHANGED <<now, mu, request, freshAt>>

\* The first token comes with the client; its expiry is not looked at.
NewActionsClient ==
    /\ adminToken = NoToken
    /\ \E life \in Lifetime :
          /\ adminToken' = now + life
          /\ transport' = Transport("retrying", now + life)
    /\ UNCHANGED <<now, adminTokenExpiresAt, mu, request, freshAt>>

-----------------------------------------------------------------------------
(* updateTokenIfNeeded.                                                    *)

BeginRequest(g) ==
    /\ adminToken # NoToken
    /\ request[g] = "none"
    /\ proceed(g, "updating")
    /\ UNCHANGED <<now, adminToken, adminTokenExpiresAt, transport, mu, freshAt>>

\* Mutation: a token is good until it has expired.
ExpiredAlready ==
    adminTokenExpiresAt = ZeroTime \/ now > adminTokenExpiresAt

AboutToExpire ==
    adminTokenExpiresAt = ZeroTime \/ now + Margin > adminTokenExpiresAt

TokenIsFresh(g) ==
    /\ request[g] = "updating" /\ mu = NoGoroutine
    /\ ~AboutToExpire
    /\ proceed(g, "ready")
    /\ freshAt' = [freshAt EXCEPT ![g] = now]
    /\ UNCHANGED <<now, adminToken, adminTokenExpiresAt, transport, mu>>

\* Mutation: the expiry is read before the mutex is taken.
BeginRefreshUnlocked(g) ==
    /\ request[g] = "updating"
    /\ AboutToExpire
    /\ mu' = g
    /\ proceed(g, "authenticating")
    /\ UNCHANGED <<now, adminToken, adminTokenExpiresAt, transport, freshAt>>

BeginRefresh(g) ==
    /\ request[g] = "updating" /\ mu = NoGoroutine
    /\ AboutToExpire
    /\ mu' = g
    /\ proceed(g, "authenticating")
    /\ UNCHANGED <<now, adminToken, adminTokenExpiresAt, transport, freshAt>>

\* Mutation: the mutex is not released on this path.
RefreshFailsLocked(g) ==
    /\ request[g] = "authenticating"
    /\ proceed(g, "none")
    /\ UNCHANGED <<now, adminToken, adminTokenExpiresAt, transport, mu, freshAt>>

\* One of the three calls of FetchAccessToken and GetAuthorizationInfo fails.
RefreshFails(g) ==
    /\ request[g] = "authenticating"
    /\ mu' = NoGoroutine
    /\ proceed(g, "none")
    /\ UNCHANGED <<now, adminToken, adminTokenExpiresAt, transport, freshAt>>

\* The token is stored; GetTokenExpirationTime reads its expiry.
AdminTokenStored(g) ==
    /\ request[g] = "authenticating"
    /\ \E life \in Lifetime : adminToken' = now + life
    /\ adminTokenExpiresAt' = adminToken'
    /\ proceed(g, "storing")
    /\ freshAt' = [freshAt EXCEPT ![g] = now]
    /\ UNCHANGED <<now, transport, mu>>

\* It cannot: the expiry becomes the zero time, the transport stays.
ExpiryUnreadable(g) ==
    /\ request[g] = "authenticating"
    /\ \E life \in Lifetime : adminToken' = now + life
    /\ adminTokenExpiresAt' = ZeroTime
    /\ mu' = NoGoroutine
    /\ proceed(g, "none")
    /\ UNCHANGED <<now, transport, freshAt>>

\* One word of the interface is written.
WriteFirstWord(g) ==
    /\ request[g] = "storing"
    /\ LET new == Transport("plain", adminToken)
       IN  transport' \in {[transport EXCEPT !.type = new.type],
                           [transport EXCEPT !.data = new.data]}
    /\ proceed(g, "replacing")
    /\ UNCHANGED <<now, adminToken, adminTokenExpiresAt, mu, freshAt>>

WriteSecondWord(g) ==
    /\ request[g] = "replacing"
    /\ transport' = Transport("plain", adminToken)
    /\ mu' = NoGoroutine
    /\ proceed(g, "ready")
    /\ UNCHANGED <<now, adminToken, adminTokenExpiresAt, freshAt>>

-----------------------------------------------------------------------------
(* RequestJSON: client.Do reads the transport, outside the mutex.          *)

Send(g) ==
    /\ request[g] = "ready"
    /\ proceed(g, "sent")
    /\ UNCHANGED <<now, adminToken, adminTokenExpiresAt, transport, mu, freshAt>>

\* An answer or an error.
Answered(g) ==
    /\ request[g] = "sent"
    /\ proceed(g, "none")
    /\ UNCHANGED <<now, adminToken, adminTokenExpiresAt, transport, mu, freshAt>>

\* The mutex is taken.
LockTaken(g) == TokenIsFresh(g) \/ BeginRefresh(g)

TokenStep(g) ==
    \/ LockTaken(g)
    \/ AdminTokenStored(g)
    \/ WriteFirstWord(g)
    \/ WriteSecondWord(g)

\* The request comes back as an error before it was sent.
RequestFails(g) == RefreshFails(g) \/ ExpiryUnreadable(g)

ClientStep(g) ==
    BeginRequest(g) \/ TokenStep(g) \/ RequestFails(g) \/ Send(g) \/ Answered(g)

ClientNext == Tick \/ NewActionsClient \/ \E g \in Goroutine : ClientStep(g)

ClientSpec == ClientInit /\ [][ClientNext]_clientVars

-----------------------------------------------------------------------------
(* What must hold.                                                         *)

\* A request never meets a transport of which one word is old and the other
\* new, and never the retrying one, which may send it twice.  The refresh does
\* not lock its readers out: it is safe because the zero expiry of a new client
\* makes every goroutine refresh before its first request is sent, and from
\* then on both words keep their kind.
TransportIsWhole ==
    \A g \in Goroutine :
        request[g] = "ready" => transport.type = "plain" /\ transport.data.kind = "plain"

\* The margin pays off: a request that is sent less than the margin after the
\* check goes out with a token that is valid, although other goroutines may
\* have replaced the transport since, or may be about to.
TokenOutlivesTheCheck ==
    \A g \in Goroutine :
        request[g] = "ready" /\ now < freshAt[g] + Margin => now < transport.data.token

\* However many goroutines find the token about to expire, one of them replaces
\* it and the others use the new one.
FreshTokenIsKept ==
    [][\A g \in Goroutine :
          request[g] = "authenticating" /\ request'[g] = "storing"
              => AboutToExpire]_clientVars

-----------------------------------------------------------------------------
(* The inductive invariant.                                                *)

RefresherHoldsMutex ==
    \A g \in Goroutine : request[g] \in Refreshing <=> mu = g

NothingBeforeTheClient ==
    adminToken = NoToken =>
        /\ adminTokenExpiresAt = ZeroTime
        /\ \A g \in Goroutine : request[g] = "none"

\* An expiry is known only of the token that the transport has or is about to
\* get.
ExpiryIsOfTheTransport ==
    adminTokenExpiresAt # ZeroTime =>
        \/ /\ transport = Transport("plain", adminTokenExpiresAt)
           /\ \A g \in Goroutine : request[g] \notin {"storing", "replacing"}
        \/ /\ adminTokenExpiresAt = adminToken
           /\ \E g \in Goroutine : request[g] \in {"storing", "replacing"}

\* Whoever has passed the check relies on a token that outlives the margin:
\* the one in the transport, or the one that replaces it.
PassedCheckIsCovered ==
    \A g \in Goroutine :
        /\ freshAt[g] <= now
        /\ request[g] = "authenticating" => AboutToExpire
        /\ request[g] \in {"storing", "replacing"} =>
              /\ freshAt[g] + Margin <= adminToken
              /\ adminTokenExpiresAt = adminToken
              /\ \A h \in Goroutine :
                    request[h] = "ready" => freshAt[h] + Margin <= adminToken
        /\ request[g] = "ready" => freshAt[g] + Margin <= transport.data.token

ClientInv ==
    /\ ClientTypeOK
    /\ RefresherHoldsMutex
    /\ NothingBeforeTheClient
    /\ ExpiryIsOfTheTransport
    /\ PassedCheckIsCovered
    /\ TransportIsWhole

=============================================================================
