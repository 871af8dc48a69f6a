---------------------------- MODULE OAuthTokens ----------------------------
(***************************************************************************)
(* The OAuth tokens of one MCP server: the flow that gets them             *)
(* (src/oauth_manager.py, src/routers/mcp.py), the files that keep them    *)
(* (FernetTokenStore) and their refresh (src/oauth_refresh_manager.py).    *)
(*                                                                         *)
(* A token stands for the pair of an access and a refresh token, and is    *)
(* known by the latter.  Whoever sends a request to the provider waits for *)
(* the answer, and everybody else goes on meanwhile: a step is what a task *)
(* does between two waits of the asyncio loop.                             *)
(***************************************************************************)
EXTENDS Integers, FiniteSets

CONSTANTS ClientId,     \* whether the configuration has an oauth_client_id
          Flows,        \* authorisations that may be under way at once
          MaxTokens,    \* bound: tokens somebody has
          MaxRequests,  \* bound: other requests to the provider at once
          MaxChanges    \* bound: flows, imports, updates, deletions, restarts

ASSUME ConstantsAssumption ==
  ClientId \in BOOLEAN /\ {MaxTokens, MaxRequests, MaxChanges} \subseteq Nat

Tokens == 1 .. MaxTokens
NoToken == 0
Bare == -1       \* an access token that came without a refresh token
Rejected == -2   \* an answer other than 200
Code == -3       \* the code of an authorisation, which is sent once

Server == "server"   \* refresh_token for the server's own tokens
Others == {"loop", "manual", "proxy"}   \* those who refresh a copy of them
ASSUME FlowsAssumption == Flows \intersect ({Server} \union Others) = {}
Callers == Flows \union {Server} \union Others
Unbounded == {Server, "loop"}

VARIABLES live,     \* the refresh tokens the provider accepts
          sent,     \* per caller: what it has sent to the provider
          ans,      \* per caller: what the provider answers
          stored,   \* oauth_tokens, oauth_expiry and oauth_endpoints
          client,   \* oauth_clients: whether the client is on record
          pending,  \* _pending: the flows that wait for their callback
          overlaps, \* history: tokens came while a refresh was under way
          changes   \* bound: how often something new was begun
tokenVars == <<live, sent, ans, stored, client, pending, overlaps>>

Changes == changes < MaxChanges /\ changes' = changes + 1

Free(c) == sent[c] = NoToken
\* The bound keeps neither the server's refresh nor the vault's task from it.
Asks(c, t) ==
  /\ Free(c)
  /\ \/ c \in Unbounded
     \/ Cardinality({d \in Callers \ Unbounded : ~ Free(d)}) < MaxRequests
  /\ sent' = [sent EXCEPT ![c] = t]
  /\ UNCHANGED ans
\* The caller has the answer, or does not wait for it any longer.
Done(cs) ==
  /\ sent' = [c \in Callers |-> IF c \in cs THEN NoToken ELSE sent[c]]
  /\ ans' = [c \in Callers |-> IF c \in cs THEN NoToken ELSE ans[c]]
Granted(c) == ans[c] \in Tokens
\* A request ends without an answer: no connection, an error, a timeout.
Lost(c) == ~ Free(c)

-----------------------------------------------------------------------------
(* The provider, which may give a new refresh token for the old one, or    *)
(* let it be; `copies` are the tokens others have.                         *)

Held(copies) ==
  (copies \union {stored} \union {sent[c] : c \in Callers}
          \union {ans[c] : c \in Callers}) \intersect Tokens
Fresh(copies, t) ==
  LET unused == Tokens \ Held(copies)
  IN t \in unused /\ \A n \in unused : t <= n

Answers(c, t) == ans' = [ans EXCEPT ![c] = t] /\ UNCHANGED sent
Waits(c) == ~ Free(c) /\ ans[c] = NoToken

\* A new authorisation may end the earlier ones.
ProviderGrants(f, copies) ==
  /\ Waits(f)
  /\ \E old \in {live \intersect Held(copies), {}} :
       \/ \E t \in Tokens : /\ Fresh(copies, t)
                            /\ Answers(f, t)
                            /\ live' = old \union {t}
       \/ Answers(f, Bare) /\ live' = old
  /\ UNCHANGED <<stored, client, pending, overlaps>>

ProviderRotates(c, copies) ==
  /\ Waits(c) /\ sent[c] \in live
  /\ \E t \in Tokens :
       /\ Fresh(copies, t)
       /\ Answers(c, t)
       /\ live' = ((live \intersect Held(copies)) \ {sent[c]}) \union {t}
  /\ UNCHANGED <<stored, client, pending, overlaps>>

ProviderKeeps(c) ==
  /\ Waits(c) /\ sent[c] \in live
  /\ Answers(c, sent[c])
  /\ UNCHANGED <<live, stored, client, pending, overlaps>>

\* Any status but 200: the token is no longer good, or the provider is in
\* trouble or has had too many requests.  To the others it is a failure like
\* any other.
ProviderRejects ==
  /\ Waits(Server)
  /\ Answers(Server, Rejected)
  /\ UNCHANGED <<live, stored, client, pending, overlaps>>

-----------------------------------------------------------------------------
(* FernetTokenStore                                                        *)

SetTokens(t) == stored' = t
Clear == stored' = NoToken /\ client' = FALSE

-----------------------------------------------------------------------------
(* OAuthFlowManager                                                        *)

\* A client that is not configured is registered and put on record.
StartFlow(f) ==
  /\ f \notin pending /\ Free(f) /\ Changes
  /\ pending' = pending \union {f}
  /\ client' = (client \/ ~ ClientId)
  /\ UNCHANGED <<live, sent, ans, stored, overlaps>>

\* The callback comes with a code; the flow is forgotten before it is sent.
CompleteFlow(f) ==
  /\ f \in pending
  /\ pending' = pending \ {f}
  /\ Asks(f, Code)
  /\ UNCHANGED <<live, stored, client, overlaps>>

FlowCompletes(f) ==
  /\ ans[f] \in Tokens \union {Bare}
  /\ SetTokens(ans[f])
  /\ overlaps' = (overlaps \/ ~ Free(Server))
  /\ Done({f})
  /\ UNCHANGED <<live, client, pending>>

FlowFails(f) ==
  /\ Lost(f)
  /\ Done({f})
  /\ UNCHANGED <<live, stored, client, pending, overlaps>>

Disconnect ==
  /\ stored # NoToken \/ client
  /\ Clear
  /\ UNCHANGED <<live, sent, ans, pending, overlaps>>

\* One refresh at a time, by the background task or a session that starts,
\* under the server's lock; only with a client on record.
RefreshToken ==
  /\ stored \in Tokens /\ client
  /\ Asks(Server, stored)
  /\ UNCHANGED <<live, stored, client, pending, overlaps>>

RefreshSucceeds ==
  /\ Granted(Server)
  /\ SetTokens(ans[Server])
  /\ Done({Server}) /\ overlaps' = FALSE
  /\ UNCHANGED <<live, client, pending>>

RefreshRejected ==
  /\ ans[Server] = Rejected
  /\ Clear
  /\ Done({Server}) /\ overlaps' = FALSE
  /\ UNCHANGED <<live, pending>>

\* Faulty: no answer is taken for one that is not 200.
RefreshFailsClears ==
  /\ Lost(Server)
  /\ Clear
  /\ Done({Server}) /\ overlaps' = FALSE
  /\ UNCHANGED <<live, pending>>

\* The request fails, or the last session that uses the server ends and the
\* background task is cancelled.
RefreshFails ==
  /\ Lost(Server)
  /\ Done({Server}) /\ overlaps' = FALSE
  /\ UNCHANGED <<live, stored, client, pending>>

-----------------------------------------------------------------------------
TokenInit ==
  /\ live = {} /\ stored = NoToken /\ client = FALSE
  /\ sent = [c \in Callers |-> NoToken] /\ ans = [c \in Callers |-> NoToken]
  /\ pending = {} /\ overlaps = FALSE /\ changes = 0

TokenNext(copies) ==
  \/ \E f \in Flows : \/ CompleteFlow(f) \/ ProviderGrants(f, copies)
                      \/ FlowCompletes(f) \/ FlowFails(f)
  \/ Disconnect
  \/ RefreshToken \/ ProviderRejects
  \/ RefreshSucceeds \/ RefreshRejected \/ RefreshFails
=============================================================================
