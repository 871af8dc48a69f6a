------------------------------ MODULE Secrets ------------------------------
(***************************************************************************)
(* The tokens of an MCP server in the vault, and those who refresh them.   *)
(*                                                                         *)
(* An import copies the server's tokens into two secrets: the primary has  *)
(* the access token and says when it expires, its sibling has the refresh  *)
(* token.  From then on the background task of VaultRefreshManager         *)
(* (src/vault_refresh_manager.py), the user (refresh_secret in             *)
(* src/application_service.py) and a session's proxy, which has a copy of  *)
(* its own (src/docker/proxy/addon.py), refresh them, besides the server's *)
(* own refresh of OAuthTokens.  What the vault does is done at once; a     *)
(* task waits for the provider, for a lock, or sleeps.                     *)
(***************************************************************************)
EXTENDS OAuthTokens

VARIABLES primary,   \* the primary's refresh metadata
          sibling,   \* whether the metadata of the sibling exists
          vaulted,   \* the sibling's value in the keyring
          tells,     \* whether the provider says when a token expires
          task,      \* _tasks: where the background task is
          lock,      \* _locks: who holds the lock of the primary
          manual,    \* the user's refresh: off, posting
          proxy,     \* the sidecar, the token and the status in its copy
          excused,   \* history: the sibling's token ended by no refresh of it
          healed     \* history: a refresh came after the task had ended
secretVars == <<primary, sibling, vaulted, tells, task, lock, manual, proxy,
                excused, healed>>
vars == <<changes, tokenVars, secretVars>>

Absent == [spec |-> FALSE, exp |-> "never", status |-> "absent"]
Here == primary # Absent
\* The value of the primary's expires_at that a new token has.
Expiry == IF tells THEN "fresh" ELSE "never"

Copies == {vaulted, proxy.tok} \ {NoToken}

\* Another date than the one a sleeping task has read.
Renewed == task' = IF task = "asleep" THEN "early" ELSE task
Heals == healed' = (healed \/ task = "off")
Frees(who) == lock' = IF lock = who THEN "none" ELSE lock
\* Tokens that were given to these callers are never written.
Loses(cs) ==
  excused' = (excused \/ (vaulted \notin live /\ \E c \in cs : Granted(c)))

-----------------------------------------------------------------------------
(* schedule_secret and unschedule_secret                                   *)

\* A secret whose refresh has failed is refreshed at once.
Scheduled(p) == IF p.status = "failed" THEN "early" ELSE "asleep"

\* The task that was there is cancelled, whatever it waits for.
Schedule(p) ==
  /\ task' = Scheduled(p)
  /\ healed' = FALSE
  /\ Frees("loop")
  /\ Done({"loop"})

-----------------------------------------------------------------------------
(* The vault                                                               *)

TokensKept == UNCHANGED <<live, stored, client, pending, overlaps>>

\* create_secret of the vault refuses a name that is taken.
Creates(p) == ~ Here /\ primary' = p
CreatesSibling(t) == ~ sibling /\ sibling' = TRUE /\ vaulted' = t

\* import_oauth_as_secret.  Without a refresh token there is no sibling and
\* nothing to refresh with, and the task is started all the same.
Import ==
  /\ Changes
  /\ \/ /\ stored \in Tokens
        /\ CreatesSibling(stored)
        /\ excused' = (stored \notin live)
        /\ Creates([spec |-> TRUE, exp |-> Expiry, status |-> "fine"])
     \/ /\ stored = Bare
        /\ Creates([spec |-> FALSE, exp |-> "never", status |-> "fine"])
        /\ UNCHANGED <<sibling, vaulted, excused>>
  /\ Schedule(primary')
  /\ TokensKept /\ UNCHANGED <<tells, manual, proxy>>

\* The user makes a primary by hand, for a sibling that is there or not.
CreateSecret ==
  /\ Changes
  /\ Creates([spec |-> TRUE, exp |-> Expiry, status |-> "fine"])
  /\ Schedule(primary')
  /\ TokensKept
  /\ UNCHANGED <<sibling, vaulted, tells, manual, proxy, excused>>

\* import_oauth_as_secret(replace=True): Reconnect.
Reconnect ==
  /\ Changes /\ Here /\ stored \in Tokens \union {Bare}
  /\ primary' = IF stored \in Tokens
                THEN [spec |-> TRUE, exp |-> Expiry, status |-> "fine"]
                ELSE primary
  /\ IF stored \in Tokens /\ sibling
     THEN vaulted' = stored /\ excused' = (stored \notin live)
     ELSE UNCHANGED vaulted /\ Loses({"loop"})
  /\ Schedule(primary')
  /\ TokensKept /\ UNCHANGED <<sibling, tells, manual, proxy>>

\* PATCH of the primary, which keeps what this model knows of it.
UpdateSecret ==
  /\ Changes /\ primary.spec
  /\ Schedule(primary) /\ Loses({"loop"})
  /\ TokensKept
  /\ UNCHANGED <<primary, sibling, vaulted, tells, manual, proxy>>

\* The lock goes with the task: a refresh by the user that waited for it will
\* find nothing, and one that holds it goes on without it.
DeleteSecret ==
  /\ Changes /\ Here
  /\ primary' = Absent
  /\ task' = "off" /\ lock' = "none" /\ healed' = FALSE
  /\ Done({"loop"}) /\ Loses({"loop"})
  /\ TokensKept /\ UNCHANGED <<sibling, vaulted, tells, manual, proxy>>

DeleteSibling ==
  /\ Changes /\ sibling
  /\ sibling' = FALSE /\ vaulted' = NoToken /\ excused' = FALSE
  /\ TokensKept
  /\ UNCHANGED <<sent, ans, primary, tells, task, lock, manual, proxy,
                 healed>>

ExpiryNears ==
  /\ primary.exp = "fresh"
  /\ primary' = [primary EXCEPT !.exp = "due"]
  /\ UNCHANGED <<tokenVars, sibling, vaulted, tells, task, lock, manual,
                 proxy, changes, excused, healed>>

-----------------------------------------------------------------------------
(* A refresh of the vault's tokens, by the task or by the user             *)

CanRefresh == primary.spec /\ vaulted # NoToken

\* Faulty: the new refresh token is dropped.
RotatedIgnored(c) == UNCHANGED <<vaulted, excused>>

\* A new refresh token goes to the sibling's name in the keyring, and the
\* metadata that was read before the wait, with its status and expiry, to
\* the primary if it still is there.
Rotated(c) ==
  IF ans[c] # sent[c]
  THEN vaulted' = ans[c] /\ excused' = (ans[c] \notin live)
  ELSE UNCHANGED <<vaulted, excused>>
Recorded ==
  primary' = IF Here
             THEN [spec |-> TRUE, status |-> "fine",
                   exp |-> IF tells THEN "fresh" ELSE primary.exp]
             ELSE primary

\* _sleep_until_refresh has a date, or five minutes; a first try that fails
\* has another one a minute later.  A task that waits for the lock has not
\* woken yet.
MayTry ==
  /\ \/ task \in {"early", "resting"}
     \/ task = "asleep" /\ primary.exp # "fresh"
  /\ lock = "none"

LoopPosts ==
  /\ MayTry /\ CanRefresh
  /\ task' = IF task = "resting" THEN "retrying" ELSE "posting"
  /\ lock' = "loop"
  /\ Asks("loop", vaulted)
  /\ TokensKept
  /\ UNCHANGED <<primary, sibling, vaulted, tells, manual, proxy, changes,
                 excused, healed>>

LoopSucceeds ==
  /\ Granted("loop")
  /\ Rotated("loop") /\ Recorded
  /\ task' = "asleep"
  /\ Frees("loop") /\ Done({"loop"})
  /\ TokensKept
  /\ UNCHANGED <<sibling, tells, manual, proxy, changes, healed>>

\* Faulty: the task ends and nothing is put on record.
GiveUpQuietly(p) == p

\* A first try is followed by another one; after that the failure is put on
\* record, which cannot be done without a refresh spec, and the task ends.
GiveUp(p) == IF p.spec THEN [p EXCEPT !.status = "failed"] ELSE p
TryFails(first) ==
  IF first
  THEN task' = "resting" /\ UNCHANGED primary
  ELSE task' = "off" /\ primary' = GiveUp(primary)

LoopCannot ==
  /\ MayTry /\ ~ CanRefresh
  /\ TryFails(task # "resting")
  /\ UNCHANGED <<tokenVars, sibling, vaulted, tells, lock, manual, proxy,
                 changes, excused, healed>>

LoopFails ==
  /\ Lost("loop")
  /\ TryFails(task = "posting")
  /\ Frees("loop") /\ Done({"loop"}) /\ Loses({"loop"})
  /\ TokensKept
  /\ UNCHANGED <<sibling, vaulted, tells, manual, proxy, changes, healed>>

\* refresh_secret, from when it has the lock.
ManualPosts ==
  /\ manual = "off" /\ lock = "none" /\ CanRefresh
  /\ manual' = "posting"
  /\ lock' = "manual"
  /\ Asks("manual", vaulted)
  /\ TokensKept
  /\ UNCHANGED <<primary, sibling, vaulted, tells, task, proxy, changes,
                 excused, healed>>

ManualSucceeds ==
  /\ Granted("manual")
  /\ Rotated("manual") /\ Recorded /\ Renewed /\ Heals
  /\ manual' = "off"
  /\ Frees("manual") /\ Done({"manual"})
  /\ TokensKept
  /\ UNCHANGED <<sibling, tells, proxy, changes>>

\* Faulty: the lock is released by success alone.
ManualFailsLocked ==
  /\ Lost("manual")
  /\ manual' = "off"
  /\ Done({"manual"}) /\ Loses({"manual"})
  /\ TokensKept
  /\ UNCHANGED <<primary, sibling, vaulted, tells, task, lock, proxy,
                 changes, healed>>

ManualFails ==
  /\ Lost("manual")
  /\ manual' = "off"
  /\ Frees("manual") /\ Done({"manual"}) /\ Loses({"manual"})
  /\ TokensKept
  /\ UNCHANGED <<primary, sibling, vaulted, tells, task, proxy, changes,
                 healed>>

-----------------------------------------------------------------------------
(* The proxy, which takes no lock of the server's                          *)

ProxyOnly ==
  /\ TokensKept
  /\ UNCHANGED <<sibling, tells, lock, manual, changes>>
NoProxy == [at |-> "down", tok |-> NoToken, status |-> "fine"]

\* Only a copy with an expiry is ever refreshed, and only when the sibling
\* is assigned to the session as well: one that is not has no placeholder.
ProxyStarts ==
  /\ proxy.at = "down"
  /\ primary.spec /\ primary.exp # "never" /\ sibling
  /\ proxy' = [at |-> "ready", tok |-> vaulted, status |-> primary.status]
  /\ ProxyOnly
  /\ UNCHANGED <<sent, ans, primary, vaulted, task, excused, healed>>

ProxyPosts ==
  /\ proxy.at = "ready"
  /\ proxy' = [proxy EXCEPT !.at = "posting"]
  /\ Asks("proxy", proxy.tok)
  /\ ProxyOnly
  /\ UNCHANGED <<primary, vaulted, task, excused, healed>>

ProxyFails ==
  /\ proxy.at = "posting"
  /\ proxy' = [proxy EXCEPT !.at = "ready"]
  /\ Done({"proxy"}) /\ Loses({"proxy"})
  /\ ProxyOnly
  /\ UNCHANGED <<primary, vaulted, task, healed>>

\* The PATCH of the primary, which may fail, and then that of the sibling.
ProxyPatches ==
  /\ proxy.at = "posting" /\ Granted("proxy")
  /\ proxy' = [proxy EXCEPT !.at = "patching"]
  /\ \/ /\ tells /\ Here
        /\ primary' = [spec |-> TRUE, exp |-> "fresh",
                       status |-> proxy.status]
        /\ Renewed /\ Heals
     \/ UNCHANGED <<primary, task, healed>>
  /\ ProxyOnly
  /\ UNCHANGED <<sent, ans, vaulted, excused>>

ProxyPatchesSibling ==
  /\ proxy.at = "patching"
  /\ proxy' = [proxy EXCEPT !.at = "ready", !.tok = ans["proxy"]]
  /\ \/ sibling /\ Rotated("proxy")
     \/ Loses({"proxy"}) /\ UNCHANGED vaulted
  /\ Done({"proxy"})
  /\ ProxyOnly
  /\ UNCHANGED <<primary, task, healed>>

ProxyStops ==
  /\ proxy.at # "down"
  /\ proxy' = NoProxy
  /\ Done({"proxy"}) /\ Loses({"proxy"})
  /\ ProxyOnly
  /\ UNCHANGED <<primary, vaulted, task, healed>>

-----------------------------------------------------------------------------
\* The server dies, with its tasks, flows and requests, and starts again.
ServerRestarts ==
  /\ Changes
  /\ task' = IF primary.spec THEN Scheduled(primary) ELSE "off"
  /\ lock' = "none" /\ manual' = "off" /\ healed' = FALSE
  /\ pending' = {}
  /\ Done(Callers \ {"proxy"}) /\ Loses({"loop", "manual"})
  /\ overlaps' = FALSE
  /\ UNCHANGED <<live, stored, client, primary, sibling, vaulted,
                 tells, proxy>>

TokenStep ==
  /\ \/ \E f \in Flows : StartFlow(f)
     \/ TokenNext(Copies) /\ UNCHANGED changes
     \/ \E c \in Others \union {Server} :
          (ProviderRotates(c, Copies) \/ ProviderKeeps(c)) /\ UNCHANGED changes
  /\ UNCHANGED <<primary, sibling, vaulted, tells, task, lock, manual,
                 proxy, healed>>
  \* The sibling's token ends with an authorisation or the server's refresh.
  /\ excused' = \/ excused
                 \/ /\ vaulted \in live \ live'
                    /\ \A c \in Others : ans'[c] = ans[c]

SecretsInit ==
  /\ TokenInit
  /\ primary = Absent /\ sibling = FALSE /\ vaulted = NoToken
  /\ tells \in BOOLEAN
  /\ task = "off" /\ lock = "none" /\ manual = "off" /\ proxy = NoProxy
  /\ excused = FALSE /\ healed = FALSE

VaultNext ==
  \/ Import \/ CreateSecret \/ Reconnect \/ UpdateSecret
  \/ DeleteSecret \/ DeleteSibling \/ ExpiryNears
  \/ LoopPosts \/ LoopSucceeds \/ LoopCannot \/ LoopFails
  \/ ManualPosts \/ ManualSucceeds \/ ManualFails
  \/ ProxyStarts \/ ProxyPosts \/ ProxyFails \/ ProxyPatches
  \/ ProxyPatchesSibling \/ ProxyStops
SecretsNext == TokenStep \/ VaultNext \/ ServerRestarts

SecretsSpec == SecretsInit /\ [][SecretsNext]_vars

\* The event loop runs its tasks; a request has an answer or ends after 30
\* seconds; a lock goes to whoever has waited longest.
SecretsFairness ==
  /\ SF_vars(LoopPosts \/ LoopCannot)
  /\ WF_vars(LoopSucceeds \/ LoopFails)
  /\ WF_vars(ManualSucceeds \/ ManualFails)
SecretsFairSpec == SecretsSpec /\ SecretsFairness

-----------------------------------------------------------------------------
(* Properties                                                              *)

\* The variables keep their shape.
Statuses == {"fine", "failed"}
SecretsTypeOK ==
  /\ live \subseteq Tokens
  /\ sent \in [Callers -> Tokens \union {NoToken, Code}]
  /\ ans \in [Callers -> Tokens \union {NoToken, Bare, Rejected}]
  /\ stored \in Tokens \union {NoToken, Bare}
  /\ pending \subseteq Flows /\ changes \in Nat
  /\ primary \in [spec : BOOLEAN, exp : {"fresh", "due", "never"}, status : Statuses] \union {Absent}
  /\ vaulted \in Tokens \union {NoToken}
  /\ task \in {"off", "early", "asleep", "resting", "posting", "retrying"}
  /\ lock \in {"none", "loop", "manual"} /\ manual \in {"off", "posting"}
  /\ proxy \in [at : {"down", "ready", "posting", "patching"},
               tok : Tokens \union {NoToken}, status : Statuses]
  /\ {client, overlaps, sibling, tells, excused, healed} \subseteq BOOLEAN

\* The server's tokens are erased by the user, or by an answer other than 200
\* to a refresh of those very tokens: never by a refresh that has no answer or
\* is cancelled, or by one of older tokens -- unless an authorisation brought
\* the new ones in the middle of it.
ErasedOnlyRefused ==
  [][(stored # NoToken /\ stored' = NoToken)
       => \/ Disconnect
          \/ ans[Server] = Rejected /\ (sent[Server] = stored \/ overlaps)]_vars

\* The vault follows the provider: a refresh token that it keeps and the
\* provider does not accept any more is about to be replaced, or was ended
\* by others (an authorisation, the refresh of its twin) or by an answer
\* that nobody could read.
VaultKeepsUp ==
  sibling /\ vaulted # NoToken /\ vaulted \notin live
    => excused \/ \E c \in Others : Granted(c)

\* A secret that nobody refreshes any more says so, unless the user or a
\* proxy refreshed it since.
GaveUpIsShown ==
  primary.spec /\ task = "off" => primary.status = "failed" \/ healed

\* A token that nears its expiry is replaced, or its refresh given up,
\* whoever else refreshes, fails or holds the lock meanwhile.
Due == primary.spec /\ primary.exp = "due" /\ task # "off"
DueIsRefreshed == Due ~> ~ Due
=============================================================================
