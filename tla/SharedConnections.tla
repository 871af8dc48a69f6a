-------------------------- MODULE SharedConnections --------------------------
(***************************************************************************)
(* One MCP server that several sessions use through a shared connection:   *)
(* src/mcp/shared_connection_manager.py, the refresh of its OAuth token in *)
(* src/oauth_refresh_manager.py, the references that the sessions of       *)
(* src/session_coordinator.py take and give back, and the changes of its   *)
(* configuration in src/mcp_config_manager.py.                             *)
(*                                                                         *)
(* A connection is held by an owner, a task that opens it, parks, and      *)
(* closes it when it is told to; everybody else waits for owners.  A step  *)
(* is what a task does between two waits of the asyncio loop.              *)
(***************************************************************************)
EXTENDS Integers, FiniteSets

CONSTANTS Sessions,
          Calls,     \* tool calls that may be under way at once
          Conns,     \* _SharedConn objects
          Owners,    \* owner tasks; one that nobody knows is used again
          None,
          MaxRefs,   \* bound: references to one connection, and to the token
          MaxKept,   \* bound: references that nobody will give back
          Linked     \* the sessions that have the server from their template,
                     \* and do not name it themselves

Config == "config"    \* the request that disables or deletes the server
Refresher == "refresh" \* the task that refreshes the token
Procs == Sessions \union Calls \union {Config, Refresher}

ASSUME ProcsAssumption ==
  /\ Sessions \intersect Calls = {} /\ None \notin Procs
  /\ Config \notin Sessions \union Calls /\ Refresher \notin Sessions \union Calls
ASSUME ConnsAssumption == Conns # {}
ASSUME NoneAssumption == None \notin Conns \union Owners
ASSUME MaxRefsAssumption == {MaxRefs, MaxKept} \subseteq Nat
ASSUME LinkedAssumption == Linked \subseteq Sessions

VARIABLES cfg,      \* whether the server is enabled, disabled or deleted
          conn,     \* _conns[cfg_id]
          refs,     \* per connection: refcount
          draining, \* per connection
          cur,      \* per connection: the owner of the current generation
          sess,     \* per connection: the owner whose ClientSession it has
          phase,    \* per owner
          ready,    \* the owners whose ready_future has a result
          told,     \* the owners whose close_event is set
          of,       \* per owner: its connection
          openLock, \* who has _open_lock
          recLock,  \* per connection: who has reconnect_lock
          count,    \* _refresh_refcounts
          at,       \* per process: where it is
          on,       \* per process: the connection it works on
          own,      \* per process: the owner it waits for
          holds,    \* per session: the connection it has taken a reference to
          kept,     \* history: references that ended sessions have kept
          ending,   \* per process: what the drain under way ends with
          mixed     \* history, see Mixes
connVars == <<conn, refs, draining, cur, sess>>
ownerVars == <<phase, ready, told, of>>
lockVars == <<openLock, recLock>>
procVars == <<at, on, own>>
sharedVars == <<cfg, connVars, ownerVars, lockVars, count, procVars,
                holds, kept, ending, mixed>>

\* The counts are promised to be right as long as no session gives back what it
\* does not have, none attaches to a connection that has begun to drain in the
\* meantime, and none that closes takes another from the table.
Mixes(cond) == mixed' = (mixed \/ cond)
\* bound: one session at most gives back what it does not have, when none has
\* kept what it had.
MayBegin(cond) == (cond => ~ mixed /\ kept = 0) /\ Mixes(cond)

Working == {"opening", "closing", "ready", "calling"}
Quiet == {"down", "lock", "attached", "up", "idle", "none", "asleep", "ended"}

At(p, place) == at' = [at EXCEPT ![p] = place]
Goes(p, place, k, o) ==
  /\ at' = [at EXCEPT ![p] = place]
  /\ on' = [on EXCEPT ![p] = k]
  /\ own' = [own EXCEPT ![p] = o]
Unlocked(p) == [k \in Conns |-> IF recLock[k] = p THEN None ELSE recLock[k]]
Rest(p) == IF p \in Calls THEN "idle" ELSE "down"

-----------------------------------------------------------------------------
(* The owners.                                                             *)

Known(o) == o \in {own[p] : p \in Procs}
\* An owner of an earlier generation that nobody tells to close parks forever.
FreshOwner(o) ==
  /\ ~ Known(o) /\ \A k \in Conns : cur[k] # o
  /\ phase[o] = "gone" \/ (phase[o] = "open" /\ o \notin told)
FreshConn(k) ==
  /\ k # conn /\ k \notin {on[p] : p \in Procs}
  /\ cur[k] # None => phase[cur[k]] = "open"

\* The finally clause of _run_connection.
ForgetOwner(o) ==
  IF cur[of[o]] = o
  THEN /\ cur' = [cur EXCEPT ![of[o]] = None]
       /\ sess' = [sess EXCEPT ![of[o]] = None]
  ELSE UNCHANGED <<cur, sess>>

\* Faulty: an owner gives its client whatever its generation.
OwnerOpensLate(o) ==
  /\ phase[o] = "opening"
  /\ phase' = [phase EXCEPT ![o] = "open"]
  /\ ready' = IF Known(o) THEN ready \union {o} ELSE ready
  /\ sess' = [sess EXCEPT ![of[o]] = o]
  /\ UNCHANGED <<cfg, conn, refs, draining, cur, told, of, lockVars, count,
                 procVars, holds, kept, ending, mixed>>

OwnerOpens(o) ==
  /\ phase[o] = "opening"
  /\ phase' = [phase EXCEPT ![o] = "open"]
  /\ ready' = IF Known(o) THEN ready \union {o} ELSE ready
  /\ sess' = IF cur[of[o]] = o THEN [sess EXCEPT ![of[o]] = o] ELSE sess
  /\ UNCHANGED <<cfg, conn, refs, draining, cur, told, of, lockVars, count,
                 procVars, holds, kept, ending, mixed>>

OwnerEnds(o) ==
  /\ phase' = [phase EXCEPT ![o] = "gone"]
  /\ told' = told \ {o}
  /\ ForgetOwner(o)
  /\ UNCHANGED <<cfg, conn, refs, draining, ready, of, lockVars, count,
                 procVars, holds, kept, ending, mixed>>
OwnerFails(o) == phase[o] = "opening" /\ OwnerEnds(o)
OwnerCloses(o) == phase[o] = "open" /\ o \in told /\ OwnerEnds(o)
\* One that does not close in time is cancelled by who waits for it.
OwnerCancelled(o) ==
  /\ phase[o] = "opening" /\ \E p \in Procs : at[p] = "closing" /\ own[p] = o
  /\ OwnerEnds(o)

\* _open_locked up to its wait, by p on the connection k.
Opens(p, k, o) ==
  /\ FreshOwner(o)
  /\ phase' = [phase EXCEPT ![o] = "opening"]
  /\ ready' = ready \ {o} /\ told' = told \ {o}
  /\ of' = [of EXCEPT ![o] = k]
  /\ cur' = [cur EXCEPT ![k] = o]
  /\ Goes(p, "opening", k, o)

\* _close_owner_locked up to its wait.
Closes(p, k) ==
  /\ told' = told \union {cur[k]}
  /\ Goes(p, "closing", k, cur[k])

-----------------------------------------------------------------------------
(* get_or_open, for a session that starts and for a call.                  *)

\* A connection that drains is refused before the lock is taken.
Refused == conn # None /\ draining[conn]

\* Faulty: a call is counted like a session.
GetsCounted(p, k) ==
  /\ openLock' = None
  /\ refs' = [refs EXCEPT ![k] = @ + 1]
  /\ IF p \in Sessions
     THEN holds' = [holds EXCEPT ![p] = k] /\ Goes(p, "attached", None, None)
     ELSE Goes(p, "ready", k, None) /\ UNCHANGED holds
  /\ Mixes(draining[k] \/ conn # k)

\* Whoever has the lock finds the connection, or creates and opens it.
Gets(p, k) ==
  /\ openLock' = None
  /\ IF p \in Sessions
     THEN /\ refs' = [refs EXCEPT ![k] = @ + 1]
          /\ holds' = [holds EXCEPT ![p] = k]
          /\ Goes(p, "attached", None, None)
          /\ Mixes(draining[k] \/ conn # k)
     ELSE Goes(p, "ready", k, None) /\ UNCHANGED <<refs, holds, mixed>>

FindsOpen(p) ==
  /\ at[p] = "lock" /\ openLock = None
  /\ conn # None /\ sess[conn] # None
  /\ Gets(p, conn)
  /\ UNCHANGED <<cfg, conn, draining, cur, sess, ownerVars, recLock, count, kept, ending>>

FindsClosed(p) ==
  /\ at[p] = "lock" /\ openLock = None
  /\ conn # None /\ sess[conn] = None
  /\ openLock' = p
  /\ \E o \in Owners : Opens(p, conn, o)
  /\ UNCHANGED <<cfg, conn, refs, draining, sess, recLock, count, holds, kept, ending, mixed>>

FindsNone(p) ==
  /\ at[p] = "lock" /\ openLock = None /\ conn = None
  /\ openLock' = p
  /\ \E k \in Conns, o \in Owners :
       /\ FreshConn(k)
       /\ conn' = k
       /\ refs' = [refs EXCEPT ![k] = 0]
       /\ draining' = [draining EXCEPT ![k] = FALSE]
       /\ sess' = [sess EXCEPT ![k] = None]
       /\ Opens(p, k, o)
  /\ kept' = 0
  /\ UNCHANGED <<cfg, recLock, count, holds, ending, mixed>>

OpenSucceeds(p) ==
  /\ at[p] = "opening" /\ openLock = p /\ own[p] \in ready
  /\ Gets(p, on[p])
  /\ ready' = ready \ {own[p]}
  /\ UNCHANGED <<cfg, conn, draining, cur, sess, phase, told, of, recLock, count, kept, ending>>

\* The owner has failed, or has not opened in time and goes on by itself.
OpenFails(p) ==
  /\ at[p] = "opening" /\ openLock = p /\ own[p] \notin ready
  /\ openLock' = None
  /\ Goes(p, Rest(p), None, None)
  /\ UNCHANGED <<cfg, connVars, ownerVars, recLock, count, holds, kept, ending, mixed>>

-----------------------------------------------------------------------------
(* A session: start_session, restart_session, terminate_session.           *)

Using(s) == holds[s] # None

\* The session forgets the reference that it has: nobody will give it back.
Forgets(s) ==
  /\ Using(s) => kept < MaxKept /\ ~ mixed
  /\ kept' = IF Using(s) THEN kept + 1 ELSE kept
  /\ holds' = [holds EXCEPT ![s] = None]

Starting == {s \in Sessions : at[s] \in {"lock", "opening"}}
\* bound: the counts once upset, one session starts at a time.
BeginStart(s) ==
  /\ mixed => Starting = {} /\ \A c \in Calls : at[c] = "idle"
  /\ conn # None => refs[conn] + Cardinality(Starting) < MaxRefs
  /\ At(s, IF cfg # "enabled" THEN "attached" ELSE IF Refused THEN "down" ELSE "lock")
  /\ Forgets(s)
  /\ UNCHANGED <<cfg, connVars, ownerVars, lockVars, count, on, own, ending, mixed>>

Start(s) == at[s] = "down" /\ BeginStart(s)

\* A session that is restarted does not give back what it has.
RestartSession(s) == at[s] = "up" /\ BeginStart(s)

\* ensure_refresh at the end of the start.
StartSucceeds(s) ==
  /\ at[s] = "attached"
  /\ IF cfg = "enabled"
     THEN /\ count < MaxRefs /\ count' = count + 1
          /\ at' = [at EXCEPT ![s] = "up",
                              ![Refresher] = IF @ = "none" THEN "asleep" ELSE @]
     ELSE At(s, "up") /\ UNCHANGED count
  /\ UNCHANGED <<cfg, connVars, ownerVars, lockVars, on, own, holds, kept, ending, mixed>>

\* One that fails late keeps its reference until it is started or ended.
StartFails(s) ==
  /\ at[s] = "attached" /\ At(s, "down")
  /\ UNCHANGED <<cfg, connVars, ownerVars, lockVars, count, on, own, holds, kept, ending, mixed>>

\* Faulty: the task is cancelled with the last but one session.
ReleaseRefreshEarly(s, place) ==
  /\ count' = IF count <= 1 THEN 0 ELSE count - 1
  /\ at' = [at EXCEPT ![s] = place, ![Refresher] = IF count <= 2 THEN "none" ELSE @]

\* release_refresh by s, which goes on at place: without a reference left the
\* task is cancelled.
ReleaseRefresh(s, place) ==
  /\ count' = IF count <= 1 THEN 0 ELSE count - 1
  /\ at' = [at EXCEPT ![s] = place, ![Refresher] = IF count <= 1 THEN "none" ELSE @]

\* The connection in the table, whichever it is, is taken from it.
Popped ==
  IF conn = None THEN UNCHANGED <<conn, refs, draining>>
  ELSE /\ conn' = None
       /\ refs' = [refs EXCEPT ![conn] = 0]
       /\ draining' = [draining EXCEPT ![conn] = FALSE]

\* The references that are left once release has counted one down.
Left == IF conn = None THEN 0 ELSE refs[conn] - 1

\* The last session to release a connection that drains closes it.
Release(s) ==
  IF conn # None /\ Left <= 0 /\ draining[conn] /\ cur[conn] # None
  THEN /\ refs' = [refs EXCEPT ![conn] = Left]
       /\ told' = told \union {cur[conn]}
       /\ ReleaseRefresh(s, "closing")
       /\ on' = [on EXCEPT ![s] = conn] /\ own' = [own EXCEPT ![s] = cur[conn]]
       /\ UNCHANGED <<conn, draining>>
  ELSE /\ IF conn # None /\ Left <= 0 /\ draining[conn]
          THEN Popped
          ELSE /\ refs' = IF conn = None THEN refs ELSE [refs EXCEPT ![conn] = Left]
               /\ UNCHANGED <<conn, draining>>
       /\ ReleaseRefresh(s, "down")
       /\ UNCHANGED <<told, on, own>>

\* terminate_session and reset_session release the servers that the session
\* itself names; one that is disabled or deleted is not among them any more.
\* What it takes when it starts are the servers of the resolved configuration,
\* with those of its template.
Terminate(s) ==
  /\ at[s] \in {"up", "down"} /\ Left >= -1
  /\ IF cfg = "enabled" /\ s \notin Linked
     THEN /\ MayBegin(~ Using(s))
          /\ holds' = [holds EXCEPT ![s] = None] /\ UNCHANGED kept
          /\ Release(s)
     ELSE /\ Forgets(s) /\ At(s, "down")
          /\ UNCHANGED <<conn, refs, draining, told, count, on, own, mixed>>
  /\ UNCHANGED <<cfg, cur, sess, phase, ready, of, lockVars, ending>>

\* The end of _close, which takes whatever connection is there from the table.
ClosedBySession(s) ==
  /\ s \in Sessions /\ at[s] = "closing" /\ phase[own[s]] = "gone"
  /\ Popped
  /\ Goes(s, "down", None, None)
  /\ Mixes(conn \notin {on[s], None})
  /\ UNCHANGED <<cfg, cur, sess, ownerVars, lockVars, count,
                 holds, kept, ending>>

-----------------------------------------------------------------------------
(* The configuration: update_config and delete_config.                     *)

\* mark_draining, after which the server is disabled or deleted.
Drain(end) ==
  /\ at[Config] = "idle"
  /\ cfg = "enabled" \/ (cfg = "disabled" /\ end = "deleted")
  /\ IF conn # None /\ refs[conn] <= 0 /\ cur[conn] # None
     THEN /\ draining' = [draining EXCEPT ![conn] = TRUE]
          /\ Closes(Config, conn) /\ ending' = end
          /\ UNCHANGED <<cfg, conn, refs>>
     ELSE /\ IF conn # None /\ refs[conn] <= 0
             THEN Popped
             ELSE /\ draining' = IF conn = None THEN draining ELSE [draining EXCEPT ![conn] = TRUE]
                  /\ UNCHANGED <<conn, refs>>
          /\ cfg' = end
          /\ UNCHANGED <<told, procVars, ending>>
  /\ UNCHANGED <<cur, sess, phase, ready, of, lockVars, count, holds, kept, mixed>>

ClosedByConfig ==
  /\ at[Config] = "closing" /\ phase[own[Config]] = "gone"
  /\ Popped /\ cfg' = ending /\ ending' = "none"
  /\ Goes(Config, "idle", None, None)
  /\ Mixes(conn \notin {on[Config], None})
  /\ UNCHANGED <<cur, sess, ownerVars, lockVars, count, holds, kept>>

Enable ==
  /\ at[Config] = "idle" /\ cfg = "disabled" /\ cfg' = "enabled"
  /\ UNCHANGED <<connVars, ownerVars, lockVars, count, procVars, holds, kept, ending, mixed>>

-----------------------------------------------------------------------------
(* A tool call: call_tool.                                                 *)

\* By a session that has the server among its tools.
CallTool(c) ==
  /\ at[c] = "idle" /\ \E s \in Sessions : at[s] = "up" /\ Using(s)
  /\ IF conn # None /\ sess[conn] # None
     THEN Goes(c, "ready", conn, None)
     ELSE ~ Refused /\ Goes(c, "lock", None, None)
  /\ UNCHANGED <<cfg, connVars, ownerVars, lockVars, count, holds, kept, ending, mixed>>

CallForwarded(c) ==
  /\ at[c] = "ready" /\ recLock[on[c]] = None
  /\ IF sess[on[c]] = None
     THEN Goes(c, "idle", None, None) /\ UNCHANGED recLock
     ELSE Goes(c, "calling", on[c], sess[on[c]]) /\ recLock' = [recLock EXCEPT ![on[c]] = c]
  /\ UNCHANGED <<cfg, connVars, ownerVars, openLock, count, holds, kept, ending, mixed>>

\* The call has its result, or the time allowed for the lock or the call is over.
CallEnds(c) ==
  /\ c \in Calls /\ at[c] \in {"ready", "calling", "closing"}
  /\ recLock' = Unlocked(c)
  /\ Goes(c, "idle", None, None)
  /\ UNCHANGED <<cfg, connVars, ownerVars, openLock, count, holds, kept, ending, mixed>>

\* The upstream has closed: the connection is torn down by its owner.
CallFindsClosed(c) ==
  /\ at[c] = "calling" /\ cur[on[c]] # None
  /\ Closes(c, on[c])
  /\ UNCHANGED <<cfg, connVars, phase, ready, of, lockVars, count, holds, kept, ending, mixed>>

CallDisconnected(c) ==
  /\ c \in Calls /\ at[c] = "closing" /\ phase[own[c]] = "gone"
  /\ sess' = [sess EXCEPT ![on[c]] = None]
  /\ recLock' = Unlocked(c)
  /\ Goes(c, "idle", None, None)
  /\ UNCHANGED <<cfg, conn, refs, draining, cur, ownerVars, openLock, count,
                 holds, kept, ending, mixed>>

-----------------------------------------------------------------------------
(* The refresh of the token: _refresh_loop.  WebServer replaces those who   *)
(* are told of a new token, so that no connection is opened anew for it.   *)

\* A task whose refresh has failed has ended, and stays in the table.
TokenNotRefreshed ==
  /\ at[Refresher] = "asleep" /\ At(Refresher, "ended")
  /\ UNCHANGED <<cfg, connVars, ownerVars, lockVars, count, on, own, holds, kept, ending, mixed>>

-----------------------------------------------------------------------------
Init ==
  /\ cfg = "enabled" /\ conn = None
  /\ refs = [k \in Conns |-> 0]
  /\ draining = [k \in Conns |-> FALSE]
  /\ cur = [k \in Conns |-> None] /\ sess = [k \in Conns |-> None]
  /\ phase = [o \in Owners |-> "gone"]
  /\ ready = {} /\ told = {}
  /\ of \in [Owners -> {CHOOSE k \in Conns : TRUE}]
  /\ openLock = None /\ recLock = [k \in Conns |-> None]
  /\ count = 0
  /\ at = [p \in Procs |-> IF p \in Sessions THEN "down"
                           ELSE IF p = Refresher THEN "none" ELSE "idle"]
  /\ on = [p \in Procs |-> None] /\ own = [p \in Procs |-> None]
  /\ holds = [s \in Sessions |-> None] /\ kept = 0
  /\ ending = "none" /\ mixed = FALSE

Owner(o) == OwnerOpens(o) \/ OwnerFails(o) \/ OwnerCloses(o) \/ OwnerCancelled(o)
Gettings(p) == FindsOpen(p) \/ FindsClosed(p) \/ FindsNone(p)
Opening(p) == OpenSucceeds(p) \/ OpenFails(p)
Calling(c) == CallEnds(c) \/ CallDisconnected(c)

Next ==
  \/ \E o \in Owners : Owner(o)
  \/ \E p \in Sessions \union Calls : Gettings(p) \/ Opening(p)
  \/ \E s \in Sessions :
       \/ Start(s)
       \/ RestartSession(s)
       \/ StartSucceeds(s)
       \/ StartFails(s)
       \/ Terminate(s)
       \/ ClosedBySession(s)
  \/ \E end \in {"disabled", "deleted"} : Drain(end)
  \/ ClosedByConfig
  \/ Enable
  \/ \E c \in Calls :
       \/ CallTool(c)
       \/ CallForwarded(c)
       \/ CallFindsClosed(c)
       \/ Calling(c)
  \/ TokenNotRefreshed

\* An owner opens or fails, and closes when it is told to; who waits for it goes
\* on, at the latest when its time is over.
Fairness ==
  /\ \A o \in Owners : WF_sharedVars(Owner(o))
  /\ \A p \in Sessions \union Calls : WF_sharedVars(Gettings(p)) /\ WF_sharedVars(Opening(p))
  /\ \A s \in Sessions : WF_sharedVars(ClosedBySession(s))
  /\ \A c \in Calls : WF_sharedVars(Calling(c))
  /\ WF_sharedVars(ClosedByConfig)

Spec == Init /\ [][Next]_sharedVars /\ Fairness

-----------------------------------------------------------------------------
(* Properties.                                                             *)

\* The variables keep their shape, and who works on a connection has one.
TypeOK ==
  /\ cfg \in {"enabled", "disabled", "deleted"}
  /\ conn \in Conns \union {None}
  /\ refs \in [Conns -> Int] /\ draining \in [Conns -> BOOLEAN]
  /\ cur \in [Conns -> Owners \union {None}] /\ sess \in [Conns -> Owners \union {None}]
  /\ phase \in [Owners -> {"opening", "open", "gone"}]
  /\ ready \subseteq Owners /\ told \subseteq Owners /\ of \in [Owners -> Conns]
  /\ openLock \in Procs \union {None} /\ recLock \in [Conns -> Procs \union {None}]
  /\ count \in Nat
  /\ at \in [Procs -> Quiet \union Working]
  /\ on \in [Procs -> Conns \union {None}] /\ own \in [Procs -> Owners \union {None}]
  /\ \A p \in Procs : /\ at[p] \in Working => on[p] # None
                      /\ at[p] \in {"opening", "closing"} => own[p] # None
  /\ holds \in [Sessions -> Conns \union {None}]
  /\ kept \in Nat
  /\ ending \in {"none", "disabled", "deleted"} /\ mixed \in BOOLEAN

\* The client of a connection is one whose transport is open: an owner that
\* ends or belongs to an earlier generation never leaves its client behind or
\* takes away that of another (the generations of issue #1505).
ClientIsOpen ==
  \A k \in Conns : sess[k] # None =>
    /\ phase[sess[k]] = "open" /\ of[sess[k]] = k
    /\ cur[k] = sess[k]

\* A connection has as many references as there are sessions that use it, and
\* those that a session has kept which was restarted, or ended without naming
\* the server itself or while it was disabled.  All who use it use the one in
\* the table: neither calls, nor the refresh of the token, nor a server that is
\* disabled and enabled again change that.
RefsCountSessions ==
  ~ mixed =>
    /\ \A s \in Sessions : Using(s) => holds[s] = conn
    /\ conn # None => refs[conn] = Cardinality({s \in Sessions : Using(s)}) + kept

\* The task that refreshes the token is in the table exactly while sessions are
\* counted that use it: the last one to let go cancels it, whatever the order in
\* which sessions start, fail, restart and end.
RefreshedWhileUsed == count = 0 <=> at[Refresher] = "none"

=============================================================================
