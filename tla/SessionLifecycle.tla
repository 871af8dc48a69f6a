-------------------------- MODULE SessionLifecycle --------------------------
(***************************************************************************)
(* One session and its SDK clients: the state machine of                   *)
(* src/session_manager.py, the operations of src/session_coordinator.py    *)
(* that drive it, and the client of src/claude_sdk.py they start and stop. *)
(*                                                                         *)
(* The server is one asyncio loop, so a step here is what a task does      *)
(* between two points where it really waits: for the client's conversation *)
(* task to end, for a sleep to pass, for the outside calls that prepare a  *)
(* client.  Between these points another operation on the same session may *)
(* begin: the coordinator takes no lock.  SessionManager does, but only    *)
(* terminate_session waits while it holds it.                              *)
(***************************************************************************)
EXTENDS Naturals, Sequences, FiniteSets

CONSTANTS Callers,   \* the tasks that call the coordinator
          Tasks,     \* those of them that look at the result of the call
          Clients,   \* ClaudeSDK objects; one that has ended is used again
          NoClient,
          Messages,
          MaxInbox   \* bound: messages that wait in one client

ASSUME CallersAssumption == Tasks \subseteq Callers
ASSUME NoClientAssumption == NoClient \notin Clients
ASSUME MaxInboxAssumption == MaxInbox \in Nat

VARIABLES st,         \* SessionInfo.state
          processing, \* SessionInfo.is_processing
          reg,        \* _active_sdks[session_id]
          info,       \* per client: sdk.info.state; FAILED or TERMINATED is "over"
          conv,       \* per client: its _conversation_task
          shut,       \* per client: _shutdown_event is set
          inbox,      \* per client: _message_queue
          asking,     \* the clients that wait for the answer to a permission
          at,         \* per caller: where its operation is
          kind,       \* per caller: the operation
          on,         \* per caller: the client its operation waits for
          disturbed   \* history, see Disturbs
sessionVars == <<st, processing, reg>>
clientVars == <<info, conv, shut, inbox, asking>>
callVars == <<at, kind, on>>
lifeVars == <<sessionVars, clientVars, callVars, disturbed>>

States == {"created", "starting", "active", "paused", "terminating", "terminated", "error"}
Startable == {"created", "paused", "terminated"}
AutoStart == {"created", "terminated"}

Results == {"yes", "no", "raised"}
Resting == {"idle"} \union Results
Places == Resting \union
          {"prepare", "undo", "stop", "closing", "disconnect", "settle"}
Kinds == {"none", "start", "terminate", "restart", "reset"}

\* A task holds the session's lock while it sleeps.
Locked == \E c \in Callers : at[c] = "closing"
Live(k) == conv[k] \in {"entering", "looping"}
Busy == {c \in Callers : at[c] \notin Resting}
Users == Callers \ Tasks

-----------------------------------------------------------------------------
(* What happens to the calls.                                              *)

\* The promises below are about a session nobody has disturbed: no operation
\* began before the one before it had ended, none found a paused session's
\* client still running, and no client reported its failure when another had
\* taken its place or was about to.
Disturbs(cond) == disturbed' = (disturbed \/ cond)

Waits(c, call, place, k) ==
  /\ kind' = [kind EXCEPT ![c] = call]
  /\ at' = [at EXCEPT ![c] = place]
  /\ on' = [on EXCEPT ![c] = k]
Returns(c, result) ==
  Waits(c, "none", IF c \in Tasks THEN result ELSE "idle", NoClient)
Begins(c) == at[c] = "idle" /\ ~ Locked

\* coordinator.start_session up to the calls that prepare the client, for a
\* session in state s with the client k.
TryStart(c, call, s, k) ==
  LET running == k # NoClient /\ info[k] = "running" IN
  /\ reg' = k
  /\ IF s \notin Startable
     THEN st' = s /\ UNCHANGED processing /\ Returns(c, "no")
     ELSE /\ st' = "starting" /\ processing' = FALSE
          /\ IF running THEN Returns(c, "yes") ELSE Waits(c, call, "prepare", NoClient)
  /\ Disturbs(Busy \ {c} # {} \/ (s \in Startable /\ running))

Start(c) ==
  /\ Begins(c)
  /\ TryStart(c, "start", st, reg)
  /\ UNCHANGED clientVars

\* A client that has ended and that nobody refers to.
Fresh(k) == conv[k] = "ended" /\ k # reg /\ \A c \in Callers : on[c] # k

\* The rest of start_session: a new client takes the place of any other.
Launch(c, k) ==
  /\ at[c] = "prepare" /\ Fresh(k)
  /\ reg' = k
  /\ info' = [info EXCEPT ![k] = "starting"]
  /\ conv' = [conv EXCEPT ![k] = "entering"]
  /\ shut' = [shut EXCEPT ![k] = FALSE]
  /\ Returns(c, "yes")
  /\ UNCHANGED <<st, processing, inbox, asking, disturbed>>

\* sdk.start returns False.
StartupFails(c) ==
  /\ at[c] = "prepare" /\ ~ Locked
  /\ st' = "error" /\ processing' = FALSE /\ reg' = NoClient
  /\ Returns(c, "no")
  /\ UNCHANGED <<clientVars, disturbed>>

\* The preparation raises: the client that is there by then is terminated.
PrepareFails(c) ==
  /\ at[c] = "prepare" /\ ~ Locked
  /\ st' = "error" /\ processing' = FALSE
  /\ IF reg = NoClient
     THEN Returns(c, "no") /\ UNCHANGED <<info, shut>>
     ELSE /\ info' = [info EXCEPT ![reg] = "over"]
          /\ shut' = [shut EXCEPT ![reg] = TRUE]
          /\ Waits(c, kind[c], "undo", reg)
  /\ UNCHANGED <<reg, conv, inbox, asking, disturbed>>

\* del _active_sdks[session_id] raises when there is nothing left to delete:
\* in reset_session and restart_session, which catch it, and out of start_session.
Undone(c) ==
  /\ at[c] = "undo" /\ conv[on[c]] = "ended"
  /\ reg' = NoClient
  /\ Returns(c, IF reg = NoClient /\ kind[c] = "start" THEN "raised" ELSE "no")
  /\ UNCHANGED <<st, processing, clientVars, disturbed>>

-----------------------------------------------------------------------------
(* coordinator.terminate_session                                           *)

\* session_manager.terminate_session, which sleeps while it holds the lock.
Close(c) ==
  IF st = "terminated"
  THEN Returns(c, "yes") /\ UNCHANGED st
  ELSE Waits(c, "terminate", "closing", NoClient) /\ st' = "terminating"

\* Faulty: processing is not reset; the client is not told to stop.
TerminateBusy(c) ==
  /\ Begins(c)
  /\ Disturbs(Busy # {})
  /\ IF reg = NoClient
     THEN Close(c) /\ UNCHANGED <<info, shut>>
     ELSE /\ info' = [info EXCEPT ![reg] = "over"]
          /\ shut' = [shut EXCEPT ![reg] = TRUE]
          /\ Waits(c, "terminate", "stop", reg)
          /\ UNCHANGED st
  /\ UNCHANGED <<processing, reg, conv, inbox, asking>>
Terminate(c) ==
  /\ Begins(c)
  /\ processing' = FALSE
  /\ Disturbs(Busy # {})
  /\ IF reg = NoClient
     THEN Close(c) /\ UNCHANGED <<info, shut>>
     ELSE /\ info' = [info EXCEPT ![reg] = "over"]
          /\ shut' = [shut EXCEPT ![reg] = TRUE]
          /\ Waits(c, "terminate", "stop", reg)
          /\ UNCHANGED st
  /\ UNCHANGED <<reg, conv, inbox, asking>>

StopDone(c) ==
  /\ at[c] = "stop" /\ conv[on[c]] = "ended" /\ ~ Locked
  /\ reg' = NoClient
  /\ IF reg = NoClient THEN Returns(c, "no") /\ UNCHANGED st ELSE Close(c)
  /\ UNCHANGED <<processing, clientVars, disturbed>>

CloseDone(c) ==
  /\ at[c] = "closing"
  /\ st' = "terminated"
  /\ Returns(c, "yes")
  /\ UNCHANGED <<processing, reg, clientVars, disturbed>>

-----------------------------------------------------------------------------
(* coordinator.restart_session and reset_session                           *)

\* Faulty: the client is replaced without being disconnected.
DisconnectNot(c, call) ==
  /\ reg # NoClient
  /\ Waits(c, call, "settle", NoClient)
  /\ Disturbs(Busy # {})
  /\ st' = "terminated"
  /\ UNCHANGED <<processing, reg, info, conv, shut, inbox, asking>>

Disconnect(c, call) ==
  /\ reg # NoClient
  /\ shut' = [shut EXCEPT ![reg] = TRUE]
  /\ Waits(c, call, "disconnect", reg)
  /\ Disturbs(Busy # {})
  /\ UNCHANGED <<sessionVars, info, conv, inbox, asking>>

Restart(c) ==
  /\ Begins(c)
  /\ \/ Disconnect(c, "restart")
     \/ /\ reg = NoClient
        /\ TryStart(c, "restart", "terminated", NoClient)
        /\ UNCHANGED clientVars

\* What reset_session does once the client is gone: a session in error is made
\* startable, its history and its queue file are emptied, it is started.
ClearAndStart(c) ==
  TryStart(c, "reset", IF st = "error" THEN "terminated" ELSE st, NoClient)

Reset(c) ==
  /\ Begins(c)
  /\ \/ Disconnect(c, "reset")
     \/ /\ reg = NoClient
        /\ ClearAndStart(c)
        /\ UNCHANGED clientVars

Disconnected(c) ==
  /\ at[c] = "disconnect" /\ conv[on[c]] = "ended" /\ ~ Locked
  /\ st' = "terminated"
  /\ Waits(c, kind[c], "settle", NoClient)
  /\ UNCHANGED <<processing, reg, clientVars, disturbed>>

\* The sleep after the disconnection is over; del raises when another task has
\* deleted the client in the meantime.
SettleFails(c) ==
  /\ at[c] = "settle" /\ reg = NoClient
  /\ Returns(c, "no")
  /\ UNCHANGED <<sessionVars, clientVars, disturbed>>

\* The object the session lets go of.
LetsGo(k) ==
  /\ info' = [info EXCEPT ![k] = IF conv[k] = "ended" THEN "over" ELSE @]
  /\ UNCHANGED <<conv, shut, inbox, asking>>

RestartSettled(c) ==
  /\ at[c] = "settle" /\ kind[c] = "restart" /\ reg # NoClient /\ ~ Locked
  /\ TryStart(c, "restart", st, NoClient)
  /\ LetsGo(reg)

ResetSettled(c) ==
  /\ at[c] = "settle" /\ kind[c] = "reset" /\ reg # NoClient /\ ~ Locked
  /\ ClearAndStart(c)
  /\ LetsGo(reg)

-----------------------------------------------------------------------------
(* The client: _message_processing_loop and the task that reads its output *)

\* The last open request of the session to be answered makes it active again.
NoMoreAsking(k) == asking' = asking \ {k}

\* The event of a task that has ended is no longer looked at.
Ends(k) ==
  /\ conv' = [conv EXCEPT ![k] = "ended"]
  /\ shut' = [shut EXCEPT ![k] = TRUE]
  /\ inbox' = [inbox EXCEPT ![k] = <<>>]
  /\ NoMoreAsking(k)

\* Faulty: the state of the session is left as it is.
ReportsQuietly(k) ==
  /\ ~ Locked
  /\ processing' = FALSE /\ reg' = NoClient
  /\ Disturbs(reg \notin {NoClient, k} \/ \E c \in Callers : at[c] = "prepare")
  /\ UNCHANGED st

\* The error callback of the session.  It does not ask whose client it removes.
ReportsFailure(k) ==
  /\ ~ Locked
  /\ st' = "error" /\ processing' = FALSE
  /\ reg' = NoClient
  /\ Disturbs(reg \notin {NoClient, k} \/ \E c \in Callers : at[c] = "prepare")

\* Faulty: the session is not told that its client is ready.
EnterUntold(k) ==
  /\ conv[k] = "entering" /\ info[k] = "starting" /\ ~ Locked
  /\ info' = [info EXCEPT ![k] = "running"]
  /\ conv' = [conv EXCEPT ![k] = "looping"]
  /\ UNCHANGED <<sessionVars, shut, inbox, asking, callVars, disturbed>>

Enter(k) ==
  /\ conv[k] = "entering" /\ info[k] = "starting" /\ ~ Locked
  /\ info' = [info EXCEPT ![k] = "running"]
  /\ conv' = [conv EXCEPT ![k] = "looping"]
  /\ st' = IF st = "starting" THEN "active" ELSE st
  /\ UNCHANGED <<processing, reg, shut, inbox, asking, callVars, disturbed>>

\* The conversation task raises: the client does not start, or its
\* disconnection fails.
ConversationFails(k) ==
  /\ \/ conv[k] = "entering" /\ info[k] = "starting"
     \/ conv[k] = "looping" /\ shut[k]
  /\ info' = [info EXCEPT ![k] = "over"]
  /\ Ends(k)
  /\ ReportsFailure(k)
  /\ UNCHANGED callVars

\* The reader raises and reports it.  It is found dead within a second, and
\* reported once more.
ReaderFails(k) ==
  /\ conv[k] = "looping" /\ ~ shut[k]
  /\ info' = [info EXCEPT ![k] = "over"]
  /\ conv' = [conv EXCEPT ![k] = "dying"]
  /\ ReportsFailure(k)
  /\ UNCHANGED <<shut, inbox, asking, callVars>>

ReaderFoundDead(k) ==
  /\ conv[k] \in {"looping", "dying"} /\ ~ shut[k]
  /\ info' = [info EXCEPT ![k] = "over"]
  /\ Ends(k)
  /\ ReportsFailure(k)
  /\ UNCHANGED callVars

\* The task sees the event, or is cancelled.
Exits(k) ==
  /\ conv[k] # "ended" /\ shut[k]
  /\ Ends(k)
  /\ UNCHANGED <<sessionVars, info, callVars, disturbed>>

\* One more message may be taken when the event is set: the task then ends.
Deliver(k) ==
  /\ conv[k] = "looping" /\ info[k] = "running" /\ inbox[k] # <<>>
  /\ IF shut[k] THEN Ends(k)
     ELSE /\ inbox' = [inbox EXCEPT ![k] = Tail(@)]
          /\ UNCHANGED <<conv, shut, asking>>
  /\ processing' \in {processing, processing /\ Locked} \* the query may raise
  /\ UNCHANGED <<st, reg, info, callVars, disturbed>>

\* An assistant message, or the result that ends the turn.
Respond(k) ==
  /\ conv[k] = "looping" /\ ~ shut[k] /\ ~ Locked
  /\ processing' \in BOOLEAN
  /\ UNCHANGED <<st, reg, clientVars, callVars, disturbed>>

\* A tool needs a permission: the session is paused until it is answered.
Ask(k) ==
  /\ conv[k] = "looping" /\ info[k] = "running" /\ k \notin asking /\ ~ Locked
  /\ asking' = asking \union {k}
  /\ st' = IF st = "active" /\ asking = {} THEN "paused" ELSE st
  /\ UNCHANGED <<processing, reg, info, conv, shut, inbox, callVars, disturbed>>

Answer(k) ==
  /\ k \in asking /\ ~ Locked
  /\ NoMoreAsking(k)
  /\ st' = IF st = "paused" /\ asking = {k} THEN "active" ELSE st
  /\ UNCHANGED <<processing, reg, info, conv, shut, inbox, callVars, disturbed>>

-----------------------------------------------------------------------------
(* Messages, interrupts, and the server.                                   *)

Accepts == reg # NoClient /\ info[reg] = "running"

Send(m) ==
  /\ reg # NoClient /\ ~ Locked
  /\ processing' = Accepts
  /\ IF Accepts
     THEN /\ Len(inbox[reg]) < MaxInbox
          /\ inbox' = [inbox EXCEPT ![reg] = Append(@, m)]
     ELSE UNCHANGED inbox
  /\ UNCHANGED <<st, reg, info, conv, shut, asking, callVars, disturbed>>

Interrupt ==
  /\ reg # NoClient /\ (st = "active" \/ processing) /\ ~ Locked
  /\ processing' = FALSE
  /\ UNCHANGED <<st, reg, clientVars, callVars, disturbed>>

All(S, v) == [x \in S |-> v]

\* The server dies and is started again: _load_existing_sessions.
Reboot ==
  /\ st' = CASE st \in {"active", "starting"} -> "created"
             [] st = "paused" -> "terminated"
             [] OTHER -> st
  /\ processing' = FALSE /\ reg' = NoClient
  /\ at' = All(Callers, "idle") /\ kind' = All(Callers, "none")
  /\ on' = All(Callers, NoClient)
  /\ info' = All(Clients, "over") /\ conv' = All(Clients, "ended")
  /\ shut' = All(Clients, TRUE) /\ inbox' = All(Clients, <<>>)
  /\ asking' = {}
  /\ disturbed' = FALSE

-----------------------------------------------------------------------------
Init ==
  /\ st = "created" /\ processing = FALSE /\ reg = NoClient
  /\ at = All(Callers, "idle") /\ kind = All(Callers, "none")
  /\ on = All(Callers, NoClient)
  /\ info = All(Clients, "over") /\ conv = All(Clients, "ended")
  /\ shut = All(Clients, TRUE) /\ inbox = All(Clients, <<>>)
  /\ asking = {}
  /\ disturbed = FALSE

Continues(c) ==
  \/ \E k \in Clients : Launch(c, k)
  \/ StartupFails(c)
  \/ PrepareFails(c)
  \/ Undone(c)
  \/ StopDone(c)
  \/ CloseDone(c)
  \/ Disconnected(c)
  \/ SettleFails(c)
  \/ RestartSettled(c)
  \/ ResetSettled(c)

ClientStep(k) ==
  \/ Enter(k)
  \/ ConversationFails(k)
  \/ ReaderFails(k)
  \/ ReaderFoundDead(k)
  \/ Exits(k)
  \/ Deliver(k)
  \/ Respond(k)
  \/ Ask(k)
  \/ Answer(k)

Next ==
  \/ \E c \in Callers : \/ Start(c) \/ Terminate(c) \/ Restart(c) \/ Reset(c)
                        \/ Continues(c)
  \/ \E k \in Clients : ClientStep(k)
  \/ \E m \in Messages : Send(m)
  \/ Interrupt
  \/ Reboot

\* The loop runs every task that can go on: sleeps end, the calls that prepare
\* a client return or raise, a client that is started gets ready or fails, and
\* one that is told to stop is cancelled after five seconds.  The lock is handed
\* on in the order it is asked for, so nobody waits for it for ever (SF).
Fairness ==
  /\ \A c \in Callers : SF_lifeVars(Continues(c))
  /\ \A k \in Clients : /\ WF_lifeVars(Enter(k) \/ ConversationFails(k))
                        /\ WF_lifeVars(Exits(k))
                        /\ WF_lifeVars(conv[k] = "dying" /\ ReaderFoundDead(k))
                        /\ WF_lifeVars(Deliver(k))

Spec == Init /\ [][Next]_lifeVars /\ Fairness

-----------------------------------------------------------------------------
\* The variables keep their shape; a caller that waits for a client has one.
TypeOK ==
  /\ st \in States /\ processing \in BOOLEAN
  /\ reg \in Clients \union {NoClient}
  /\ info \in [Clients -> {"starting", "running", "over"}]
  /\ conv \in [Clients -> {"entering", "looping", "dying", "ended"}]
  /\ shut \in [Clients -> BOOLEAN]
  /\ inbox \in [Clients -> Seq(Messages)]
  /\ asking \subseteq Clients
  /\ at \in [Callers -> Places]
  /\ kind \in [Callers -> Kinds]
  /\ on \in [Callers -> Clients \union {NoClient}]
  /\ \A c \in Callers :
       /\ at[c] \in {"undo", "stop", "disconnect"} <=> on[c] # NoClient
       /\ at[c] \in Resting <=> kind[c] = "none"
  /\ disturbed \in BOOLEAN

\* No client is leaked: the process of a client the session has lost track of
\* is never left running (start, restart, reset and the error callback).
NoClientLeaks ==
  ~ disturbed => \A k \in Clients : Live(k) => k = reg

\* A session that shows as active or paused has a client that answers, unless
\* it is being stopped.
ActiveHasClient ==
  ~ disturbed /\ st \in {"active", "paused"} =>
    /\ reg # NoClient
    /\ shut[reg] \/ (Live(reg) /\ info[reg] = "running")

\* A session with no operation under way that was never started, or has ended, has
\* no client and is not processing; one that shows as starting has one that is.
Down == {"created", "terminated", "error"}
AtRest ==
  ~ disturbed /\ Busy = {} =>
    /\ st \in Down => reg = NoClient /\ ~ processing
    /\ st = "starting" => reg # NoClient /\ conv[reg] = "entering"

\* A session does not stay in the state starting.
StartingEnds ==
  st = "starting" /\ ~ disturbed ~> st # "starting" \/ disturbed

=============================================================================
