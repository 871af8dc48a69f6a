----------------------------- MODULE Permissions -----------------------------
(***************************************************************************)
(* The tool calls of several sessions and the requests for permission to   *)
(* run them: src/permission_service.py, the tool calls kept by             *)
(* src/session_coordinator.py and src/web_server.py, and the endpoints of  *)
(* src/routers/core.py that answer and interrupt.                          *)
(*                                                                         *)
(* A tool call reaches the server twice: in the stream of messages, which  *)
(* creates it, and as a request for permission, whose callback looks for   *)
(* the call by its id and else by its signature (name and first input).    *)
(* The request of the tool call t is named t too.  A step is what a task   *)
(* does between two waits of the asyncio loop.                             *)
(***************************************************************************)
EXTENDS Naturals, Sequences, FiniteSets, SequencesExt

CONSTANTS Sessions,
          Tools,        \* tool calls, each used once
          Home,         \* per tool call: its session
          Sig,          \* per tool call: its signature
          Together,     \* bound: the sets of tool calls that are used together
          Interruptible, \* bound: the sessions the user may interrupt
          Endings,      \* bound: per session, the operations that end its client
          None

ASSUME HomeAssumption == Home \in [Tools -> Sessions]
ASSUME SigAssumption == DOMAIN Sig = Tools
ASSUME TogetherAssumption == Together \subseteq SUBSET Tools
ASSUME InterruptibleAssumption == Interruptible \subseteq Sessions
ASSUME EndingsAssumption ==
  Endings \in [Sessions -> SUBSET {"user", "minion", "restart", "reset", "failure"}]
ASSUME NoneAssumption == None \notin Tools

VARIABLES st,       \* per session: SessionInfo.state
          stage,    \* per session: whether its client is up, ending or down
          how,      \* per session: what ends its client
          stopping, \* the sessions whose client is being interrupted
          orphans,  \* tool calls of failed clients whose callbacks are not cancelled yet
          haunted,  \* sessions that were started while a request was still open
          stream,   \* per session: messages of the client not yet processed
          call,     \* per tool call: ToolCall.status
          active,   \* per session: _active_tool_calls, in order of creation
          emitted,  \* _emitted_message_ids, by the tool calls they brought
          place,    \* per tool call: where its permission callback is
          heard,    \* the callbacks whose event has been set
          target,   \* per request: the tool call it was shown at
          verdict,  \* per request: the result of its future
          open,     \* per session: pending_by_session
          pending,  \* the keys of pending_permissions
          prompt    \* per tool call: the request the browser shows for it
failVars == <<orphans, haunted>>
clientVars == <<stage, how, stopping, failVars>>
sessionVars == <<st, clientVars>>
callVars == <<stream, call, active, emitted>>
requestVars == <<place, heard, target, verdict, open, pending, prompt>>
permVars == <<sessionVars, callVars, requestVars>>

Askable == {"pending", "awaiting"}
Looking == {"byId", "bySig", "barrier"}
Denials == {"deny", "dropped"}

Of(s) == {t \in Tools : Home[t] = s}
IsActive(t) == Contains(active[Home[t]], t)
Without(t) ==
  LET at == CHOOSE i \in DOMAIN active[Home[t]] : active[Home[t]][i] = t
  IN IF IsActive(t) THEN [active EXCEPT ![Home[t]] = RemoveAt(@, at)] ELSE active
Asking(t) == place[t] \in Looking \union {"waiting"}

\* find_tool_call_by_signature: the newest call that still may be asked about.
Found(t) ==
  LET known == active[Home[t]]
      same == {i \in DOMAIN known : Sig[known[i]] = Sig[t] /\ call[known[i]] \in Askable}
      newest == {i \in same : \A j \in same : j <= i}
  IN IF newest = {} THEN None ELSE known[CHOOSE i \in newest : TRUE]

ByIdOrSig(t) == IF IsActive(t) THEN t ELSE Found(t)

-----------------------------------------------------------------------------
(* The client: it uses a tool, asks whether it may, and reports the result. *)

Uses(t) ==
  /\ stage[Home[t]] = "up" /\ place[t] = "unused"
  /\ place' = [place EXCEPT ![t] = "used"]
  /\ stream' = [stream EXCEPT ![Home[t]] = Append(@, <<"use", t>>)]
  /\ UNCHANGED <<sessionVars, call, active, emitted,
                 heard, target, verdict, open, pending, prompt>>

\* The tool has run, or was refused; one that needs no permission never asks.
Reports(t) ==
  /\ stage[Home[t]] = "up" /\ place[t] \in {"used", "done"} /\ t \notin orphans
  /\ place' = [place EXCEPT ![t] = "over"]
  /\ stream' = [stream EXCEPT ![Home[t]] = Append(@, <<"result", t>>)]
  /\ UNCHANGED <<sessionVars, call, active, emitted,
                 heard, target, verdict, open, pending, prompt>>

-----------------------------------------------------------------------------
(* The stream.                                                             *)

Comes(s, what, t) ==
  stage[s] # "down" /\ stream[s] # <<>> /\ Head(stream[s]) = <<what, t>>
Consume(s) == stream' = [stream EXCEPT ![s] = Tail(@)]

\* The message is put in the queue of the browser, marked as emitted, and its
\* tool call created, which wakes the callbacks that look for one.
HandleUse(t) ==
  LET s == Home[t] IN
  /\ Comes(s, "use", t) /\ Consume(s)
  /\ emitted' = emitted \union {t}
  /\ call' = [call EXCEPT ![t] = "pending"]
  /\ active' = [active EXCEPT ![s] = Append(@, t)]
  /\ heard' = heard \union {k \in Of(s) : place[k] \in {"byId", "bySig"}}
  /\ UNCHANGED <<sessionVars, place, target, verdict, open, pending, prompt>>

\* update_tool_call_result, for a call that is still active.
HandleResult(t) ==
  LET s == Home[t] IN
  /\ Comes(s, "result", t) /\ Consume(s)
  /\ \E outcome \in {"completed", "failed"} :
       call' = IF IsActive(t) THEN [call EXCEPT ![t] = outcome] ELSE call
  /\ active' = Without(t)
  /\ UNCHANGED <<sessionVars, emitted, requestVars>>

\* mark_session_tools_interrupted.
InterruptTools(s) ==
  /\ call' = [t \in Tools |-> IF Home[t] = s /\ IsActive(t) THEN "interrupted" ELSE call[t]]
  /\ active' = [active EXCEPT ![s] = <<>>]

-----------------------------------------------------------------------------
(* The permission callback.                                                *)

\* The prompt is shown at the call k, if k is still active; either way the
\* request is open from now on, and the first one pauses the session.
AskAt(t, k) ==
  LET s == Home[t] IN
  /\ call' = IF IsActive(k) THEN [call EXCEPT ![k] = "awaiting"] ELSE call
  /\ prompt' = IF IsActive(k) THEN [prompt EXCEPT ![k] = t] ELSE prompt
  /\ target' = [target EXCEPT ![t] = k]
  /\ open' = [open EXCEPT ![s] = @ \union {t}]
  /\ st' = IF open[s] = {} /\ st[s] = "active" THEN [st EXCEPT ![s] = "paused"] ELSE st
  /\ pending' = pending \union {t}
  /\ place' = [place EXCEPT ![t] = "waiting"]

\* The tool call k is found: its message is to be emitted before the prompt.
Show(t, k) ==
  /\ IF k \in emitted
     THEN AskAt(t, k)
     ELSE /\ target' = [target EXCEPT ![t] = k]
          /\ place' = [place EXCEPT ![t] = "barrier"]
          /\ UNCHANGED <<st, call, prompt, open, pending>>
  /\ UNCHANGED <<clientVars, stream, active, emitted, verdict>>

LooksOn(t, where) ==
  /\ place' = [place EXCEPT ![t] = where]
  /\ UNCHANGED <<sessionVars, callVars, target, verdict, open, pending, prompt>>

Ask(t) ==
  /\ stage[Home[t]] = "up" /\ place[t] = "used"
  /\ IF IsActive(t) THEN Show(t, t) ELSE LooksOn(t, "byId")
  /\ heard' = heard \ {t}

\* One wait, which the creation of any call of the session ends, or a timeout.
EndOfIdWait(t) ==
  /\ place[t] = "byId" /\ heard' = heard \ {t}
  /\ IF ByIdOrSig(t) # None THEN Show(t, ByIdOrSig(t)) ELSE LooksOn(t, "bySig")

SignatureHeard(t) ==
  /\ place[t] = "bySig" /\ t \in heard /\ heard' = heard \ {t}
  /\ IF Found(t) # None THEN Show(t, Found(t)) ELSE LooksOn(t, "bySig")

\* No call was found: the request is denied without a prompt.
SignatureTimeout(t) ==
  /\ place[t] = "bySig" /\ heard' = heard \ {t}
  /\ place' = [place EXCEPT ![t] = "done"]
  /\ verdict' = [verdict EXCEPT ![t] = "unasked"]
  /\ UNCHANGED <<sessionVars, callVars, target, open, pending, prompt>>

\* The wait for the message to be emitted ends, at the latest by its timeout.
EndOfBarrier(t) ==
  /\ place[t] = "barrier"
  /\ AskAt(t, target[t])
  /\ UNCHANGED <<clientVars, stream, active, emitted, heard, verdict>>

\* Faulty: an answer resumes the session whatever else is open.
ResumeAlways(s, left) ==
  st' = IF st[s] = "paused" THEN [st EXCEPT ![s] = "active"] ELSE st

\* Faulty: the session is resumed before the request is taken off.
ResumeFirst(s, left) ==
  st' = IF open[s] = {} /\ st[s] = "paused" THEN [st EXCEPT ![s] = "active"] ELSE st

\* _maybe_resume_session, with the requests left open.
Resume(s, left) ==
  st' = IF left = {} /\ st[s] = "paused" THEN [st EXCEPT ![s] = "active"] ELSE st

\* Faulty: a denied request leaves the status of its call to the result.
RespondLate(t) ==
  LET k == ByIdOrSig(t) IN
  /\ call' = IF k = None THEN call ELSE [call EXCEPT ![k] = "running"]
  /\ UNCHANGED active

\* The call that is told the answer is looked for again.
Respond(t) ==
  LET k == ByIdOrSig(t) IN
  IF k = None THEN UNCHANGED <<call, active>>
  ELSE IF verdict[t] = "allow"
       THEN call' = [call EXCEPT ![k] = "running"] /\ UNCHANGED active
       ELSE call' = [call EXCEPT ![k] = "denied"] /\ active' = Without(k)

\* The callback goes on with the result of its future.
Answered(t) ==
  LET s == Home[t] IN
  /\ place[t] = "waiting" /\ verdict[t] # "none"
  /\ open' = [open EXCEPT ![s] = @ \ {t}]
  /\ Resume(s, open[s] \ {t})
  /\ Respond(t)
  /\ place' = [place EXCEPT ![t] = "done"]
  /\ target' = [target EXCEPT ![t] = None]
  /\ UNCHANGED <<clientVars, stream, emitted, heard, verdict,
                 pending, prompt>>

-----------------------------------------------------------------------------
(* The user.                                                               *)

Shown(t) == \E k \in Tools : prompt[k] = t /\ call[k] = "awaiting"
Undecided(t) == place[t] = "waiting" /\ verdict[t] = "none"
Decide(requests, v) ==
  verdict' = [t \in Tools |-> IF t \in requests /\ Undecided(t) THEN v ELSE verdict[t]]

\* A request the browser shows is answered; one whose callback was cancelled
\* is only forgotten.
Answer(t, v) ==
  /\ Shown(t) /\ t \in pending
  /\ pending' = pending \ {t}
  /\ Decide({t}, v)
  /\ UNCHANGED <<sessionVars, callVars, place, heard, target, open, prompt>>

\* A paused session that is interrupted has the requests of every session
\* denied.
Interrupt(s) ==
  /\ s \in Interruptible /\ stage[s] = "up" /\ s \notin stopping
  /\ stopping' = stopping \union {s}
  /\ IF st[s] = "paused"
     THEN /\ Decide(pending, "deny")
          /\ pending' = {t \in pending : ~ Undecided(t)}
          /\ open' = [q \in Sessions |-> {}]
     ELSE UNCHANGED <<verdict, pending, open>>
  /\ UNCHANGED <<st, stage, how, failVars, callVars, place, heard, target, prompt>>

InterruptSucceeds(s) ==
  /\ s \in stopping /\ stopping' = stopping \ {s}
  /\ InterruptTools(s)
  /\ UNCHANGED <<st, stage, how, failVars, stream, emitted, requestVars>>

InterruptFails(s) ==
  /\ s \in stopping /\ stopping' = stopping \ {s}
  /\ UNCHANGED <<st, stage, how, failVars, callVars, requestVars>>

-----------------------------------------------------------------------------
(* The client is ended.                                                    *)

Ends(s, by) ==
  /\ stage[s] = "up" /\ by \in Endings[s]
  /\ stage' = [stage EXCEPT ![s] = "ending"]
  /\ how' = [how EXCEPT ![s] = by]

\* Faulty: the requests of every session are denied.
CleanupEverything(s) ==
  /\ Decide(pending, "dropped")
  /\ pending' = {}
  /\ open' = [open EXCEPT ![s] = {}]

\* cleanup_pending_for_session.
Cleanup(s) ==
  /\ Decide(open[s], "dropped")
  /\ pending' = pending \ open[s]
  /\ open' = [open EXCEPT ![s] = {}]

\* By the user, whose request to terminate the session denies what it asks.
TerminateByUser(s) ==
  /\ Ends(s, "user")
  /\ Cleanup(s)
  /\ InterruptTools(s)
  /\ UNCHANGED <<st, stopping, failVars, stream, emitted, place, heard, target, prompt>>

\* By a minion or the scheduler, which do not.
TerminateByMinion(s) ==
  /\ Ends(s, "minion")
  /\ InterruptTools(s)
  /\ UNCHANGED <<st, stopping, failVars, stream, emitted, requestVars>>

\* A session that is restarted or reset keeps its tool calls.
EndForRestart(s) ==
  /\ \E by \in {"restart", "reset"} : Ends(s, by)
  /\ UNCHANGED <<st, stopping, failVars, callVars, requestVars>>

\* The calls of the client a session has now.
Served(s) == Of(s) \ orphans

\* The finally clause of the callbacks that are cancelled.
CancelledClosed(s) == open' = [open EXCEPT ![s] = @ \ Served(s)]

\* The client disconnects, which cancels its callbacks where they wait.
ClientEnds(s) ==
  LET cut == {t \in Served(s) : Asking(t)} IN
  /\ stage[s] = "ending"
  /\ stage' = [stage EXCEPT ![s] = "down"]
  /\ st' = [st EXCEPT ![s] = "terminated"]
  /\ stream' = [stream EXCEPT ![s] = <<>>]
  /\ emitted' = IF how[s] = "restart" THEN emitted ELSE emitted \ Of(s)
  /\ place' = [t \in Tools |-> IF t \in cut \/ (t \in Served(s) /\ place[t] \in {"used", "done"})
                               THEN "over" ELSE place[t]]
  /\ target' = [t \in Tools |-> IF t \in cut THEN None ELSE target[t]]
  /\ heard' = heard \ Served(s)
  /\ CancelledClosed(s)
  /\ UNCHANGED <<how, stopping, failVars, call, active, verdict, pending, prompt>>

-----------------------------------------------------------------------------
(* The client fails.                                                       *)

\* The error callback sets the state and gives the client up.  Its callbacks
\* wait on until the client's own task finds out and disconnects.
ClientFails(s) ==
  /\ stage[s] = "up" /\ "failure" \in Endings[s]
  /\ stage' = [stage EXCEPT ![s] = "down"]
  /\ st' = [st EXCEPT ![s] = "error"]
  /\ orphans' = orphans \union {t \in Of(s) : Asking(t)}
  /\ place' = [t \in Tools |-> IF t \in Served(s) /\ place[t] \in {"used", "done"}
                               THEN "over" ELSE place[t]]
  /\ stream' = [stream EXCEPT ![s] = <<>>]
  /\ UNCHANGED <<how, stopping, haunted, call, active, emitted,
                 heard, target, verdict, open, pending, prompt>>

\* A callback of a failed client is cancelled, if it has not ended before.
OrphanEnds(t) ==
  LET s == Home[t] IN
  /\ t \in orphans /\ orphans' = orphans \ {t}
  /\ open' = [open EXCEPT ![s] = @ \ {t}]
  /\ IF place[t] = "waiting" THEN Resume(s, open[s] \ {t}) ELSE UNCHANGED st
  /\ place' = [place EXCEPT ![t] = "over"]
  /\ target' = [target EXCEPT ![t] = None]
  /\ heard' = heard \ {t}
  /\ UNCHANGED <<stage, how, stopping, haunted, callVars, verdict, pending, prompt>>

\* The user terminates a session whose client has failed.
TerminateFailed(s) ==
  /\ st[s] = "error" /\ st' = [st EXCEPT ![s] = "terminated"]
  /\ Cleanup(s)
  /\ InterruptTools(s)
  /\ emitted' = emitted \ Of(s)
  /\ UNCHANGED <<clientVars, stream, place, heard, target, prompt>>

-----------------------------------------------------------------------------
(* The client is started.                                                  *)

\* A failed session is restarted or reset, which forgets what was emitted; the
\* requests of its failed client may be open still.
\* Bound: a session that has no tool to use any more is not started again.
Start(s) ==
  /\ stage[s] = "down" /\ \E t \in Of(s) : place[t] = "unused"
  /\ stage' = [stage EXCEPT ![s] = "up"]
  /\ how' = [how EXCEPT ![s] = "none"]
  /\ st' = [st EXCEPT ![s] = "active"]
  /\ haunted' = IF open[s] = {} THEN haunted \ {s} ELSE haunted \union {s}
  /\ \/ emitted' = emitted
     \/ st[s] = "error" /\ emitted' = emitted \ Of(s)
  /\ UNCHANGED <<stopping, orphans, stream, call, active, requestVars>>

\* A paused session may be started, but its client runs already: nothing but an
\* end of the client takes it out of this state again.
StartOver(s) ==
  /\ stage[s] = "up" /\ st[s] = "paused"
  /\ st' = [st EXCEPT ![s] = "starting"]
  /\ UNCHANGED <<clientVars, callVars, requestVars>>

-----------------------------------------------------------------------------
Init ==
  /\ \E used \in Together :
       LET up == {Home[t] : t \in used} IN
       /\ place = [t \in Tools |-> IF t \in used THEN "unused" ELSE "over"]
       /\ st = [s \in Sessions |-> IF s \in up THEN "active" ELSE "terminated"]
       /\ stage = [s \in Sessions |-> IF s \in up THEN "up" ELSE "down"]
  /\ how = [s \in Sessions |-> "none"]
  /\ stopping = {}
  /\ orphans = {} /\ haunted = {}
  /\ stream = [s \in Sessions |-> <<>>]
  /\ call = [t \in Tools |-> "none"]
  /\ active = [s \in Sessions |-> <<>>]
  /\ emitted = {}
  /\ heard = {}
  /\ target = [t \in Tools |-> None]
  /\ verdict = [t \in Tools |-> "none"]
  /\ open = [s \in Sessions |-> {}]
  /\ pending = {}
  /\ prompt = [t \in Tools |-> None]

Callback(t) ==
  \/ EndOfIdWait(t)
  \/ SignatureHeard(t)
  \/ SignatureTimeout(t)
  \/ EndOfBarrier(t)
  \/ Answered(t)

Next ==
  \/ \E t \in Tools :
       \/ Uses(t)
       \/ Reports(t)
       \/ Ask(t)
       \/ HandleUse(t)
       \/ HandleResult(t)
       \/ Callback(t)
       \/ OrphanEnds(t)
       \/ \E v \in {"allow", "deny"} : Answer(t, v)
  \/ \E s \in Sessions :
       \/ Interrupt(s)
       \/ InterruptSucceeds(s)
       \/ InterruptFails(s)
       \/ TerminateByUser(s)
       \/ TerminateByMinion(s)
       \/ EndForRestart(s)
       \/ ClientEnds(s)
       \/ ClientFails(s)
       \/ TerminateFailed(s)
       \/ Start(s)
       \/ StartOver(s)

\* The loop runs each task that can go on and every timeout passes; a client
\* that is told to end or has failed does; a user who sees a prompt answers it.
Fairness ==
  /\ \A t \in Tools : /\ WF_permVars(Callback(t))
                      /\ WF_permVars(OrphanEnds(t))
                      /\ WF_permVars(HandleUse(t) \/ HandleResult(t))
                      /\ WF_permVars(\E v \in {"allow", "deny"} : Answer(t, v))
  /\ \A s \in Sessions : /\ WF_permVars(ClientEnds(s))
                         /\ WF_permVars(InterruptSucceeds(s) \/ InterruptFails(s))

Spec == Init /\ [][Next]_permVars /\ Fairness

-----------------------------------------------------------------------------
(* Properties.                                                             *)

\* The variables keep their shape.
TypeOK ==
  /\ st \in [Sessions -> {"active", "paused", "starting", "error", "terminated"}]
  /\ stage \in [Sessions -> {"up", "ending", "down"}]
  /\ how \in [Sessions -> {"none", "user", "minion", "restart", "reset"}]
  /\ stopping \subseteq Sessions
  /\ orphans \subseteq Tools /\ haunted \subseteq Sessions
  /\ stream \in [Sessions -> Seq({"use", "result"} \X Tools)]
  /\ call \in [Tools -> {"none", "pending", "awaiting", "running", "denied",
                         "completed", "failed", "interrupted"}]
  /\ active \in [Sessions -> Seq(Tools)]
  /\ emitted \subseteq Tools /\ heard \subseteq Tools /\ pending \subseteq Tools
  /\ place \in [Tools -> {"unused", "used", "waiting", "done", "over"} \union Looking]
  /\ target \in [Tools -> Tools \union {None}]
  /\ verdict \in [Tools -> {"none", "allow", "unasked"} \union Denials]
  /\ open \in [Sessions -> SUBSET Tools]
  /\ prompt \in [Tools -> Tools \union {None}]

\* A session shows that it waits for the user as long as a request of it has
\* no answer, and only while one of its callbacks waits: the first of several
\* requests pauses it, the last one answered resumes it, whoever interrupts,
\* terminates or restarts it or another session in between (issue #1746).
\* Three things hide a request: the session is started while it is paused, the
\* client that asks has failed, or the session was started again after that
\* while a request was open, so that none of the new ones is the first.
PausedWhileAsked ==
  \A s \in Sessions :
    /\ st[s] = "paused" => \E t \in Of(s) : place[t] = "waiting"
    /\ (\E t \in Served(s) : Undecided(t))
         => st[s] \in {"paused", "starting"} \/ s \in haunted

\* No other tool call of its session looks like t.
Alone(t) == \A k \in Tools \ {t} : Sig[k] # Sig[t] \/ Home[k] # Home[t]

\* A tool call that no other one looks like has the status its own request was
\* answered with: it runs only if it was allowed, and is shown as denied only if
\* it was denied, whichever of stream, answer and interrupt comes first.
StatusFollowsAnswer ==
  \A t \in Tools : Alone(t) =>
    /\ call[t] = "running" => verdict[t] = "allow"
    /\ call[t] = "denied" => verdict[t] \in Denials

\* Terminating one session denies no request of another (issue #1754).
Terminating(s) ==
  stage'[s] = "ending" \/ (st[s] = "error" /\ st'[s] = "terminated")
OnlyOwnDropped ==
  [][\A t \in Tools : verdict'[t] = "dropped" /\ verdict[t] # "dropped"
                        => Terminating(Home[t])]_permVars

\* A session in which no two calls look alike and that is not interrupted does
\* not stay paused, if the user answers what is shown: no request is lost from
\* sight, and none is forgotten in the count of the open ones.
Calm(s) == s \notin Interruptible /\ \A t \in Of(s) : Alone(t)
PauseEnds ==
  \A s \in Sessions : Calm(s) => (st[s] = "paused" ~> st[s] # "paused")
================================================================================
