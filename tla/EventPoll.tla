----------------------------- MODULE EventPoll -----------------------------
(***************************************************************************)
(* How the messages of a session reach a browser: the bounded EventQueue   *)
(* of each session (src/event_queue.py), the long-poll handler             *)
(* (src/routers/poll.py), and the browser's side, the poll loop, the       *)
(* selection of a session and the stall detector                           *)
(* (frontend/src/stores/polling.js, session.js, message.js).               *)
(*                                                                         *)
(* A message is first stored in the session's history and then published   *)
(* in its queue, where its place is the cursor.  A message is its number   *)
(* in the history.  The server's handlers and the browser's functions are  *)
(* steps between two waits.  There is one browser.                         *)
(***************************************************************************)
EXTENDS Integers, Sequences, Functions

CONSTANTS Sessions, NoSession,
          MaxSize,      \* EventQueue.MAX_SIZE
          Talking,      \* bound: the sessions in which anything is said
          MaxMessages,  \* bound: messages stored per session
          Troubles      \* bound: "reboot", "stall", "restart", "reload"

ASSUME NoSessionAssumption == NoSession \notin Sessions
ASSUME MaxSizeAssumption == MaxSize \in Nat \ {0}
ASSUME MaxMessagesAssumption == MaxMessages \in Nat

VARIABLES
  stored,    \* per session: the messages in its history are 1 .. stored
  published, \* per session: the last one that was published, or lost
  events,    \* EventQueue._events
  cursor,    \* EventQueue._cursor
  oldest,    \* EventQueue._oldest_cursor
  current,   \* session store: currentSessionId
  selecting, \* session store: selectingSession
  loaded,    \* the sessions in messagesBySession
  seen,      \* per session: the messages there
  place,     \* polling store: sessionCursors, or Undefined
  rest,      \* message store: loadedEventCursors, or Undefined
  polling,   \* polling store: currentSessionId, whose loop runs
  req,       \* where the request of the loop is
  since,     \* its parameter, 0 when it has been used
  answer,    \* the response: events and next_cursor, <<>> and 0 when there is none
  next,
  healing,   \* the session the stall detector has synchronised
  reviving,  \* the session whose loop it has stopped and is about to start
  overtaken, \* history: it did so over the loop of the session selected since
  missed     \* history: the sessions of which something is known to be lost
serverVars == <<stored, published, events, cursor, oldest>>
selectionVars == <<current, selecting>>
storeVars == <<loaded, seen, place, rest>>
requestVars == <<polling, req, since, answer, next>>
healVars == <<healing, reviving, overtaken>>
vars == <<serverVars, selectionVars, storeVars, requestVars, healVars, missed>>

Undefined == -1
Messages == 1 .. MaxMessages

\* The request is over.
NoRequest == req' = "none" /\ since' = 0 /\ answer' = <<>> /\ next' = 0

-----------------------------------------------------------------------------
(* The server.                                                             *)

\* Faulty: one event too few.
EventsSinceSkips(list, o, c) ==
  SubSeq(list, IF c < o - 1 THEN 1 ELSE c - o + 3, Len(list))

\* events_since for a list of events whose first one has the place o.
EventsSince(list, o, c) ==
  SubSeq(list, IF c < o - 1 THEN 1 ELSE c - o + 2, Len(list))

After(s, c) == Range(EventsSince(events[s], oldest[s], c))

\* Where the browser will go on in a session it has loaded.
From(s) == IF rest[s] # Undefined THEN rest[s] ELSE place[s]

\* append_message of the session's storage.
Store(s) ==
  /\ s \in Talking /\ stored[s] < MaxMessages
  /\ stored' = [stored EXCEPT ![s] = @ + 1]
  /\ UNCHANGED <<published, events, cursor, oldest, selectionVars, storeVars,
                 requestVars, healVars, missed>>

\* EventQueue.append: the oldest event goes when there are too many, and
\* everyone who waits is woken.
AppendEvent(s, n) ==
  /\ cursor' = [cursor EXCEPT ![s] = @ + 1]
  /\ IF Len(events[s]) = MaxSize
     THEN /\ events' = [events EXCEPT ![s] = Append(Tail(@), n)]
          /\ oldest' = [oldest EXCEPT ![s] = @ + 1]
     ELSE /\ events' = [events EXCEPT ![s] = Append(@, n)]
          /\ UNCHANGED oldest

Wakes(s) == req' = IF polling = s /\ req = "waiting" THEN "woken" ELSE req

\* The message callback of the web server.
Publish(s) ==
  /\ published[s] < stored[s]
  /\ published' = [published EXCEPT ![s] = @ + 1]
  /\ AppendEvent(s, published[s] + 1)
  /\ Wakes(s)
  /\ missed' = IF s \in loaded /\ From(s) # Undefined /\ From(s) < oldest'[s] - 1
               THEN missed \union {s} ELSE missed
  /\ UNCHANGED <<stored, selectionVars, storeVars, polling, since, answer, next,
                 healVars>>

\* wait_for_events looks at the cursor, and waits if there is nothing new.
Arrive ==
  /\ req = "asked"
  /\ req' = IF cursor[polling] > since THEN "woken" ELSE "waiting"
  /\ UNCHANGED <<serverVars, selectionVars, storeVars, polling, since, answer,
                 next, healVars, missed>>

TimeOut ==
  /\ req = "waiting" /\ req' = "woken"
  /\ UNCHANGED <<serverVars, selectionVars, storeVars, polling, since, answer,
                 next, healVars, missed>>

Answer ==
  /\ req = "woken" /\ req' = "answered"
  /\ answer' = EventsSince(events[polling], oldest[polling], since)
  /\ next' = cursor[polling]
  /\ since' = 0
  /\ UNCHANGED <<serverVars, selectionVars, storeVars, polling, healVars, missed>>

\* The server is started again: the queues are new, and what was stored and
\* not published never will be.
Reboot ==
  /\ "reboot" \in Troubles
  /\ published' = stored
  /\ events' = [s \in Sessions |-> <<>>]
  /\ cursor' = [s \in Sessions |-> 0] /\ oldest' = [s \in Sessions |-> 1]
  /\ NoRequest
  /\ missed' = loaded
  /\ UNCHANGED <<stored, selectionVars, storeVars, polling, healVars>>

-----------------------------------------------------------------------------
(* The browser's poll loop.                                                *)

Ask ==
  /\ polling # NoSession /\ req = "none"
  /\ req' = "asked"
  /\ since' = place[polling]
  /\ UNCHANGED <<serverVars, selectionVars, storeVars, polling, answer, next,
                 healVars, missed>>

\* handleSessionMessage ignores the events of a session that is not selected.
Take ==
  /\ req = "answered" /\ NoRequest
  /\ place' = [place EXCEPT ![polling] = next]
  /\ IF current = polling
     THEN /\ seen' = [seen EXCEPT ![polling] = @ \union Range(answer)]
          /\ UNCHANGED missed
     ELSE /\ missed' = IF answer = <<>> THEN missed ELSE missed \union {polling}
          /\ UNCHANGED seen
  /\ UNCHANGED <<serverVars, selectionVars, loaded, rest, polling, healVars>>

\* The request is aborted as the page becomes visible, or its answer is lost.
Abort ==
  /\ req # "none" /\ NoRequest
  /\ UNCHANGED <<serverVars, selectionVars, storeVars, polling, healVars, missed>>

-----------------------------------------------------------------------------
(* selectSession                                                           *)

Select(s) ==
  /\ current # s
  /\ current' = s /\ selecting' = TRUE
  /\ UNCHANGED <<serverVars, storeVars, requestVars, healVars, missed>>

\* loadMessages, on the first visit: the history, and the cursor with it.
Load ==
  /\ selecting /\ current \notin loaded
  /\ loaded' = loaded \union {current}
  /\ seen' = [seen EXCEPT ![current] = 1 .. stored[current]]
  /\ rest' = [rest EXCEPT ![current] = cursor[current]]
  /\ UNCHANGED <<serverVars, selectionVars, place, requestVars, healVars, missed>>

\* Faulty: no loop is started.
ConnectsIdle(s) ==
  /\ polling' = NoSession /\ NoRequest
  /\ rest' = [rest EXCEPT ![s] = Undefined]

\* connectSession: the loop of the session before it is stopped.
ConnectsTo(s) ==
  /\ polling' = s /\ NoRequest
  /\ rest' = [rest EXCEPT ![s] = Undefined]

\* The loop begins at the cursor of the history, at the one it had reached, or
\* at the one it asks for.
ConnectSession(s) ==
  /\ ConnectsTo(s)
  /\ IF From(s) = Undefined
     THEN /\ place' = [place EXCEPT ![s] = cursor[s]]
          /\ missed' = IF 1 .. published[s] \subseteq seen[s]
                       THEN missed ELSE missed \union {s}
     ELSE /\ place' = [place EXCEPT ![s] = From(s)]
          /\ UNCHANGED missed
  /\ UNCHANGED <<serverVars, current, loaded, seen, healing>>

Connect ==
  /\ selecting /\ current \in loaded
  /\ selecting' = FALSE /\ overtaken' = FALSE
  /\ ConnectSession(current)
  /\ UNCHANGED reviving

\* The session has been restarted from its dialog: it is disconnected, its
\* cursor is forgotten and it is selected once more.
Reselect ==
  /\ "restart" \in Troubles
  /\ ~ selecting /\ current # NoSession
  /\ selecting' = TRUE
  /\ polling' = NoSession /\ NoRequest
  /\ place' = [place EXCEPT ![current] = Undefined]
  /\ UNCHANGED <<serverVars, current, loaded, seen, rest, healVars, missed>>

-----------------------------------------------------------------------------
(* checkSessionStall, and the page.                                        *)

\* A request has not come back: what is newer than the last message seen is
\* fetched from the history ...
Sync ==
  /\ "stall" \in Troubles
  /\ req # "none" /\ healing = NoSession /\ reviving = NoSession
  /\ healing' = polling /\ UNCHANGED <<reviving, overtaken>>
  /\ seen' = [seen EXCEPT ![polling] =
                IF @ = {} THEN @
                ELSE @ \union {n \in 1 .. stored[polling] : \A m \in @ : n > m}]
  /\ UNCHANGED <<serverVars, selectionVars, loaded, place, rest, requestVars,
                 missed>>

\* ... and then the cursor.  Unless another session is polled by now, the loop
\* is stopped, and waited for ...
SyncDone ==
  /\ healing # NoSession /\ reviving = NoSession
  /\ healing' = NoSession
  /\ \E c \in {0, cursor[healing]} :
       /\ place' = [place EXCEPT ![healing] = c]
       /\ missed' = IF \/ c = 0 /\ oldest[healing] = 1
                       \/ 1 .. published[healing] \subseteq seen[healing]
                    THEN missed ELSE missed \union {healing}
  /\ IF polling = healing
     THEN polling' = NoSession /\ NoRequest /\ reviving' = healing
     ELSE UNCHANGED <<requestVars, reviving>>
  /\ UNCHANGED <<serverVars, selectionVars, loaded, seen, rest, overtaken>>

\* ... and started again, whatever has been selected while it was waited for.
Revive ==
  /\ reviving # NoSession /\ reviving' = NoSession
  /\ ConnectSession(reviving)
  /\ overtaken' = (current # reviving /\ ~ selecting)
  /\ UNCHANGED selecting

Reload ==
  /\ "reload" \in Troubles
  /\ current' = NoSession /\ selecting' = FALSE
  /\ loaded' = {} /\ seen' = [s \in Sessions |-> {}]
  /\ place' = [s \in Sessions |-> Undefined]
  /\ rest' = [s \in Sessions |-> Undefined]
  /\ polling' = NoSession /\ NoRequest
  /\ healing' = NoSession /\ reviving' = NoSession /\ overtaken' = FALSE
  /\ missed' = {}
  /\ UNCHANGED serverVars

-----------------------------------------------------------------------------
Init ==
  /\ stored = [s \in Sessions |-> 0] /\ published = [s \in Sessions |-> 0]
  /\ events = [s \in Sessions |-> <<>>]
  /\ cursor = [s \in Sessions |-> 0] /\ oldest = [s \in Sessions |-> 1]
  /\ current = NoSession /\ selecting = FALSE
  /\ loaded = {} /\ seen = [s \in Sessions |-> {}]
  /\ place = [s \in Sessions |-> Undefined]
  /\ rest = [s \in Sessions |-> Undefined]
  /\ polling = NoSession /\ req = "none"
  /\ since = 0 /\ answer = <<>> /\ next = 0
  /\ healing = NoSession /\ reviving = NoSession /\ overtaken = FALSE
  /\ missed = {}

Next ==
  \/ \E s \in Sessions : Store(s) \/ Publish(s) \/ Select(s)
  \/ Arrive \/ TimeOut \/ Answer \/ Reboot
  \/ Ask \/ Take \/ Abort
  \/ Load \/ Connect \/ Reselect
  \/ Sync \/ SyncDone \/ Revive \/ Reload

\* The loops of the server and of the browser go on, and the network lets an
\* answer through from time to time.
Fairness ==
  /\ \A s \in Sessions : WF_vars(Publish(s))
  /\ WF_vars(Ask) /\ WF_vars(Load) /\ WF_vars(Connect)
  /\ WF_vars(SyncDone) /\ WF_vars(Revive)
  /\ SF_vars(Arrive) /\ SF_vars(TimeOut) /\ SF_vars(Answer) /\ SF_vars(Take)

Spec == Init /\ [][Next]_vars /\ Fairness

-----------------------------------------------------------------------------
\* The variables keep their shape, and a queue holds what its cursors say.
TypeOK ==
  /\ stored \in [Sessions -> Nat] /\ published \in [Sessions -> Nat]
  /\ events \in [Sessions -> Seq(Nat)]
  /\ cursor \in [Sessions -> Nat] /\ oldest \in [Sessions -> Nat]
  /\ \A s \in Sessions : /\ published[s] <= stored[s]
                         /\ Len(events[s]) = cursor[s] - oldest[s] + 1
                         /\ Len(events[s]) <= MaxSize
  /\ current \in Sessions \union {NoSession} /\ selecting \in BOOLEAN
  /\ loaded \subseteq Sessions
  /\ seen \in [Sessions -> SUBSET Nat]
  /\ place \in [Sessions -> Nat \union {Undefined}]
  /\ rest \in [Sessions -> Nat \union {Undefined}]
  /\ polling \in Sessions \union {NoSession}
  /\ polling \in loaded \union {NoSession}
  /\ req \in {"none", "asked", "waiting", "woken", "answered"}
  /\ since \in Nat /\ answer \in Seq(Nat) /\ next \in Nat
  /\ {healing, reviving} \subseteq Sessions \union {NoSession}
  /\ overtaken \in BOOLEAN
  /\ missed \subseteq Sessions

\* Every published message of a session the browser shows has been seen or is
\* still ahead of the cursor the browser goes on from.
Complete(s) ==
  From(s) # Undefined =>
    1 .. published[s] \subseteq seen[s] \union After(s, From(s))

\* Nothing is lost silently between the history, the queue, the answers and the
\* changes of session, but for the losses that are known (variable missed).
NothingElseLost == \A s \in loaded \ missed : Complete(s)

\* A message of the session that is looked at is seen in the end, unless it was
\* selected while the stall detector waited to start the loop of another one.
Delivered ==
  \A s \in Talking, n \in Messages :
    (current = s /\ s \in loaded /\ n <= stored[s])
      ~> (n \in seen[s] \/ current # s \/ s \in missed \/ overtaken)
=============================================================================
