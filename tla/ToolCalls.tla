----------------------------- MODULE ToolCalls -----------------------------
(***************************************************************************)
(* The tool calls of one session, as three parties know them.              *)
(*                                                                         *)
(* The coordinator keeps a ToolCall for each tool in use (live, from       *)
(* session_coordinator.py), changes it as frames and permission decisions  *)
(* come, tells the browser and schedules a write of every change.  The     *)
(* message file holds the frames and those writes, and get_session_messages*)
(* rebuilds the tool calls from them for whoever loads the page (shown and *)
(* open are what that fold gives so far).  The browser (stores/message.js) *)
(* keeps a card for each tool, from what it loaded and what it was told.   *)
(*                                                                         *)
(* The reader of the CLI's stream stores a frame first and publishes it    *)
(* later: the audit hooks of append_message wait in between.               *)
(***************************************************************************)
EXTENDS Integers, Sequences, FiniteSets, SequencesExt

CONSTANTS
    Tools,      \* the tool uses the model may ask for
    Mishaps,    \* the kinds of mishap that may happen, once each, of
                \* interrupt, terminate, restart, crash and stall
    Budget      \* bound on a behaviour: a tool costs two, a mishap one

VARIABLES
    session,    \* state of the session: active, starting, terminated, error
    ending,     \* terminate_session has marked the tools and is not done
    agent,      \* [Tools -> what the CLI did: "no", "used", "over"]
    reader,     \* the frame stored and not published yet, or NoFrame
    live,       \* [Tools -> status of the coordinator's ToolCall]
    writes,     \* scheduled ToolCallUpdate writes, <<tool, status>>
    shown,      \* [Tools -> status the message file gives a fresh browser]
    open,       \* active_history_tools at the end of the file
    had,        \* the mishaps there have been
    view,       \* the browser's poll loop: away, loading, here, stalled
    page,       \* cards in the answer to the first load
    reload,     \* reload after an error: no, due, asked
    again,      \* cards in the answer to the reload
    news,       \* a change to error the browser has not heard of
    unread,     \* events after the browser's cursor, <<tool, status>>
    kept,       \* loadedEventCursors has the cursor of the reload
    resent,     \* events told since that cursor
    cards,      \* [Tools -> backendStatus of the card, or "none"]
    late,       \* tools published after the others had been marked, or never
    stale,      \* tools a crash or a restart left in _active_tool_calls
    skipped     \* tools with an event that neither the page nor the events
                \* read after it gave: the cursor was moved past it, or the
                \* answer of a reload is older

coordVars == <<session, ending, agent, reader, live, writes, shown, open>>
cursorVars == <<kept, resent>>
browserVars == <<view, page, reload, again, news, unread, cards, cursorVars>>
ghosts == <<late, stale, skipped>>
toolVars == <<coordVars, had, browserVars, ghosts>>

-----------------------------------------------------------------------------
Running == {"pending", "awaiting", "running"}
Terminal == {"completed", "failed", "denied", "interrupted"}
Statuses == {"none"} \cup Running \cup Terminal

NoFrame == <<"none", "none", "none">>
NoCards == [t \in Tools |-> "none"]

(* Mutant of Updated: the last status told wins. *)
UpdatedAlways(old, new) == new

\* handleToolCall: a tool_call message never takes a card back from a
\* terminal status to one that is not.
Updated(old, new) ==
    IF old \in Terminal /\ new \in Running THEN old ELSE new

\* _active_tool_calls: a tool call leaves it when its status is terminal.
Active == {t \in Tools : live[t] \in Running}

(* Mutant of HistoryView: what is left open is shown as it is. *)
HistoryViewOpen == shown

\* The cards a fresh browser builds from get_session_messages: the fold of
\* the file, and what is left open is interrupted unless the session runs.
HistoryView ==
    [t \in Tools |->
        IF t \in open /\ session \notin {"active", "starting"}
        THEN Updated(shown[t], "interrupted") ELSE shown[t]]

\* What the parser takes from a frame: the tool a message of the assistant
\* asks for, and the outcome a message of the user carries.
UseFrame(t) == <<"use", t, "pending">>
ResultFrame(t, status) == <<"result", t, status>>

(* The fold of get_session_messages, one stored entry at a time.           *)

FoldUse(t) ==
    /\ shown' = [shown EXCEPT ![t] = Updated(@, "pending")]
    /\ open' = open \cup {t}

FoldResult(t, status) ==
    /\ shown' = IF t \in open
                THEN [shown EXCEPT ![t] = Updated(@, status)] ELSE shown
    /\ open' = open \ {t}

\* An interrupt or a client_launched message.
FoldBreak ==
    /\ shown' = [t \in Tools |->
                    IF t \in open THEN Updated(shown[t], "interrupted")
                    ELSE shown[t]]
    /\ open' = {}

\* A ToolCallUpdate is taken as it is.
FoldUpdate(t, status) ==
    shown' = [shown EXCEPT ![t] = Updated(@, status)]

-----------------------------------------------------------------------------
\* Tell the browser of tools and their new status.  A part of the queue that
\* no cursor points to is of no interest.
Told(changes) ==
    /\ unread' = IF view = "away" THEN unread ELSE unread \o changes
    /\ resent' = IF kept \/ reload = "asked" THEN resent \o changes ELSE resent
    /\ UNCHANGED kept

(* Mutant of Announce: the browser is told, and nothing is written. *)
AnnounceUnwritten(changes) ==
    /\ UNCHANGED writes
    /\ Told(changes)

\* _schedule_tool_call_update_storage, and the event beside it.
Announce(changes) ==
    /\ writes' = writes \o changes
    /\ Told(changes)

Spent == 2 * Cardinality({t \in Tools : agent[t] # "no"}) + Cardinality(had)

Spend(kind) ==
    /\ kind \in Mishaps \ had /\ Spent + 1 <= Budget
    /\ had' = had \cup {kind}

-----------------------------------------------------------------------------
ToolInit ==
    /\ session = "active" /\ ending = FALSE
    /\ agent = [t \in Tools |-> "no"]
    /\ reader = NoFrame
    /\ live = NoCards /\ writes = <<>>
    /\ shown = NoCards /\ open = {}
    /\ had = {}
    /\ view = "away" /\ page = NoCards
    /\ reload = "no" /\ again = NoCards
    /\ news = FALSE /\ unread = <<>> /\ cards = NoCards
    /\ kept = FALSE /\ resent = <<>>
    /\ late = {} /\ stale = {} /\ skipped = {}

-----------------------------------------------------------------------------
(* The reader.  It takes the next frame when the write it scheduled itself *)
(* is done: the task starts before the stream gives the next frame.        *)

ReaderFree ==
    /\ reader = NoFrame
    /\ \A i \in DOMAIN writes :
           writes[i][2] \notin {"pending", "completed", "failed"}

StoreUse(t) ==
    /\ session = "active" /\ agent[t] = "no" /\ ReaderFree
    /\ Spent + 2 <= Budget
    /\ reader' = UseFrame(t)
    /\ agent' = [agent EXCEPT ![t] = "used"]
    /\ FoldUse(t)
    /\ UNCHANGED <<session, ending, live, writes, had, browserVars, ghosts>>

\* A tool gives its result when nobody is asked about it any more; the CLI
\* answers for a refused or interrupted tool itself, with an error.
StoreResult(t, status) ==
    /\ session = "active" /\ agent[t] = "used" /\ ReaderFree
    /\ live[t] # "awaiting"
    /\ live[t] \in {"denied", "interrupted"} => status = "failed"
    /\ reader' = ResultFrame(t, status)
    /\ agent' = [agent EXCEPT ![t] = "over"]
    /\ FoldResult(t, status)
    /\ UNCHANGED <<session, ending, live, writes, had, browserVars, ghosts>>

CreateToolCall(t) ==
    /\ live' = [live EXCEPT ![t] = "pending"]
    /\ Announce(<< <<t, "pending">> >>)

\* update_tool_call_result: nothing when the tool is not tracked any more.
UpdateResult(t, status) ==
    IF t \in Active
    THEN /\ live' = [live EXCEPT ![t] = status]
         /\ Announce(<< <<t, status>> >>)
    ELSE UNCHANGED <<live, writes, unread, cursorVars>>

PublishUse ==
    /\ reader[1] = "use"
    /\ CreateToolCall(reader[2])
    /\ reader' = NoFrame
    /\ late' = IF ending THEN late \cup {reader[2]} ELSE late
    /\ UNCHANGED <<session, ending, agent, shown, open, had, view, page,
                   reload, again, news, cards, stale, skipped>>

\* The message has a text too: the parser reads no tool from it, there is no
\* tool call, and nobody is told.  The history reads the tool.
PublishText ==
    /\ reader[1] = "use"
    /\ reader' = NoFrame
    /\ late' = late \cup {reader[2]}
    /\ UNCHANGED <<session, ending, agent, live, writes, shown, open, had,
                   browserVars, stale, skipped>>

PublishResult ==
    /\ reader[1] = "result"
    /\ UpdateResult(reader[2], reader[3])
    /\ reader' = NoFrame
    /\ UNCHANGED <<session, ending, agent, shown, open, had, view, page,
                   reload, again, news, cards, ghosts>>

\* _write_tool_call_update; the history takes it as a tool_call message.
Write ==
    /\ writes # <<>>
    /\ FoldUpdate(Head(writes)[1], Head(writes)[2])
    /\ writes' = Tail(writes)
    /\ UNCHANGED <<session, ending, agent, reader, live, open, had,
                   browserVars, ghosts>>

-----------------------------------------------------------------------------
(* Permissions, asked in a task of their own.                              *)

\* permission_callback has found the tool call: the user is asked.
AskUser(t) ==
    /\ session = "active" /\ live[t] = "pending" /\ agent[t] = "used"
    /\ live' = [live EXCEPT ![t] = "awaiting"]
    /\ Announce(<< <<t, "awaiting">> >>)
    /\ UNCHANGED <<session, ending, agent, reader, shown, open, had, view,
                   page, reload, again, news, cards, ghosts>>

\* The user's decision is recorded, unless the tool is not tracked any more.
Decide(t, status) ==
    /\ session = "active" /\ live[t] = "awaiting" /\ agent[t] = "used"
    /\ live' = [live EXCEPT ![t] = status]
    /\ Announce(<< <<t, status>> >>)
    /\ UNCHANGED <<session, ending, agent, reader, shown, open, had, view,
                   page, reload, again, news, cards, ghosts>>

-----------------------------------------------------------------------------
(* Interrupts, terminations, restarts, crashes and starts.                 *)

\* mark_session_tools_interrupted, in the order the tools were created in,
\* which is left open.
MarkInterrupted ==
    /\ live' = [t \in Tools |->
                   IF t \in Active THEN "interrupted" ELSE live[t]]
    /\ \E order \in SetToSeqs(Active) :
          Announce([i \in DOMAIN order |-> <<order[i], "interrupted">>])

\* A frame whose tool is not in _active_tool_calls yet is not marked.
Overtaken == IF reader[1] = "use" THEN {reader[2]} ELSE {}

\* interrupt_session: the marking and the stored message have no wait
\* between them.
Interrupt ==
    /\ Spend("interrupt")
    /\ session = "active" /\ ~ending
    /\ MarkInterrupted
    /\ FoldBreak
    /\ late' = late \cup Overtaken
    /\ UNCHANGED <<session, ending, agent, reader, view, page, reload, again,
                   news, cards, stale, skipped>>

\* terminate_session up to the wait for the SDK's reader ...
Terminate ==
    /\ Spend("terminate")
    /\ session = "active" /\ ~ending
    /\ ending' = TRUE
    /\ MarkInterrupted
    /\ late' = late \cup Overtaken
    /\ UNCHANGED <<session, agent, reader, shown, open, view, page, reload,
                   again, news, cards, stale, skipped>>

NobodyUses == [t \in Tools |-> IF agent[t] = "used" THEN "over" ELSE agent[t]]

\* Meanwhile the reader may be cancelled in the hooks of append_message, with a
\* frame that is stored and not published.
CancelReader ==
    /\ ending /\ reader # NoFrame
    /\ reader' = NoFrame
    /\ late' = late \cup Overtaken
    /\ UNCHANGED <<session, ending, agent, live, writes, shown, open, had,
                   browserVars, stale, skipped>>

\* ... and after it.
Terminated ==
    /\ ending /\ reader = NoFrame /\ writes = <<>>
    /\ ending' = FALSE
    /\ session' = "terminated"
    /\ agent' = NobodyUses
    /\ UNCHANGED <<reader, live, writes, shown, open, had, browserVars,
                   ghosts>>

\* restart_session of a running session, when sdk.disconnect has returned: a
\* frame that was not published is gone with the reader, and the tools are
\* neither marked nor announced, here or when the session starts again.
Restart ==
    /\ Spend("restart")
    /\ session = "active" /\ ~ending
    /\ session' = "terminated"
    /\ reader' = NoFrame
    /\ agent' = NobodyUses
    /\ late' = late \cup Overtaken
    /\ stale' = stale \cup Active
    /\ UNCHANGED <<ending, live, writes, shown, open, browserVars, skipped>>

\* The error callback: the tool calls are not touched.
Crash ==
    /\ Spend("crash")
    /\ session = "active" /\ ~ending /\ reader = NoFrame
    /\ session' = "error"
    /\ news' = (view # "away")
    /\ agent' = NobodyUses
    /\ stale' = stale \cup Active
    /\ UNCHANGED <<ending, reader, live, writes, shown, open, view, page,
                   reload, again, unread, cards, cursorVars, late, skipped>>

Start ==
    /\ session \in {"terminated", "error"} /\ writes = <<>>
    /\ session' = "starting"
    /\ UNCHANGED <<ending, agent, reader, live, writes, shown, open, had,
                   browserVars, ghosts>>

\* A start that fails, of a restart or of the user, is the crash a behaviour
\* may have.
StartFails ==
    /\ Spend("crash")
    /\ session = "starting"
    /\ session' = "error"
    /\ news' = (view # "away")
    /\ UNCHANGED <<ending, agent, reader, live, writes, shown, open, view,
                   page, reload, again, unread, cards, cursorVars, ghosts>>

\* The client is up, and client_launched is stored.
Launch ==
    /\ session = "starting"
    /\ session' = "active"
    /\ FoldBreak
    /\ UNCHANGED <<ending, agent, reader, live, writes, had, browserVars,
                   ghosts>>

-----------------------------------------------------------------------------
(* The browser.                                                            *)

\* clearMessages
Cleared == [t \in Tools |-> "none"]

\* loadMessages passes each tool_call entry to handleToolCall.
Merged(old, new) ==
    [t \in Tools |-> IF new[t] = "none" THEN old[t]
                     ELSE Updated(old[t], new[t])]

\* connectSession takes the cursor out of loadedEventCursors.
CursorTaken ==
    /\ kept' = FALSE
    /\ resent' = IF reload = "asked" THEN resent ELSE <<>>

Named(changes) == {changes[i][1] : i \in DOMAIN changes}

\* selectSession, first visit: the answer has the cursor of the same moment,
\* and lacks an update that is announced and whose write is only scheduled.
\* A terminated session is started first.
Visit ==
    /\ view = "away" /\ session # "terminated"
    /\ view' = "loading" /\ page' = HistoryView /\ unread' = <<>>
    /\ skipped' = skipped \cup Named(writes)
    /\ UNCHANGED <<coordVars, had, reload, again, news, cards, cursorVars,
                   late, stale>>

Loaded ==
    /\ view = "loading"
    /\ view' = "here"
    /\ cards' = Merged(cards, page) /\ page' = NoCards
    /\ CursorTaken
    /\ UNCHANGED <<coordVars, had, reload, again, news, unread, ghosts>>

\* handleSessionMessage: tool_call events, in order.
Read ==
    /\ view = "here" /\ unread # <<>>
    /\ LET t == Head(unread)[1] IN
       cards' = [cards EXCEPT ![t] = Updated(@, Head(unread)[2])]
    /\ unread' = Tail(unread)
    /\ skipped' = IF reload = "asked" THEN skipped \cup {Head(unread)[1]}
                  ELSE skipped
    /\ UNCHANGED <<coordVars, had, view, page, reload, again, news, cursorVars,
                   late, stale>>

\* state_change to error: clearMessages, and the history is asked for again.
\* The session's own poll loop goes on from its cursor.
HearError ==
    /\ news
    /\ news' = FALSE
    /\ cards' = Cleared /\ reload' = "due"
    /\ UNCHANGED <<coordVars, had, view, page, again, unread, cursorVars,
                   ghosts>>

AskAgain ==
    /\ reload = "due" /\ session # "terminated"
    /\ reload' = "asked" /\ again' = HistoryView
    /\ resent' = <<>>
    /\ skipped' = skipped \cup Named(writes)
    /\ UNCHANGED <<coordVars, had, view, page, news, unread, kept, cards, late,
                   stale>>

LoadedAgain ==
    /\ reload = "asked"
    /\ reload' = "no" /\ cards' = Merged(cards, again) /\ again' = NoCards
    /\ kept' = TRUE
    /\ UNCHANGED <<coordVars, had, view, page, news, unread, resent, ghosts>>

\* checkSessionStall: the poll has hung.  syncMessages leaves every tool_call
\* entry out, as none has a timestamp; the cursor is then moved to the end, or
\* back to that of a reload, which was kept for connectSession.  The dialog
\* that has restarted the session drops the connection in the same way, to
\* select the session anew.
Stall ==
    /\ \/ Spend("stall")
       \/ "restart" \in had /\ UNCHANGED had
    /\ view = "here"
    /\ view' = "stalled"
    /\ UNCHANGED <<coordVars, page, reload, again, news, unread, cards,
                   cursorVars, ghosts>>

Heal ==
    /\ view = "stalled"
    /\ view' = "here"
    /\ unread' = IF kept THEN resent ELSE <<>>
    /\ skipped' =
         skipped \cup Named(SubSeq(unread, 1, Len(unread) - Len(unread')))
    /\ CursorTaken
    /\ UNCHANGED <<coordVars, had, page, reload, again, news, cards, late,
                   stale>>

-----------------------------------------------------------------------------
ToolNext ==
    \/ \E t \in Tools :
          \/ StoreUse(t) \/ AskUser(t)
          \/ \E s \in {"completed", "failed"} : StoreResult(t, s)
          \/ \E s \in {"running", "denied"} : Decide(t, s)
    \/ PublishUse \/ PublishText \/ PublishResult \/ Write
    \/ Interrupt \/ Terminate \/ CancelReader \/ Terminated \/ Restart
    \/ Crash \/ Start \/ StartFails \/ Launch
    \/ Visit \/ Loaded \/ Read \/ HearError \/ AskAgain \/ LoadedAgain
    \/ Stall \/ Heal

ToolSpec == ToolInit /\ [][ToolNext]_toolVars

-----------------------------------------------------------------------------
\* Nothing is under way: the file has every update, the browser has loaded
\* and has read everything it was told.
AtRest ==
    /\ reader = NoFrame /\ writes = <<>> /\ ~ending
    /\ view = "here" /\ reload = "no" /\ ~news /\ unread = <<>>

\* The history the coordinator rebuilds from the frames and the cards it told
\* a connected browser of agree, whatever was interrupted, refused or lost:
\* pressing reload changes no card.  The exceptions are named: what follows
\* the refusal or the interrupt of a tool (the file shows the result or the
\* interrupt that came next, the browser does not), a tool published after
\* the others had been marked or never, one with an event that fell between the
\* page and the events read after it, and one that a crash or a restart left
\* behind: its card may go on waiting or running, and the history has ended it,
\* always.
ReloadAgrees ==
    AtRest /\ session = "active" =>
        /\ \A t \in Tools \ (late \cup stale \cup skipped) :
               \/ cards[t] = HistoryView[t]
               \/ /\ cards[t] \in {"denied", "interrupted"}
                  /\ HistoryView[t] \in Terminal
        /\ \A t \in stale : HistoryView[t] \in Terminal

\* When a session has ended or failed, no card of a browser that has heard
\* everything still shows a tool as waiting or running, unless its frame
\* overtook the marking or a resync moved past its end.  A restart does not
\* mark its tools, which spin on until the start after it fails: then the page
\* is loaded anew, and nothing spins.
NoSpinner ==
    AtRest =>
        /\ session = "error" =>
              \A t \in Tools \ (late \cup skipped) : cards[t] \notin Running
        /\ session = "terminated" =>
              \A t \in Tools \ (late \cup stale \cup skipped) :
                  cards[t] \notin Running

\* A tool call that has ended stays ended: no decision, result or late frame
\* takes it back to running, in the coordinator or on the page, unless the
\* page is cleared.
EndedStaysEnded ==
    [][\A t \in Tools :
          /\ live[t] \in Terminal => live'[t] = live[t]
          /\ cards[t] \in Terminal => cards'[t] \notin Running]_toolVars
=============================================================================
