# Claude Code WebUI in TLA+

Claude Code WebUI runs many Claude Code sessions behind one asyncio server and
shows them in a browser. This directory models the parts of it where the order
of events matters: the queue of messages of a session and the task that delivers
them, the life of a session and of the SDK client behind it, the requests for
permission of its tool calls, the way a message travels to a browser, the tree
of minions and the comms between them, the scheduler, the connections to MCP
servers that sessions share, and the tokens of those servers with their copy in
the vault.

Paths are relative to the repository's root.

## The system

One Python process, one event loop. Nothing is preempted: a task runs until it
awaits something that really suspends it, which is what a step of the models is.
Many of the code's `await`s never suspend (file writes, dictionary look-ups, a
lock that is free), and a step goes through them.

| Component | State | Operations | Hard behaviours |
|---|---|---|---|
| Message queue, `src/queue_manager.py` | items per session in memory; `queue.jsonl`, one line per change | enqueue, cancel, mark_sent, mark_failed, requeue, clear_pending, clear_history, load_queue | failed or torn writes, death between two lines, replay, positions used again |
| Queue processor, `src/queue_processor.py` | one task per session in `_tasks` | ensure_running, stop, the loop | cancellation at any wait, session operations under its feet, pause while it waits |
| Session lifecycle, `src/session_manager.py`, `src/session_coordinator.py`, `src/claude_sdk.py` | state and processing flag per session, `_active_sdks`, per client: state, conversation task, shutdown event, inbox | start, terminate, restart, reset, send, interrupt, error callback | operations that overlap at their waits, clients that fail at any time and report twice, restart of the server |
| Event polling, `src/event_queue.py`, `src/routers/poll.py`, `frontend/src/stores/polling.js`, `session.js`, `message.js` | bounded queue with a cursor per session; in the browser: selected session, messages, cursors, one poll loop | append, long poll, select, connect, load history, stall detector | wakeups, overflow, answers that are lost or come late, change of session during a request, restart of the server |
| Permission service, `src/permission_service.py` | pending futures, open requests per session | ask, look for the tool call, show, resolve, deny all, clean up | several requests at once, an interrupt of another session, requests before their tool call |
| Tool calls, coordinator 4134-4671, `src/web_server.py` | active tool calls per session, messages already emitted | created, awaiting, answered, running, result, interrupted | the stream and the permission callback are two tasks |
| Legion communications, `src/legion/comm_router.py`, `legion_coordinator.py` | comms on disk, who waits for which client | route a comm, start and interrupt a minion, emergency halt, resume all | a minion that has to be started first, time limits, a client that is replaced |
| Legion hierarchy, `src/legion/overseer_controller.py`, coordinator 2160-2470 | parent, children, level and overseer flag per session, project list, capability registry, locks | spawn, dispose, reparent, delete with all below, terminate | operations that read a tree, wait, and write it; locks held across waits; cascades that stop half way |
| Scheduler, `src/legion/scheduler_service.py` | schedules with next_run and counts, the file, scripts in flight, monitors | tick, run_now, retry, pause, resume, update, delete, ephemeral monitor | a run by hand beside the tick, missed windows, a crash between count and hand-over |
| Shared connections and OAuth refresh, `src/mcp/shared_connection_manager.py`, `src/oauth_refresh_manager.py`, `src/mcp_config_manager.py` | connections with reference counts, owner tasks, locks, refresh tasks | acquire, release, call, drain, reconnect, refresh; disable, enable, delete a server | counts that restart and a second stop get wrong, closing while opening, generations |
| Credential vault and its refreshes, `src/vault_refresh_manager.py`, `src/oauth_manager.py`, `src/docker/proxy/addon.py` | a server's tokens; in the vault a primary secret with status and expiry, a sibling with the refresh token, a task and a lock per secret; a copy in each proxy | authorise, disconnect, import, reconnect, edit, delete, refresh by the server, the task, the user and a proxy | one refresh token in several hands, each of which makes the others' invalid; a task cancelled while the provider answers; a death after the provider has replaced a token |
| Transcript, `src/message_parser.py`, `src/claude_sdk.py`, coordinator 3272-3600, `src/task_registry.py`, `frontend/src/stores/message.js` | message file, registry of background agents; in the browser: messages, the placeholder and the buffer of a response | convert, store, parse, publish; load, add, stream, splice, sync | two ways to the page that must agree, frames stored before they are told, pieces and whole frames of one response, stalls |
| Others: archives, watchdog, projects, templates, profiles, storage, analytics | files and views | read and write | little that depends on order |

How they interact: the routers, the comm router, the scheduler and the queue
processor all call the same coordinator operations on a session, and take no
lock across them. The client reports to the coordinator through callbacks
(message, error, permission) and to SessionManager (`mark_session_active`). What
a session says is stored by `DataStorageManager`, then handed to the web server's
message callback, which appends it to the session's EventQueue and moves its tool
calls on; the browser polls that queue and reads the history when it first shows
a session. A session that starts acquires the shared connections and the token
refresh of its MCP servers, and gives them back when it is stopped.

What makes them correct: a message that was accepted into a queue is neither
forgotten nor sent twice, nor out of order; a session's state tells the truth
about its client, and no client runs that nobody knows of; a session is paused
exactly while the user is asked, and a tool runs only if it was allowed; what a
session says reaches the browser that shows it; the tree of minions is a tree and
no deletion stops half way unseen; every comm is answered; a time of a schedule
fires once; a shared connection has as many references as users; a token is
erased only when its provider has refused it, and who gives up refreshing one says so.

## Modules

The order below is the order of reading. QueueDelivery and Communications extend
SessionLifecycle, with the processor or the comms as its callers; QueueDelivery
takes MessageQueue as an instance; MessageQueue implements DurableQueue; Transcript
extends Messages, and Secrets extends OAuthTokens. Every
component has an MC module with its instance for TLC.

### MessageQueue

The queue of one session and its file. `mem` is `_queues[session_id]`. The file
is an append-only log that is only ever read from the start to the end, so it is
represented by what the replay has reached at its end (`file`, `cleared`), and
by `torn`, how it ends: with a whole line, with part of one (`line`), with part of
one that ends inside a character (`char`), or with bytes that are no text (`dead`).
After part of a line the next one is glued to it and lost too. After part of a
character the next write makes bytes that are no UTF-8: the replay raises where it
meets them, outside the handler of a malformed line (line 136), and is given up
with all that follows, and with the lines before it in the block that was being
decoded. `AppendUnread` leaves open how many these are (`Earlier`). Every operation has the outcome in which its write raises:
memory has then changed, except in `clear_history`, which writes first. `Restart`
is a death, between two operations or between two lines of `clear_pending`,
followed by `load_queue`. `Truncate` is what reset_session does to the file.
The history variable `lost` holds the items a change of which is not in the
file or not read by the replay (`Unread`), `moved` those that requeue put in front or that came back because of such
a loss.

Abstractions: content, metadata and time stamps of sending are left out. The
number of an item stands for `queue_id`, for `created_at` (a clock that advances
between two items) and for its place in the Python list.

### SessionLifecycle

One session. `st` and `processing` are its record, `reg` the entry in
`_active_sdks`; a client has `info` (its state), `conv` (its conversation task),
`shut` (the shutdown event), `inbox`, and is in `asking` while it waits for a
permission. `at`, `kind` and `on` say where each caller is in its operation:

| `at` | the wait |
|---|---|
| prepare | start_session prepares a client (configuration, containers, connections) |
| undo | start_session failed and terminates the client that is there |
| stop | terminate_session waits for the client's conversation to end |
| closing | SessionManager.terminate_session sleeps, with the lock |
| disconnect | restart_session and reset_session wait for the conversation to end |
| settle | they sleep before they delete the client |

`Start` is start_session up to its first real wait, `Launch` the rest of it;
`Terminate`, `StopDone`, `CloseDone` are terminate_session; `Restart` or `Reset`,
`Disconnected`, `RestartSettled` or `ResetSettled` are the other two. The steps
of a client are those of `_message_processing_loop` and of the task it starts to
read the output. `Reboot` is a restart of the server.

`disturbed` marks a history after which the code makes no promise that could be
kept: two operations overlapped, a paused session with a running client was
started, or a client reported its failure when another one had taken its place.
The state invariants speak of the others. All three really happen, see
Disagreements.

Left out: creation and deletion, archives, configuration, more than one session,
and messages other than those of users. A permission request is one bit per
client.

### QueueDelivery

The loop of the processor, on top of both: it EXTENDS SessionLifecycle, because a
processor is one of its callers, and takes MessageQueue as an instance. `pc` is
where the loop waits (starting, active, resetting, again, wait, idle, or top, the
sleep of a paused queue), `slot` the entry of `_tasks`. `Stop` only asks for a
cancellation; the task finds out later (`Cancelled`), never begins
(`CancelledNew`), or loses it (`CancelLost`) when it waits for a client's
conversation, which swallows it. Every operation of the coordinator on the queue
is an action, with the `ensure_running` or `stop` it makes; `UserQueues` are those
that have an endpoint. `UserRestart` is also what a minion's tool leaves behind: a
monitor that polls until the session is idle and restarts it then. `scripts` says
that a scheduled script runs for the session, for which the processor waits too.

`halted` marks a queue whose last processor was stopped or gave up: the code then
waits for somebody to enqueue or resume. `crowded` marks that a task began when
another one was not done.

### EventPoll

A message is its number in the history of its session. `Store` and `Publish` are
the two steps by which it gets into the history and into the queue. `AppendEvent`
and `EventsSince` are the queue's cursor arithmetic. The request of the poll loop
goes from asked to waiting, woken and answered; it may be aborted, or its answer
lost, at each of these points. `Select`, `Load` and `Connect` are the steps of
selectSession; `Reselect` is the restart dialog, which selects a session anew;
`Sync`, `SyncDone` and `Revive` are the stall detector, which waits for the history
and the cursor, then for the loop it has stopped, and starts another one.

`missed` holds the sessions of which the code is known to lose something: an
overflow, a server that restarted, an event that came when another session was
selected, what was published between the two steps of the stall detector, or a
cursor that was forgotten. Everything else must arrive, unless `overtaken`: the
stall detector looks at which session is selected before it waits for the old loop
to end, and starts the loop of its own session over that of another one selected
meanwhile.

Abstractions: one browser; a response is applied in the step in which it
arrives; a loop that is stopped ends at once (the code waits up to three seconds
for it, and a generation number keeps a late one from going on). Events that are
not messages, deleted sessions and exceptions while an event is handled are left
out.

### DurableQueue

What a queue promises to those who put messages into it: `Arrive` (behind all the
others), `Jump` (a requeued message, in front), `Leave` (for good, the others keep
their order) and `Recover` (the server comes back: nothing that had safely left
is back, and what did not jump is in order). It knows neither positions nor files
nor statuses. MessageQueue's `KeepsPromise` is its specification under the mapping
`arrived` = the number of items, `waiting` = the pending items of the memory,
`ahead` = the order get_pending sorts them in, `loose` = `lost`, `jumped` =
`moved`; TLC checks it and MessageQueueProofs proves it.

### Permissions

The tool calls of several sessions and the requests for permission to run them. A
tool call reaches the server twice: in the stream (`HandleUse`), which creates
it, and as a request, whose callback looks for it by id and waits (`Ask`,
`EndOfIdWait`), then by signature (`SignatureHeard`, `SignatureTimeout`), then
behind a barrier of the loop (`EndOfBarrier`), and at last is shown at whichever
call it found. `place` says where a callback is, `open` and `pending` are
`pending_by_session` and `pending_permissions`, `prompt` is what the browser
shows. `Answer` is the endpoint, `Answered` the callback that wakes up with the
result; `Interrupt`, `InterruptSucceeds` and `InterruptFails` are the interrupt
endpoint around its wait; `TerminateByUser`, `TerminateByMinion`, `EndForRestart`
and `ClientEnds` are the ways a client ends, with the cleanup each makes. A client that
fails (`ClientFails`) leaves its requests open while the session shows an error, and
perhaps starts again, until its callbacks are cancelled (`OrphanEnds`); `haunted` is
a session that was started in between, in which no request is the first and none
pauses it. `StartOver` starts a paused session, whose client runs: it shows as
starting from then on. The
request of tool call t is named t, and may be shown at another call with the same
signature: `target`.

Abstractions: one life of each tool call; a signature is a value. Suggestions,
questions to the user, hooks and the resolver's automatic answers are left out.

### SharedConnections

One MCP server. `conn` is its entry in `_conns`, with `refs` and `draining`; a
connection has a current owner `cur`, and `sess` is the owner whose client session
it holds. An owner opens (`OwnerOpens`, `OwnerFails`), parks, and closes when it
is told to (`OwnerCloses`) or is cancelled. Sessions get a connection (`FindsOpen`,
`FindsClosed`, `FindsNone`, then `OpenSucceeds` or `OpenFails`), tool calls go
through it and open it again after a disconnect, and the configuration drains it.
`openLock` and `recLock` are the code's two locks; `count` and the process
`Refresher` are the token's reference count and refresh task.

A session acquires the servers of its resolved configuration, those of its template
among them, and gives back those that its own configuration names. `Linked` are the
sessions that have the server from their template: they never give it back. `kept`
counts the references that such a session, one that is restarted, or one whose
server is disabled when it ends leaves behind (`Forgets`), and the property counts
them with those in use: the connection is then never drained by its users.
`mixed` marks a history after which the counts are known to be wrong: a session
gave back what it did not have, attached to a connection that had begun to drain,
or closed one after another had taken its place. The bounds are that one such step
may happen, or one reference be kept.

### Scheduler

`sch` holds the Schedule objects, `file` and `saved` what schedules.json says. A
schedule does not exist at first: `CreateByUser` is the router's endpoint and
`CreateByMinion` the tool, which makes no ephemeral ones and limits no repeats;
the operations that both offer (pause, resume, run, update, delete) have what only
one of them may do as a guard. `born` remembers which schedules there have been.
`TickStarts` takes the snapshot of the tick, `TickPasses`, `TickSkips` and
`TickFires` treat one schedule of it. A fire is at `starting` (a session starts),
`script` (a script runs) or `recording` (its result waits for the lock of the
history): `StartReturns`, `ScriptReturns`, `Recorded`. An exception in a fire that the
tick waits for ends the tick (`TickBreaks`, `RecordBreaks`), and `broken` says so
until the next one starts. "again" is the tick's fire of a script that it fires
still, after run_now's own run of that script has ended and taken it off the set of
those in flight. `RunNow` fires with the
trigger "manual" and remembers next_run in `before`. `AgentStarts` to `AgentStops`
are what happens to an ephemeral agent; `MonitorPolls` and `MonitorArchives` are
its monitor. `Crash` loses everything but the file, the agents included.

Time is abstract: next_run is due, later or none, and what is due stays due until
it is given another time, which covers every length of a tick, a script or a
start. `raced` marks schedules to which something else happened while run_now had
them: their times and counts are not promised.

Left out: the agent that is deleted together with its schedule, an agent whose
session cannot be created again (lines 551-576), a write of schedules.json that
fails, which is only logged (line 1287), and the migration of old records.

### OAuthTokens and Secrets

OAuthTokens is one MCP server's authorisation and the provider behind it. A refresh
token is a number; the provider accepts those in `live`, and every answer replaces
one (`ProviderRotates`), keeps it (`ProviderKeeps`), hands out a first one
(`ProviderGrants`) or refuses (`ProviderRejects`: any status but 200, of a provider in
trouble too). `sent` is what a caller has asked
with, `ans` what it was told and has not yet written. `stored` are the server's
tokens, `client` its registered client, `pending` the authorisations the browser
has under way (`StartFlow` to `FlowCompletes`); `RefreshToken` to
`RefreshFailsClears` are the server's refresh. `overlaps` is the history in which an
authorisation came while a refresh was out.

Secrets is their copy in the vault. `primary` is the secret's refresh metadata,
`sibling` and `vaulted` the secret with the refresh token and its value; `task`,
`lock` and `manual` are the background task, the lock of the secret and a refresh
by the user, and `proxy` is a sidecar with the copy it got when its session
started. `Import`, `Reconnect`, `CreateSecret`, `UpdateSecret`, `DeleteSecret` and
`DeleteSibling` are what the user does, each with the task it starts or cancels;
`LoopPosts` to `LoopFails` the task, `ManualPosts` to `ManualFails` the user's
refresh, `ProxyPosts` to `ProxyPatchesSibling` the sidecar's, which writes back in
two requests. `ServerRestarts` loses tasks and answers and starts the tasks of the
metadata it finds. `excused` marks a vaulted token that no refresh of it has ended,
or whose replacement was lost; `healed` that somebody refreshed after the task had
ended.

Left out: other types of secrets and how any of them reaches a request,
cryptography, files, several secrets made from one server.

### Hierarchy

An operation is a stack of calls, as the code's are: dispose calls dispose for the
children and then delete, delete calls delete for its children and then terminate.
A call holds what it has read (`kids`, `todo`), where it is (`pc`) and the lock it
needs next. `turn` is the operation that runs, which no other interrupts until it
waits: for a lock (`WaitForLock`), for a client to end (`ClientEnded`), or in a
pause of the code (`SessionCloses`, `DeletePauses`). Each action is named for what
it writes: `SpawnLinks`, `DeleteUnlinks`, `DisposeUnmarks`, `JoinsNew`, `Relevels`.
`Raises` is an exception that leaves an operation half done; `Reboot` reads the
records again.

Minions call three of the operations with their tools, on what is below them (`by`):
`SpawnByMinion`, `Dispose`, `ReparentByMinion`. Whom a minion sees (`Visible`), lists
(`Listed`), finds by a capability (`Found`) and may write to (`MayWrite`) is derived
from the tree and from `registered`, the capability registry, which
`UpdateExpertise` changes too. The code's recursions over the children (`Kids`) and
the parents (`Overseers`) are `Reach`: whom one comes to by such steps. All minions have one and the same capability.

`crossed` counts the operations that overlap. The shape of the tree is promised of
those that do not; `NoneHalfDeleted` and `NobodyStuck` of all. Nothing is begun
once minions are below themselves (`Circular`), where the code goes round until
the recursion limit.

### Communications

A comm to a minion, over the actions of SessionLifecycle: `Route` is route_comm up
to its first wait (it starts the session if it is not up), `StartReturned` goes on when
the start returns, `Wakes` and `TimesOut` end the wait for `_ready_event` of the
client that was registered then (`awaits`), and `Interrupted` the interrupt of an
urgent comm. `EmergencyHalt` and `ResumeAll` are those of the legion coordinator,
`SomebodyStarts`, `SomebodyRestarts` and `SomebodyResets` what users do meanwhile. `Returned`
gives a comm whose call has returned its turn at once, since nothing suspends
between the two.

`Mails` is what a comm may be: from and to the minion or the user, with a priority
and with files if a minion sends it with its tool. `Delivers` passes its files on,
as many as can be copied (`kept`), into the `gallery` of the minion and to what its
session may read without asking (`readable`); `Reject` is a comm that does not set
out, after some of its files have been read. `timeline` has the comms, and the
errors that the senders of refused ones are told. What a comm says, and the way of
an error from the timeline into the sender's session, are left out.

### ToolCalls

What three parties know of a session's tool calls. The coordinator has `live`
(_active_tool_calls holds those that have not ended) and `writes`, the
ToolCallUpdate entries it has scheduled; the message file is kept as the fold
that get_session_messages makes of it, `shown` and `open`; the browser has the
`cards` of stores/message.js, the events it has not read (`unread`) and the
answers to its loads (`page`, `again`). The reader stores a frame (`StoreUse`,
`StoreResult`), waits in the audit hooks, and publishes it (`PublishUse`,
`PublishResult`): between the two the user may interrupt, stop or answer. A message
that has a text beside its tool use makes no tool call (`PublishText`): the parser
reads no tool from it, the history does. `Restart` is restart_session of a running
session, which neither marks nor announces the open tools, and `StartFails` a start
that does not succeed. `Write`
is a scheduled write that runs. `Visit` and `Loaded` are the two ends of the first
load, `HearError`, `AskAgain` and `LoadedAgain` the reload after an error, `Stall`
and `Heal` the stall detector.

Three ghosts name the tool calls for which the parties are known to differ: `late`
(its frame was stored before and published after the others had been marked, or
never), `stale` (a crash or a restart left it in _active_tool_calls), `skipped` (an event of it is
neither in the page nor among the events read after it). `ReloadAgrees` and
`NoSpinner` speak of all the others, and of the stale ones say what is left: the
history has ended them, and once a start has failed no card of theirs spins.

Left out: reset_session, and a tool use that is sent twice. The frame here is the
assembled one; the coordinator makes a ToolCall of each, so that one that was
interrupted between the two would be pending again.

### Messages and Transcript

Messages has no state. A frame of the CLI's stream, or a message the server makes
itself, goes two ways to the browser: parsed and told at once (`Live`, the handlers
of message_parser.py in their order), or stored by its class and converted when the
history is asked for (`Reloaded`). A text is the item, the parser's filler or
nothing, and the metadata is the set of the names that are filled in. A frame has one block or several: a text, thoughts, tool uses, results
(`Blocks`). `SameFace`
compares the two. Of a frame with a text the parser reads neither thoughts nor tool
uses, the history reads all: that they are in the reload alone is what SameFace says
of such a frame, and of all others that both have the same blocks.

Transcript is the way itself. `Emit` passes on a piece of a response; `Store` and
`Publish` are the two halves of a frame, between which the hooks of append_message
wait; `Send`, `Interrupt` and `Launch` store a message of another task and
`PublishNotice` publishes it. The page hydrates (`Visit`), asks for the history
(`Ask`), has it (`Loaded`), and reads events: `StartStream` (which does nothing for a response without an
id), `StreamText` and
`StopStream` are handleAssistantDelta, and `Collect`, `Merge`, `Replace` and `Push`
the ways of addMessage. `HearEnd` is the watcher of the session's state; `Stall`,
`Sync` and `Reconnect` are the stall detector. `registry` and the legs of the page are
the legs of one background agent, which is resumed under its task_id.

Three variables name the known exceptions, which Disagreements below lists:
`blurred` the items, `legsBlurred` and `adrift` that a leg or a piece of a response
was missed or counted twice. `ShownOnce` speaks of all the other items: each frame
that shows anything is in one bubble. A tool use that is sent twice is in two, as
the collected frames are not compared when they are put in the placeholder's place
(message.js:1826), nor are those of the history; only frames that are merged into a
bubble have each tool use once (`Repeats`). The update of a task
is taken to have a terminal status.

## Runs

All of them finish within about three minutes on two cores.

| Run | Instance | What it shows |
|---|---|---|
| MessageQueue | 3 items, 2 may wait, 3 for requeued ones, writes may fail until 2 items are affected; 447 thousand states | memory and file agree, order of arrival, the queue implements DurableQueue |
| SessionLifecycle | 2 callers, 2 clients, 1 message; 216 thousand states | state and client agree, no client leaks, starting ends |
| QueueDelivery | 1 task, 1 user, 1 client, 2 messages, one with a reset, 1 disturbance; 242 thousand states | at most once, none left behind, every message dealt with |
| Secrets | 1 authorisation, 2 refresh tokens, 1 request of each caller, 4 changes; 891 thousand states | no live token erased, the vault keeps up, giving up is shown, what is due is refreshed |
| EventPoll | 2 sessions, one of which talks, 3 messages, a queue of 2; 140 thousand states | no silent loss, delivery |
| Permissions | 5 tool calls of 3 sessions, used two at a time: twins of one session, calls of two sessions, different calls of one session; 326 thousand states | pause and answer follow the requests, other sessions are left alone, pauses end |
| SharedConnections | 2 sessions, 1 tool call, 2 connections, 2 owners; 3.3 million states | counts, generations, refresh |
| Scheduler | 1 schedule of each kind in turn, 2 monitors, 2 fires or unlimited, 1 retry; 651 thousand states | counts survive a crash, once per time, deleted stays deleted, liveness of tick and monitors |
| Hierarchy | 3 sessions, 2 operations, 2 overlaps; 621 thousand states | shape of the tree, deletions, no deadlock of locks |
| Communications | 2 comms, 1 user with one operation, 2 clients; one comm is a minion's, with a file or urgent, the other one the user's, an urgent one, or one to the user with two files of one name; 229 thousand states | every comm is answered, none is given up while its minion is there, whatever its users do |
| ToolCalls | 2 tools with one mishap, or 1 tool with three, of interrupt, stop, crash and stall; 5.8 million states | history, coordinator and cards agree, nothing spins for ever, ends are final |
| Transcript | four streams of six pieces and frames, one of a message, an interrupt, a termination and a stall, a page that opens at any time; 190 thousand states | a frame shows the same live and after a reload, and once; no caret stays; the agents' legs agree |

Why these bounds are enough to be interesting: three items let one wait, one be
finished and one be requeued, and a queue of two be full; a torn line needs two
writes, and two affected items let a second failure meet the first; a line torn
inside a character needs one more line, behind which a third is not read. Two callers
and two clients are the least for operations that overlap and for a client that
is replaced. One task with a user who stops and starts it meets every place of the
loop; that a second one may run beside it (`crowded`) is proved about for any
number. Two refresh tokens are one that is replaced and its replacement.
Three messages overflow a queue of two while one has been read. Two tool calls
are the least for a request that is not the last of its session, and the three
pairs are the ways in which two requests can get at one another: by signature, by
the count of open requests, and by an interrupt of another session. Two owners
and two connections let a generation be replaced while it opens, and a connection
be dropped while its successor is used. One schedule meets its own fires, by hand
and by the tick, its retries and two monitors, in every way it can be handled. Two
of them, a prompt beside an agent or a script, share the tick, which comes to one
when it has waited for the other or an exception has ended it; those pairs are not
edited, nor does the server die then. Three sessions are a chain that can be
cut in the middle. Two comms let one wait for a client that the other one has
started; with two operations of the user the safety property holds too (2.0
million states).

Callers that are not tasks are interchangeable, and so are tasks, sessions,
operations, connections, owners and tools: the runs SharedConnections, Hierarchy and
ToolCalls, which have no liveness property, use that symmetry. The runs set
CHECK_DEADLOCK FALSE because the models are bounded: when all the items have been
created, or all the messages said, a quiet system may stop. Hierarchy checks with
NobodyStuck that operations under way can go on.

What is split between runs: the failures of a reader, permissions and messages
of a client are steps of the run SessionLifecycle, the processor and the comms see
only what they lead to. Writes that fail are steps of the run MessageQueue alone.
Secrets has been checked with two requests of each caller too (2.1 million
states).

### Fairness

* SessionLifecycle: an operation that can go on does (strong, because it may have
  to wait for the lock, which asyncio hands on in order); a client that starts
  gets ready or fails; one that was told to stop ends (terminate and disconnect
  cancel it after five seconds); a reader that has failed is found dead within a
  second. No fairness for anything a user does, nor for a client that answers.
* QueueDelivery: the loop goes on; a turn of the session ends and the session is
  then idle long enough for the processor to notice (strong); a script ends, as it
  has a time limit. The processor's
  wait for an idle session has no limit, so without that it may wait for ever. The
  server restarts only so often.
* EventPoll: an event that is stored is published; the poll loop, the server's
  handler and its time-out go on; the stall detector goes on; from time to time an answer gets through
  (strong for the steps of a request, which aborts interrupt).
* Permissions: the messages of the stream are handled, callbacks go on, an
  interrupt returns, a client that is stopped ends, and the user answers what is
  shown to him. The last is an assumption about the user, and the point of
  PauseEnds: nothing he cannot see keeps a session paused.
* SharedConnections states fairness of owners, openings, closings and calls, which
  have time limits in the code; its properties are safety properties.
* Scheduler: the tick comes round and goes on, with whichever schedule it takes
  next (one condition for all, so that none is favoured), fires end (scripts have a time
  limit, starts end as in SessionLifecycle), monitors poll.
* Secrets: the provider answers or the request ends at its limit of 30 seconds; a
  task whose time has come goes on (strong, since the lock may be taken, and
  asyncio hands it on in order). The user and the proxies need never refresh.
* Communications: as in SessionLifecycle, and each comm goes on: its wait has a
  time limit, an interrupt is answered or fails, the lock is handed on (strong).
* Hierarchy has no liveness property: users may begin operations for ever.

## Proofs

The modules named ...Proofs hold theorems of the specifications for every value of
the constants: any number of sessions, callers, tasks, messages, tokens, schedules,
and any bound. None of them assumes that a set is finite. What they take from the
constants are the assumptions the component modules name: the bounds are natural
numbers, the values that stand for "none" are none of the others (NoClient, NoTask,
NoSession, None, Tree), tasks are callers, processes of different kinds are
different (ProcsAssumption, FlowsAssumption), and there is a connection to speak of
(ConnsAssumption). Transcript assumes besides (ScriptsAssumption) that the CLI sends
pieces and frames; that no agent begins twice for the same tool use, since a replay of
the file would count such a leg twice and the page once; that a response is
complete before the next begins (`Completes`), since the page closes the buffer of a
response only when it is told of the stop; and that every frame has an item of its
own, a text's after its pieces and in the same response (`Streams`). Frames may have
several blocks, and a tool use several frames. TLC
evaluates them on every run.

| Module | Theorem | States |
|---|---|---|
| MessageQueueProofs | NothingForgotten, ArrivalOrderKept | PendingSurvivesRestart, FirstComeFirstServed |
| | NothingResurrected, ClearedForGood, PlaceOfNewest | NoResurrection, HistoryStaysCleared, and NewestLastOrFirst, an action property |
| | QueueKeepsPromise | KeepsPromise: every step is one of DurableQueue |
| SessionProofs | NothingLeaks, ActiveAnswers, RestIsRest | NoClientLeaks, ActiveHasClient, AtRest, of SessionLifecycle |
| | TakenOnce, NobodyForgets | AtMostOnce, NoneLeftBehind |
| | QueueAsPromised, QueueIsKept | the composed system uses the queue as MessageQueue allows, so what is proved of that holds in it |
| | CommsReach | ReachesActive, an action property of Communications |
| BrowserProofs | NothingIsLost | NothingElseLost, of EventPoll |
| | HistoryAgrees, NothingSpins, EndsAreFinal | ReloadAgrees, NoSpinner, EndedStaysEnded, of ToolCalls |
| PermissionsProofs | PauseMeansAsked, AnswerDecides, OthersAreKept | PausedWhileAsked, StatusFollowsAnswer, OnlyOwnDropped |
| McpProofs | ClientsAreOpen, RefsAreSessions, RefreshIsCounted | ClientIsOpen, RefsCountSessions, RefreshedWhileUsed, of SharedConnections |
| | VaultFollows, FailureIsShown, TokensAreKept | VaultKeepsUp, GaveUpIsShown, ErasedOnlyRefused, of Secrets |
| SchedulerProofs | FiresCounted, DeletedForGood, FiredOnce | FiresAreCounted, DeletedStaysDeleted, OncePerTime |
| HierarchyProofs | DeletionsAreSeen, NoCircleOfWaits | NoneHalfDeleted, NobodyStuck |
| | TreeStays, by TreeSolo | TreeIsSound |
| TranscriptProofs | FacesAgree, LegsSafe, CaretsSafe | ReloadShowsTheSame, LegsAgree, NoCaretLeft |
| | OnceSafe | ShownOnce |

Each has TypeCorrect besides (TasksCorrect for the processor, ToolsTypeCorrect and
SecretsTypeCorrect where two components share a module, LegsCorrect, CaretsCorrect
and OnceCorrect for what the proofs of Transcript need of its types). Every proof has
the same form: an inductive invariant, `IInv`, that TLC has checked on the instance of
the run first; a lemma that the initial states have it; one lemma for each action, or
for a group of actions that write the same variables, that it is kept; and the theorem
that combines them. Where a component has a second invariant that rests on the first, it has a name
and a theorem of its own (SessionIInv, ToolIInv, Solo, the carets and the items of Transcript).

**MessageQueue.** None of the invariants is inductive: they compare memory with
what a replay would give, and say nothing of finished items, which a later operation
relies on. `IInv` adds: memory and file have the same status for every item both
hold and that is not in `lost`, and hold the same items but for cleared ones
(`Agree`); what only the file holds is finished and not newer than the marker
(`OnlyOnDisk`); the order of arrival is the order of the positions among the
waiting items that were not moved (`InOrder`); and memory and file have the same
positions for these (`SamePosition`), which a restart needs. That it implements
DurableQueue goes operation by operation, under `IInv` before and after the step.
Enqueue is Arrive: a position above all others puts the new item behind them
(`BackIsBehind`). Requeue is Jump: below all others, in front (`FrontIsAhead`), or
behind when its write has failed. The changes of a status, the clearings and the
truncation of the file are Leave: those that stay keep their order
(`OthersKeepOrder`). Restart is Recover, for which `Agree` gives what is back and
`InOrder` with `SamePosition` the order of what did not jump. A replay that is given
up ends in what an earlier line had reached (`Earlier`): all that differs from the
file is in `lost` from then on, so that `Agree` says nothing of it.

**SessionLifecycle.** The properties speak of histories in which nobody has
disturbed anybody. `SessionIInv` says where such a session is: every client that
runs belongs to someone (`ClientsOwn`); at most one caller is busy, its place
determines what the session and its client look like (`Phase`), and without one the
session is `Quiet`.

**QueueDelivery.** It holds whatever is done to the session meanwhile, so its proof
uses nothing of SessionLifecycle. `QueueAsPromised` carries the theorems of
MessageQueueProofs over. At most once needs more than the queue promises: the file
makes no item wait that does not wait in memory (`FileFollows`), what was accepted
waits no more (`TakenIsGone`), and what a lone task has picked up was not accepted
before (`OneTask`). None left behind needs that the task in the slot is not one that
is being cancelled (`SlotOK`), and who is responsible when none is (`Attended`).

**Communications.** That no comm is given up while its minion is there needs, of the
moment at which the wait times out, that the event of a client that answers is set
(`ReadyOK`), that a start which did not succeed has left no active session
(`NotThere`, for as long as its caller has not gone on), and that who calls for a
comm only ever starts (`StartsOnly`). `CommOK` is what the comms themselves say: only an urgent one
interrupts (`HasPriority`), and the timeline tells of an error only beside a comm
that was refused (`ErrorsSaid`). The proof uses nothing of `SessionIInv`:
the property holds for comms that users disturb too.

**EventPoll.** NothingElseLost speaks of the place the browser goes on from. It is
kept only because the queue holds consecutive messages (`QueuesRun`), the place does
not run ahead of the cursor and what the queue never held is in the history that was
loaded (`NothingMissed`, for every session that was loaded and is not known to have
missed something), and an answer on its way brings all that its cursor will claim
(`AnswerCovers`). The lemmas about `EventsSince` say which messages a cursor gets.

**ToolCalls.** ReloadAgrees and NoSpinner speak of moments at which everything is
written and read, so nothing of them is inductive: `ToolIInv` says what is on its
way. Whoever takes the events of a queue in order (the writes, what is unread, what
was told since the reload's cursor) ends with the status the coordinator has
(`EventsSettle`, by lemmas about what an event in front or behind does to that). Of
a tool that is neither late nor stale, the file shows its status, or has it open and
will show it when its frame is published or its write is done; for one that was
interrupted or refused it shows the end that came next (`FileFollows`; `FileOK` for
all tools). A card, on the page or in an answer, fits when events can still bring it
there: it has not ended before its tool, unless the frame that ended it is in the
reader's hands (`CardsFit`). And one of which no event is unread is right already, or
has ended if its tool has (`CardsRight`, `CardsEnd`), whether it is on the page or in
the answer the page waits for. What a restart leaves open becomes stale, and the
history ends it when the client is launched again. `ErrorSeen` says where a browser is that has not
heard of an error: its cards are cleared, or it will load. After a resync the page
goes on from another cursor, so that the queues must agree on their last events
(`PageOK`). The marking of all active tools at once tells of them one by one, which
needs that they are finitely many: the tools in use are (`FewUsed`), whatever Tools
is. EndedStaysEnded needs of all this little more than the types: a tool call that is
created is not there yet (`FrameOK`).

**Permissions.** PausedWhileAsked counts on the set of open requests, which the code
fills, empties and cleans in five places. `SessionsOK` says what the set and the
state of the session have to do with each other, `RequestsOK` that a request without
an answer is in the set, wherever its callback is and whichever client asked, and `ActiveOK` that the active
tool calls of a session are its own.

**SharedConnections.** The count of references is the cardinality of a set of
sessions, which nobody assumes finite: the proof adds and removes one session at a
time. It is not inductive by itself: a session that waits for the lock or for the
owner has no reference yet, and who closes the connection in the table closes one
that nobody uses and that drains (both in `CountsOK`). `EndingOK` says how a change of
the configuration ends.

**Scheduler.** Of every schedule (`Sound`): a schedule that was never created has
nothing (`BornOK`); what is handed over stays within the count, where a fire of the
tick and one of run_now may both be between counting and handing over (`CountOK`);
and where its time has gone: it is not due any more when a fire of it records,
unless run_now gives back one that it has found, and what it found was not due
(`TakenOK`). A schedule that is not raced fires once at a time, and a script that does
is among those in flight (`AloneOK`). `FileOK` says that the file knows what memory
knows.

**Secrets.** A token that the provider has replaced is known only to the caller that
was answered. That the vault follows is inductive when that caller has a token that
it did not send (`FollowsOK`). `ServerOK` says that an answer tells of the stored
token only while that is the one that was sent; `LoopOK` and `ProxyOK` where the
task and the proxy are when they hold the lock or have an answer, `QuietOK` that who
has asked nothing has no answer.

**Hierarchy.** A deletion is dropped from a stack when it returns, and could be when an
exception empties the stack; but only disposals raise, and nobody but a disposal
calls one (`StacksOK`). `HalfOK` is NoneHalfDeleted. Who holds a lock is at the place
where it does (`LocksOK`): that of a session is held by one that waits for nothing
but time, that of the tree by one that waits at most for the lock of a session. So
from anyone who waits one finds in two steps one who can go on, and NobodyStuck
follows.

TreeIsSound speaks of the states in which no operation is under way, and an operation
that runs alone is a recursion over the tree. `Solo` says what each state in the middle
of one looks like, for a stack of any depth. While nothing has overlapped, at most one
process has calls. Those of a removal form a `Chain`: each may call the next (`Nests`,
`Adjoins`), each goes to a session on a deeper level, but for the deletion that a
disposal ends with (`Descends`), and each agrees with the records at its place
(`CallOK`). The records
are `TreeBut` for what the calls have done: a session that the project has lost and that
is there still is deleted by a call that is at one of the places `LostAt`, one that its
parent's list has lost is taken out by a call at one of `LooseAt`, and there are no
others. When the last call returns, the exceptions are empty. A spawn has made
a child that its parent's list and the project do not have yet (`Spawning`). A move
(`Moving`) has taken its session from one parent and not yet given it to the other, and
then numbers the levels anew. There is a set with the session and without the new
parent that one does not leave by going to children (`Apart`), so that no circle is made;
in it are the sessions that wait for their number and those that have it, and the
parent of each of them has its number (`Numbers`).

Who is below whom is a recursion in the code. `Reach` says it without one: t is
reached from s when every set that is closed under the steps has t. So a lemma about
descendants is proved by giving a closed set, and no induction over data is needed:
`ReachLeast`, `ReachStep`, `ReachLast`, and `ReachBack`, that what is reached is
reached back by the opposite steps, from which follows that a minion sees its
descendants as they see it.

**Transcript.** That every kind of frame shows the same on its two ways
(`SameFaceKinds`) goes kind by kind: which handler is the first that can parse it
(`ParseIs`), and what the stored form keeps; of a frame with a text, that the blocks
beside it are in the stored form alone. A replay of the file is a recursive fold.
`FoldAppend`, that one more frame in the file is one more step, is proved from the
library's definition of the fold by the least counterexample, since the prover cannot
instantiate a rule of induction. LegsAgree speaks of moments at which nothing is on
its way. Before, the registry lacks at most the frame that the reader has in its
hands (`RegistryFollows`), and the events that are unread lead the page's legs to
those of the registry (`PageFollows`, by lemmas about an event that comes and one
that is read).

NoCaretLeft speaks of such moments too. Before, whatever is open on the page will be
closed (`Opened`): the rest of the script has the stop of the response, or the frame
or the notice of its end is stored and not published, or the channel of the UI has not
told of it, or among the events that are unread one closes it and none opens another
behind it. A bubble has a caret only while its response is the one in the buffer
(`Owned`), and there is one such bubble (`Alone`). That the list is put in order by time
after a page of history has come does not touch this: `ByTime` is a recursive function,
and `ByTimeIs`, that it returns the bubbles it was given, is proved like FoldAppend.

ShownOnce is proved of one item at a time (`ItemOnce`): a text, a tool use or a result
that the model does not name as blurred. What the page will yet be told, in order, is
`Coming`: the events it has not read, the frame that the reader has in its hands, and
what the CLI has not sent. An item comes there at most once, after the pieces of its
text and before the response ends (`Good`). If it is in the file, it is on the page
once, or kept aside until the history has come, or still to come. While it is still to
come the page shows it, if at all, as the text of the response that is open
(`Preview`), so a frame that is read finds nothing of its item on the page but what it
replaces (`Fits`). A step of the server only leaves things out of what comes or adds
what is new (`Thins`, `Steady`); what is left to prove for each of them is about the
page alone.

Model-checked only: the eight liveness properties (StartingEnds, Progress, Delivered,
PauseEnds, DueIsServed, FinishedIsArchived, DueIsRefreshed, and RoutesEnd of
Communications), since the prover has no rules for fairness or ENABLED. Every safety
invariant and every action property of the runs is stated by a theorem.

## Disagreements seen while modelling

Where the code does other than one of its comments or docstrings says, or than one
would expect; the models follow the code. They have no run of their own; where a
property would otherwise fail, a variable of the model names the cases.

Sessions and queue
* reset_session says that pending messages are preserved
  (`src/session_coordinator.py:2859`); it keeps them in memory and removes them
  from the file (line 2929), so that a restart loses them. In the model they are in
  `lost` from then on, and PendingSurvivesRestart fails without that exception.
* load_queue skips a malformed line and goes on ("Skipping malformed queue entry",
  line 104). One torn inside a character raises while the file is read, which only
  the handler around the loop catches (line 136): the lines after it, and those
  before it in the same block, are forgotten. What is written after that is not read
  at the next start either. A write that stops just before its line's end is taken
  in the model for one that stops earlier.
* A stopped processor that ends late removes its successor from `_tasks`
  (`src/queue_processor.py:252`), so that the next message starts another one
  beside it, against "one at a time" (line 29).
* The replay ignores the line that requeue writes to record the new position
  (`src/queue_manager.py:284`, against the comment above it).
* Starting a session that is paused for a permission leaves it in the state
  starting (`src/session_coordinator.py:1341`, `src/session_manager.py:559`).
* The error callback removes whichever client is registered (coordinator 5022,
  "Clean up the failed SDK"), and a reader's failure is reported twice, up to a
  second apart (`src/claude_sdk.py:755` and 912): the second report removes the
  client that a restart has put in its place.
* A message that arrives between the selection of another session and the end of
  the old poll loop is not shown when the user comes back (`polling.js:610`,
  against `session.js:478`).
* The stall detector looks whether the user has gone to another session ("Guard",
  `polling.js:297`) and then waits for its poll loop to end (line 302). A session
  selected in that wait gets its loop replaced by that of the session he has left,
  and hears nothing until it is selected again (`overtaken`).

* A change of the model or of the mode of permissions that fails, and an interrupt
  that fails, leave the session idle although its turn goes on
  (`src/claude_sdk.py:523`): is_processing is what the queue processor waits for.

Permissions
* An interrupt of a paused session denies the open requests of every session
  (`src/permission_service.py:624`).
* A request may be shown at a call with the same signature (line 141).
* A tool call created while terminate waits is never marked interrupted.
* A start over an open request leaves the session in the state starting, whatever is
  answered (`src/session_coordinator.py:1341`).
* When a client fails, the session shows the error before its requests are
  cancelled; one that is started again in that time is not paused by its own
  requests, as they are not the first (`haunted`).

Tool calls
* After a reload a refused tool is shown as failed or interrupted, as the history
  has the result or the interrupt that came next.
* restart_session (`src/session_coordinator.py:2793`) does not mark the open tools, as
  terminate_session and an interrupt do: their cards wait or run on, while the
  history ends them with the next launch of the client. Only when the start fails
  the page loads anew.
* A tool use beside a text is no tool call, and has no card until the page is loaded
  again.
* A tool whose frame is published after a termination has marked the others stays
  pending in the coordinator; a crash leaves every open one in _active_tool_calls.
* A page that is loaded between the announcement of an update and its scheduled
  write has neither; the answer of a reload overwrites cards that events have
  changed meanwhile; and the resync after a stall drops every tool_call entry
  (`stores/message.js:1548`), as ToolCall.to_dict gives none a timestamp.

Transcript
* The handler of assistant messages reads thoughts, tools and the id of the response
  only from a frame without text (`src/message_parser.py:596`), and gives such a frame
  the text "Assistant response" (line 660). Since that is not empty, a late frame
  writes it over the text that was streamed, against the comment at
  `stores/message.js:854` ("Preserve any accumulated streaming text/thinking").
  A text that comes after message_stop is shown twice.
* So a frame with a text and a tool use or thoughts shows the text alone, until the
  page is loaded again: _convert reads all its blocks
  (`src/session_coordinator.py:3338`). Such frames are spliced into the page "matching
  the page-load (JSONL) bubble layout exactly" (`stores/message.js:1824`), and the
  browser's own tests use them (`message.test.js:398`).
* A tool use that is sent twice, first without its input (`stores/message.js:1149`), is
  in two bubbles.
* An interrupt and a launch, while a response is being streamed, drop the frames
  kept for message_stop. After a stall in which message_stop was missed the buffer
  stays, and hides the frames that follow until the next one.
* The stall detector asks for nothing when the page has no message yet, and passes
  over what is told between its two requests. A page that is loaded between the two
  halves of a frame, stored and published, shows it twice.
* Stored api_retry frames have no retry_message_id, so that a reload does not
  collapse them as loadMessages means to (`stores/message.js:232`); the session of a
  task, is_error and api_error_status are missing after a reload; a local command
  shows its tags then.
* A request that hydrates the registry of legs between the two halves of a frame makes
  it count twice, against the comment at `src/session_coordinator.py:4817`; a leg told
  between hydrateBackgroundAgents and loadMessages is on no page.

Communications and hierarchy
* "If legion is in emergency halt, queues comm instead of routing"
  (`src/legion/comm_router.py:152`): there is no such state, a comm starts a
  halted minion again.
* A comm to a minion whose start is still being prepared is refused at once,
  against the comment near line 316; one that waits for a client that is replaced
  is refused at its time limit although the minion is active.
* A comm to a paused minion sets it to starting for good; a HALT comm starts a
  minion that is stopped, and is itself not delivered, against
  `src/models/legion_models.py:52`.
* An emergency halt while a start is being prepared terminates the session, and
  its client comes up afterwards.
* reparent_minion looks for a cycle before it waits for its lock and not again when
  it has it (`src/legion/overseer_controller.py:556`), so two moves make minions the
  parents of one another, against the docstring at line 479 ("ValueError: On
  self-reparent, cross-legion, cycle, ..."). `Circular` says that this has happened.
* A minion's right to move another one is looked at before the wait for that lock, too.
* update_expertise by a minion whose deletion is under way puts it back into the
  capability registry, where it stays until the server restarts.
* send_comm keeps the bytes it has read by the name of the file
  (`src/legion/mcp/legion_mcp_tools.py`): of two attachments with one name the last
  one's bytes are delivered for both. When one is not fit, the comm is rejected and
  those before it stay in the sender's gallery.
* That a minion may read what it was sent without being asked is forgotten when the
  server restarts; a comm whose way was cut by the restart stays in the timeline,
  and its sender is told nothing.
* The monitor of a minion that restarts itself looks for a session that is idle, which
  one is, too, that a user has terminated meanwhile: it starts it again.
* A child that is spawned or moved under a session whose deletion is under way is
  an orphan; one that is moved away is deleted all the same. dispose compares an
  id with pairs and so never deregisters a capability. A project is not deleted
  when its last session is, against the docstring.

Scheduler
* run_now restores the next_run it has saved, over what the tick has set since;
  two runs of one script may overlap, and the
  tick fires a script again that still runs when run_now's run of it has ended first; repeat_count is not looked at before a fire;
  a schedule deleted after the tick has taken its snapshot still fires; a monitor
  archives a busy agent when its schedule is gone (`scheduler_service.py:730`).
* An exception in one fire ends the tick (`src/legion/scheduler_service.py:100`), so
  that schedules behind one whose fire raises every time are never looked at.
* The endpoint creates the agent of an ephemeral schedule before create_schedule
  looks at the cron expression (`src/routers/schedules.py:82`): an invalid one
  leaves a session that no schedule knows.

Shared connections
* The web server replaces the subscriber of token refreshes
  (`src/web_server.py:279`), so that nothing reconnects after a refresh, against
  `shared_connection_manager.py:7`. A server that is deleted or disabled while
  sessions use it is not released when they end (`mcp_config_manager.py:416`).
* A session acquires the servers of its resolved configuration
  (`src/session_coordinator.py:1386` and 1936) and releases those its own names (lines
  1982 and 2869): one that has a server from its template keeps its references to the
  connection and to the token's refresh, which then never end.

Tokens
* The lock of a secret is said to deduplicate "proxy write-back"
  (`src/vault_refresh_manager.py`, its docstring); update_secret_for_session takes
  no lock, and an older token may be written over a newer one.
* The vault's tokens and the server's own are the same after an import, and each
  has its task: whoever refreshes first makes the other's refresh fail.
* A refresh never works for a server with an oauth_client_id; a provider that does
  not say when a token expires makes the task refresh without pause; an import
  without a refresh token answers that it will not be refreshed, and starts a task
  that fails.
* Reconnect makes no new sibling when the old one was deleted. The siblings that a
  proxy is given are dropped by it, as they have no placeholder.
* Any answer to a refresh but 200, a 429 or 503 too, erases the tokens
  (`src/oauth_manager.py:421`), against "Refresh token is invalid/revoked" (line 429);
  only a request without an answer leaves them. It erases those, too, that an
  authorisation has brought meanwhile (`overlaps`).

## Not modelled, and the plan

In this order:

1. The rest of what a session says: frames of subagents, synthetic results of their
   tools, the display projection, the reload after an error.
2. The other tools of the MCP server for legions: queue_task, the schedules of
   minions, and those that only ask (whoami, get_minion_info, list_templates).
3. Abstract specifications: a stream of messages that a browser follows, with
   EventPoll implementing it.

Not planned, with reasons in PROJECT.json: configuration records, files that one
request at a time changes, views that are derived anew each time, presentation,
and programs outside the process.
