----------------------------- MODULE Transcript -----------------------------
(***************************************************************************)
(* The transcript of one session, from the CLI's stream to the bubbles of  *)
(* the page.                                                               *)
(*                                                                         *)
(* The reader of the stream (claude_sdk.py) passes on the pieces of a      *)
(* response at once; it stores a whole frame and publishes it afterwards,  *)
(* and the hooks of append_message wait in between.  User messages and the *)
(* server's own are stored and published by other tasks.  Frames about     *)
(* background agents also feed the TaskLegRegistry.                        *)
(*                                                                         *)
(* The page (stores/message.js, polling.js) streams a response into a      *)
(* placeholder, keeps its frames aside until message_stop and then puts    *)
(* them in the placeholder's place; what it loads is the history.          *)
(* Subagents' frames, api_retry sequences and the reload after an error of *)
(* the session are left out.                                               *)
(*                                                                         *)
(* Some messages are known to be lost or doubled: those stored before the  *)
(* page loads and published after, those a response's buffer holds when it *)
(* is dropped, those a late frame writes over, those between the two       *)
(* requests of the stall detector.  Each step adds its own to blurred, and *)
(* the properties are about the rest.                                      *)
(***************************************************************************)
EXTENDS Messages

CONSTANTS
    Scripts,    \* what the CLI may send: sequences of frames and of pieces
                \* (start, delta, stop), each frame with an item of its own
    Troubles,   \* what may happen, once each, of said, interrupt, terminate
                \* and stall
    Budget      \* how many of them in one behaviour

\* The response that starts at i stops before another starts.
Completes(s, i) ==
    \E k \in DOMAIN s : /\ i < k /\ s[k].kind = "stop"
                        /\ \A j \in i + 1 .. k : s[j].kind # "start"

\* The text whose pieces are sent at i comes whole at j, in the same response.
Streams(s, i, j) ==
    /\ i < j /\ s[j].kind \in TextAnswers
    /\ \A k \in i .. j : s[k].kind \notin {"start", "stop"}

\* The CLI sends pieces and frames, each frame with an item of its own and a
\* text after its pieces; no agent begins twice for the same tool use, and a
\* response is complete before the next begins.  A tool use may be sent in any
\* number of frames, the first without its input: they have one use.
ASSUME ScriptsAssumption ==
    \A s \in Scripts :
        /\ s \in Seq(ToSet(s))
        /\ \A i \in DOMAIN s : s[i].kind \in SentKinds \cup {"start", "delta", "stop"}
        /\ \A i, j \in DOMAIN s :
             s[i].kind = "task_started" /\ s[j].kind = "task_started"
               /\ s[i].use = s[j].use => i = j
        /\ \A i \in DOMAIN s : s[i].kind = "start" => Completes(s, i)
        /\ \A i, j \in DOMAIN s :
             s[i].kind \in SentKinds /\ s[j].kind \in SentKinds
               /\ s[i].item = s[j].item => i = j
        /\ \A i \in DOMAIN s : s[i].item \notin Made \cup {"filler"}
                               /\ (s[i].kind \in SentKinds => s[i].item # "none")
        /\ \A i, j \in DOMAIN s :
             s[i].kind = "delta" /\ s[j].kind \in SentKinds /\ s[j].item = s[i].item
               => Streams(s, i, j)

VARIABLES
    script,     \* what the CLI has still to send
    file,       \* messages.jsonl
    reader,     \* the frame stored and not published yet, or NoFrame
    notices,    \* the same for messages of other tasks, a set
    session,    \* state of the session: active or terminated
    registry,   \* TaskLegRegistry: warm, legs
    had,        \* the troubles there have been
    view,       \* the poll loop: away, hydrating, loading, here, stalled or
                \* synced
    page,       \* the answer that is under way: frames, legs
    news,       \* terminated when the UI channel has not told the page yet
    unread,     \* events after the session's cursor
    ui,         \* the page: bubbles, buffer, last, legs
    blurred,    \* items that the code is known to show twice or not at all
    legsBlurred,\* the same for the legs of agents
    adrift      \* a piece of a response was missed

serverVars == <<script, file, reader, notices, session, registry>>
ghosts == <<blurred, legsBlurred, adrift>>
vars == <<serverVars, had, view, page, news, unread, ui, ghosts>>

-----------------------------------------------------------------------------
NoFrame == Frame("none", "none", NoId, "none")
NoAnswer == [frames |-> <<>>, legs |-> <<>>]
NoBuffer == [id |-> NoId, got |-> <<>>]
NoPage == [bubbles |-> <<>>, buffer |-> NoBuffer, last |-> 0, legs |-> <<>>]

Pieces == {"start", "delta", "stop"}
Items(frames) == {frames[i].item : i \in DOMAIN frames}

\* The clock: a frame has the time of its place in the file; that an interrupt
\* succeeded is told just before the interrupt is stored, and not stored.
Place(item) == CHOOSE i \in DOMAIN file : file[i].item = item
Time(f) == IF f.kind = "interrupt_success" THEN 2 * Place("interrupt") - 1
           ELSE 2 * Place(f.item)
Now == 2 * Len(file) + 1

-----------------------------------------------------------------------------
(* Legs of a background agent.  It is resumed under the same task_id with  *)
(* another tool use.                                                       *)

Begun(legs, use) == Append(legs, [use |-> use, over |-> FALSE])

Ended(legs) ==
    IF legs # <<>> /\ ~Last(legs).over
    THEN [legs EXCEPT ![Len(legs)].over = TRUE] ELSE legs

\* TaskLegRegistry.apply_frame
ApplyFrame(legs, f) ==
    CASE f.kind = "task_started" -> Begun(legs, f.use)
      [] f.kind \in {"task_notification", "task_updated"} -> Ended(legs)
      [] OTHER -> legs

\* applyTaskLifecycleFrame: a tool use that has a leg gets no other.
ApplyOnPage(legs, f) ==
    IF f.kind = "task_started" /\ \E i \in DOMAIN legs : legs[i].use = f.use
    THEN legs ELSE ApplyFrame(legs, f)

Replayed == FoldLeft(ApplyFrame, <<>>, file)

\* _get_task_leg_registry
Hydrated ==
    IF registry.warm THEN registry ELSE [warm |-> TRUE, legs |-> Replayed]

\* Faulty: a frame is applied to what was just hydrated with it.
FedTwice(f) ==
    IF f.kind \notin TaskKinds THEN registry
    ELSE [Hydrated EXCEPT !.legs = ApplyFrame(@, f)]

\* The registry when a frame is published: a cold one is hydrated, and the
\* file has the frame already.
Fed(f) ==
    IF f.kind \notin TaskKinds \/ ~registry.warm
    THEN IF f.kind \in TaskKinds THEN Hydrated ELSE registry
    ELSE [registry EXCEPT !.legs = ApplyFrame(@, f)]

-----------------------------------------------------------------------------
Told(events) ==
    unread' = IF view \in {"away", "hydrating"} THEN unread
              ELSE unread \o events

Spend(kind) ==
    /\ kind \in Troubles \ had /\ Cardinality(had) < Budget
    /\ had' = had \cup {kind}

Init ==
    /\ script \in Scripts
    /\ file = <<>> /\ reader = NoFrame /\ notices = {}
    /\ session = "active" /\ registry = [warm |-> FALSE, legs |-> <<>>]
    /\ had = {}
    /\ view = "away" /\ page = NoAnswer /\ news = "none" /\ unread = <<>>
    /\ ui = NoPage
    /\ blurred = {} /\ legsBlurred = FALSE /\ adrift = FALSE

-----------------------------------------------------------------------------
(* The reader of the stream.                                               *)

\* assistant_delta is neither parsed nor stored.
Emit ==
    /\ session = "active" /\ reader = NoFrame
    /\ script # <<>> /\ Head(script).kind \in Pieces
    /\ Told(<<Head(script)>>)
    /\ script' = Tail(script)
    /\ UNCHANGED <<file, reader, notices, session, registry, had, view,
                   page, news, ui, ghosts>>

\* _process_sdk_message up to the hooks of append_message ...
Store ==
    /\ session = "active" /\ reader = NoFrame
    /\ script # <<>> /\ Head(script).kind \notin Pieces
    /\ file' = Append(file, Head(script))
    /\ reader' = Head(script)
    /\ script' = Tail(script)
    /\ UNCHANGED <<notices, session, registry, had, view, page, news,
                   unread, ui, ghosts>>

\* ... and after them: the coordinator's callback and the poll queue.
Publish ==
    /\ reader # NoFrame
    /\ registry' = Fed(reader)
    /\ Told(<<reader>>)
    /\ reader' = NoFrame
    /\ UNCHANGED <<script, file, notices, session, had, view, page, news,
                   ui, ghosts>>

-----------------------------------------------------------------------------
(* Other tasks.                                                            *)

\* _store_processed_message and the callback after it.
Says(kind) ==
    LET f == Frame(kind, kind, NoId, "none") IN
    /\ file' = Append(file, f)
    /\ notices' = notices \cup {f}

PublishNotice(f) ==
    /\ Told(<<f>>)
    /\ notices' = notices \ {f}
    /\ UNCHANGED <<script, file, reader, session, registry, had, view,
                   page, news, ui, ghosts>>

\* A message of the user, which the SDK's main loop takes from its queue.
Send ==
    /\ Spend("said")
    /\ session = "active"
    /\ Says("said")
    /\ UNCHANGED <<script, reader, session, registry, view, page, news,
                   unread, ui, ghosts>>

\* The rest of the CLI's script without the response it is in.
AfterResponse ==
    LET cut == {i \in DOMAIN script : script[i].kind = "start"} IN
    IF cut = {} THEN <<>>
    ELSE SubSeq(script, CHOOSE i \in cut : \A j \in cut : i <= j, Len(script))

\* interrupt_session; what the CLI still sends of the response is up to it.
Interrupt ==
    /\ Spend("interrupt")
    /\ session = "active"
    /\ Told(<<Frame("interrupt_success", "interrupt_success", NoId, "none")>>)
    /\ Says("interrupt")
    /\ script' \in {script, AfterResponse}
    /\ UNCHANGED <<reader, session, registry, view, page, news, ui, ghosts>>

\* terminate_session; the reader may be cancelled in the hooks.
Terminate ==
    /\ Spend("terminate")
    /\ session = "active"
    /\ session' = "terminated" /\ script' = AfterResponse
    /\ reader' = NoFrame
    /\ news' = IF view = "away" THEN news ELSE "terminated"
    /\ blurred' = IF view = "away" THEN blurred ELSE blurred \cup {reader.item}
    /\ legsBlurred' = (legsBlurred \/ reader.kind \in TaskKinds)
    /\ UNCHANGED <<file, notices, registry, view, page, unread, ui,
                   adrift>>

\* start_session of a session that has ended, once in a behaviour.
Launch ==
    /\ session = "terminated"
    /\ "client_launched" \notin Items(file)
    /\ session' = "active"
    /\ Says("client_launched")
    /\ UNCHANGED <<script, reader, registry, had, view, page, news,
                   unread, ui, ghosts>>

-----------------------------------------------------------------------------
(* The bubbles of the page.                                                *)

Bubble(f, m) ==
    [id |-> m.id, text |-> m.text,
     parts |-> IF m.names \cap BlockNames = {} THEN {} ELSE {f.item},
     streaming |-> FALSE, assistant |-> m.type = "assistant", at |-> Time(f)]

Placeholder(resp) ==
    [id |-> resp, text |-> <<>>, parts |-> {}, streaming |-> TRUE,
     assistant |-> TRUE, at |-> Now]

Ids == {ui.bubbles[i].id : i \in DOMAIN ui.bubbles}
Streaming == {i \in DOMAIN ui.bubbles : ui.bubbles[i].streaming}
Buffering == ui.buffer # NoBuffer

\* findIndex and findLastIndex
First(indices) == CHOOSE i \in indices : \A j \in indices : i <= j
Latest(indices) == CHOOSE i \in indices : \A j \in indices : i >= j

WithId(id) == {i \in DOMAIN ui.bubbles : ui.bubbles[i].id = id}
HasPlaceholder == Buffering /\ WithId(ui.buffer.id) # {}
PlaceholderAt == First(WithId(ui.buffer.id))

Texts(b) == ToSet(b.text) \ {"filler"}
Shows(b) == Texts(b) \cup b.parts
Shown(bubbles) == UNION {Shows(bubbles[i]) : i \in DOMAIN bubbles}

\* What dropping the buffer loses: a frame kept aside whose text has not been
\* streamed, and a streamed text whose frame comes later as another bubble.
Dropped(u) ==
    LET open == {i \in DOMAIN u.bubbles : u.bubbles[i].streaming}
        streamed == UNION {Texts(u.bubbles[i]) : i \in open}
        got == Items(u.buffer.got)
    IN  (streamed \ got) \cup (got \ streamed)

\* Faulty: the caret stays.
StoppedLate(u) == [u EXCEPT !.buffer = NoBuffer]

\* _stopStreamingPlaceholder
Stopped(u) ==
    IF u.buffer = NoBuffer THEN u
    ELSE [u EXCEPT !.buffer = NoBuffer,
                   !.bubbles = [i \in DOMAIN @ |->
                       IF @[i].id = u.buffer.id
                       THEN [@[i] EXCEPT !.streaming = FALSE] ELSE @[i]]]

-----------------------------------------------------------------------------
(* handleAssistantDelta.  Text waits for an animation frame at most, and   *)
(* every step that looks at the buffer flushes it first.                   *)

StartStream(e) ==
    /\ e.kind = "start"
    /\ IF e.resp \in Ids \cup {NoId} THEN UNCHANGED <<ui, blurred, adrift>>
       ELSE /\ ui' = [ui EXCEPT !.bubbles = Append(@, Placeholder(e.resp)),
                                !.buffer = [id |-> e.resp, got |-> <<>>]]
            /\ blurred' = IF Buffering THEN blurred \cup Dropped(ui)
                          ELSE blurred
            /\ adrift' = (adrift \/ Buffering)
    /\ UNCHANGED legsBlurred

StreamText(e) ==
    /\ e.kind = "delta"
    /\ ui' = IF HasPlaceholder
             THEN [ui EXCEPT !.bubbles[PlaceholderAt].text = Append(@, e.item)]
             ELSE ui
    /\ UNCHANGED ghosts

\* Faulty: the frames kept aside are forgotten.
SplicedNone(u, i) ==
    [u EXCEPT !.bubbles[i].streaming = FALSE, !.buffer = NoBuffer]

\* The frames kept aside, each a bubble, in the placeholder's place.
Spliced(u, i) ==
    LET got == u.buffer.got
        bubbles == [k \in DOMAIN got |-> Bubble(got[k], Live(got[k]))]
    IN  IF got = <<>>
        THEN [u EXCEPT !.bubbles[i].streaming = FALSE, !.buffer = NoBuffer]
        ELSE [u EXCEPT !.bubbles = SubSeq(@, 1, i - 1) \o bubbles
                                   \o SubSeq(@, i + 1, Len(@)),
                       !.buffer = NoBuffer, !.last = Time(Last(got))]

StopStream(e) ==
    /\ e.kind = "stop"
    /\ ui' = IF HasPlaceholder /\ ui.bubbles[PlaceholderAt].streaming
             THEN Spliced(ui, PlaceholderAt)
             ELSE [ui EXCEPT !.buffer = NoBuffer]
    /\ blurred' = IF HasPlaceholder THEN blurred
                  ELSE blurred \cup Items(ui.buffer.got)
    /\ UNCHANGED <<legsBlurred, adrift>>

-----------------------------------------------------------------------------
(* addMessage, by what it finds.                                           *)

IsAnswer(f) == Live(f).type = "assistant"
Waits(f) == IsAnswer(f) /\ Buffering

\* A response is being streamed: its frames wait for message_stop.
Collect(f) ==
    /\ Waits(f)
    /\ ui' = [ui EXCEPT !.buffer.got = Append(@, f)]
    /\ blurred' = IF HasPlaceholder THEN blurred ELSE blurred \cup {f.item}
    /\ UNCHANGED <<legsBlurred, adrift>>

\* The frame has nothing but a tool use that is in the bubble already.
Repeats(f, b) ==
    /\ f.kind = "tool" /\ f.use # "none"
    /\ \E i \in DOMAIN file : file[i].use = f.use /\ file[i].item \in b.parts

\* A bubble has the id of the response: the frame's text takes the place of
\* the bubble's, and its thoughts and its tools are added, each tool use once.
Merge(f) ==
    LET m == Live(f) IN
    /\ IsAnswer(f) /\ ~Buffering
    /\ m.id # NoId /\ m.id \in Ids
    /\ LET i == First(WithId(m.id))
           old == ui.bubbles[i]
           added == IF Repeats(f, old) THEN {} ELSE Bubble(f, m).parts
           new == [Bubble(f, m) EXCEPT !.parts = added \cup old.parts]
       IN  /\ ui' = [ui EXCEPT !.bubbles[i] = new,
                               !.last = IF old.streaming THEN @ ELSE Time(f)]
           /\ blurred' = blurred \cup Texts(old) \cup ({f.item} \ added)
    /\ UNCHANGED <<legsBlurred, adrift>>

\* Without an id it takes the place of the last bubble with a caret.
Replace(f) ==
    LET m == Live(f) IN
    /\ IsAnswer(f) /\ ~Buffering
    /\ m.id = NoId /\ Streaming # {}
    /\ LET i == Latest(Streaming)
           old == ui.bubbles[i]
       IN  /\ ui' = [ui EXCEPT !.bubbles[i] =
                        [Bubble(f, m) EXCEPT !.id = old.id]]
           /\ blurred' = blurred \cup ((Texts(old) \cup old.parts) \ {f.item})
    /\ UNCHANGED <<legsBlurred, adrift>>

Pushed(f) ==
    [ui EXCEPT !.bubbles = Append(@, Bubble(f, Live(f))),
               !.last = Time(f), !.legs = ApplyOnPage(@, f)]

\* The message is new; an interrupt or a launch ends the streaming.
Push(f) ==
    LET m == Live(f) IN
    /\ ~Waits(f)
    /\ IsAnswer(f) => IF m.id = NoId THEN Streaming = {} ELSE m.id \notin Ids
    /\ ui' = IF m.subtype \in {"interrupt", "client_launched"}
             THEN Stopped(Pushed(f)) ELSE Pushed(f)
    /\ blurred' = IF m.subtype \in {"interrupt", "client_launched"}
                  THEN blurred \cup Dropped(ui) ELSE blurred
    /\ UNCHANGED <<legsBlurred, adrift>>

\* handleSessionMessage
Read ==
    /\ view = "here" /\ unread # <<>>
    /\ LET e == Head(unread) IN
       \/ StartStream(e) \/ StreamText(e) \/ StopStream(e)
       \/ /\ e.kind \notin Pieces
          /\ Collect(e) \/ Merge(e) \/ Replace(e) \/ Push(e)
    /\ unread' = Tail(unread)
    /\ UNCHANGED <<serverVars, had, view, page, news>>

-----------------------------------------------------------------------------
(* Loading and reloading.                                                  *)

\* loadMessages: the answer replaces the list.
History(frames) ==
    [i \in DOMAIN frames |-> Bubble(frames[i], Reloaded(frames[i]))]

\* What is stored and will be told later.
Pending == {f.item : f \in notices} \cup {reader.item}

\* hydrateBackgroundAgents comes before loadMessages.  The request makes a
\* cold registry read the file.
Visit ==
    /\ view = "away" /\ session # "terminated"
    /\ view' = "hydrating" /\ registry' = Hydrated
    /\ page' = [page EXCEPT !.legs = Hydrated.legs]
    /\ legsBlurred' = (legsBlurred
                         \/ (~registry.warm /\ reader.kind \in TaskKinds))
    /\ UNCHANGED <<script, file, reader, notices, session, had,
                   news, unread, ui, blurred, adrift>>

Ask ==
    /\ view = "hydrating"
    /\ view' = "loading"
    /\ ui' = [ui EXCEPT !.legs = page.legs]
    /\ page' = [frames |-> file, legs |-> <<>>]
    /\ unread' = <<>>
    /\ legsBlurred' = (legsBlurred \/ page.legs # registry.legs)
    /\ UNCHANGED <<serverVars, had, news, blurred,
                   adrift>>

\* Who has read something meanwhile, or reads it afterwards, is told twice or
\* not at all.
Blur(frames) ==
    blurred' = blurred \cup (Items(frames) \cap (Items(unread) \cup Pending))
                       \cup ((Shown(ui.bubbles) \cup Items(ui.buffer.got))
                             \ Items(frames))

Loaded ==
    /\ view = "loading"
    /\ view' = "here"
    /\ ui' = [ui EXCEPT !.bubbles = History(page.frames),
                        !.last = IF page.frames = <<>> THEN @
                                 ELSE Time(Last(page.frames))]
    /\ Blur(page.frames)
    /\ page' = NoAnswer
    /\ UNCHANGED <<serverVars, had, news, unread, legsBlurred,
                   adrift>>

\* The watcher of the session's state ends the streaming.
HearEnd ==
    /\ news = "terminated"
    /\ news' = "none"
    /\ ui' = Stopped(ui)
    /\ blurred' = blurred \cup Dropped(ui)
    /\ adrift' = (adrift \/ \E i \in DOMAIN unread : unread[i].kind = "start")
    /\ UNCHANGED <<serverVars, had, view, page, unread, legsBlurred>>

-----------------------------------------------------------------------------
(* checkSessionStall: the poll has hung.                                   *)

Stall ==
    /\ Spend("stall")
    /\ view = "here"
    /\ view' = "stalled"
    /\ UNCHANGED <<serverVars, page, news, unread, ui, ghosts>>

\* The file is in the order of time.
Newer ==
    SubSeq(file, 1 + Cardinality({i \in DOMAIN file : Time(file[i]) <= ui.last}),
           Len(file))

\* A list in the order of time, and otherwise in its own.
Inserted(list, b) ==
    InsertAt(list, 1 + Cardinality({i \in DOMAIN list : list[i].at <= b.at}), b)
ByTime(list) ==
    LET sorted[k \in 0 .. Len(list)] ==
            IF k = 0 THEN <<>> ELSE Inserted(sorted[k - 1], list[k])
    IN  sorted[Len(list)]

\* What is new comes last when it is newer than the last that there is.
Joined(old, new) ==
    IF old = <<>> \/ Head(new).at > Last(old).at THEN old \o new
    ELSE ByTime(old \o new)

\* syncMessages: what is newer than the last message is merged by time, and a
\* page without a message asks for nothing.
Sync ==
    /\ view = "stalled"
    /\ view' = "synced"
    /\ ui' = IF ui.last = 0 \/ Newer = <<>> THEN ui
             ELSE LET all == Joined(ui.bubbles, History(Newer)) IN
                  [ui EXCEPT !.bubbles = all, !.last = Last(all).at,
                             !.legs = FoldLeft(ApplyOnPage, @, Newer)]
    /\ blurred' = IF ui.last = 0 THEN blurred
                  ELSE blurred \cup (Items(Newer)
                                       \cap (Shown(ui.bubbles)
                                             \cup Items(ui.buffer.got)))
    /\ UNCHANGED <<serverVars, had, page, news, unread, legsBlurred,
                   adrift>>

\* startSessionPolling: the cursor goes to the end, past what has been told
\* since the answer to syncMessages.
Reconnect ==
    LET settled == (UNION {Shows(ui.bubbles[i]) : i \in DOMAIN ui.bubbles \ Streaming})
                      \cup Items(ui.buffer.got)
    IN
    /\ view = "synced"
    /\ view' = "here"
    /\ unread' = <<>>
    /\ blurred' = blurred \cup (Items(unread) \ settled) \cup Pending
    /\ legsBlurred' = (legsBlurred \/ ui.legs # registry.legs
                         \/ reader.kind \in TaskKinds)
    /\ adrift' = (adrift \/ Buffering \/ \E i \in DOMAIN unread :
                                              unread[i].kind \in Pieces)
    /\ UNCHANGED <<serverVars, had, page, news, ui>>

-----------------------------------------------------------------------------
Next ==
    \/ Emit \/ Store \/ Publish
    \/ \E f \in notices : PublishNotice(f)
    \/ Send \/ Interrupt \/ Terminate \/ Launch
    \/ Visit \/ Ask \/ Loaded \/ Read
    \/ HearEnd \/ Stall \/ Sync \/ Reconnect

Spec == Init /\ [][Next]_vars

-----------------------------------------------------------------------------
\* Nothing is under way between the stream and the page.
AtRest ==
    /\ reader = NoFrame /\ notices = {}
    /\ view = "here" /\ news = "none" /\ unread = <<>>

\* Every frame shows the same on the page that was told of it and after a
\* reload, but for the blocks beside a text (SameFace).
ReloadShowsTheSame == \A i \in DOMAIN file : SameFace(file[i])

\* A frame with a text or with blocks; init and result frames have neither.
Visible(f) ==
    Words(Live(f)) # {} \/ Live(f).names \cap BlockNames # {}

\* Every frame of the file with a text, a thought, a tool use or a result is on
\* the page in one bubble, however the pieces of a response, its frames and
\* other messages came, and whenever the page was opened.  A tool use that was
\* sent twice is there twice, as in the history, unless both frames came after
\* the response and were merged (blurred).
ShownOnce ==
    AtRest /\ ~Buffering =>
        \A x \in {f.item : f \in {f \in ToSet(file) : Visible(f)}} \ blurred :
            Cardinality({i \in DOMAIN ui.bubbles :
                            x \in Shows(ui.bubbles[i])}) = 1

\* Between responses no bubble has a caret and no buffer takes the next
\* message in.
NoCaretLeft ==
    AtRest /\ ~adrift /\ (script = <<>> \/ Head(script).kind = "start") =>
        ~Buffering /\ Streaming = {}

\* The registry of the agents' legs that was fed as the frames came is the
\* one a restart rebuilds from the file, and the page has the same legs.
LegsAgree ==
    AtRest /\ ~legsBlurred => registry.legs = Replayed /\ ui.legs = Replayed
=============================================================================
