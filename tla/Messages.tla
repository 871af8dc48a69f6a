------------------------------ MODULE Messages ------------------------------
(***************************************************************************)
(* What becomes of one frame of the CLI's stream, or of one message the    *)
(* server makes itself, on its two ways to the browser: parsed and told at *)
(* once (Live), or stored and given with the history (Reloaded).           *)
(*                                                                         *)
(* A text is a sequence: the item itself, the parser's placeholder, which  *)
(* the pages hide, or nothing.  Text that is put together from a frame's   *)
(* fields is the item, whatever its wording.  Of the metadata there are    *)
(* the names of the entries that are filled in.                            *)
(***************************************************************************)
EXTENDS Integers, Sequences, FiniteSets, SequencesExt

NoId == "no id"
Filler == <<"filler">>

\* A frame: what it is, the response and the tool use it belongs to.  The
\* item stands for all of its content.
Frame(item, kind, resp, use) ==
    [item |-> item, kind |-> kind, resp |-> resp, use |-> use]

\* What the server makes itself is a dict.
Made == {"said", "interrupt", "interrupt_success", "client_launched"}
TaskKinds == {"task_started", "task_progress", "task_notification",
              "task_updated"}

\* The blocks of a frame, by what the page has them in: an answer has a text,
\* tool uses, thoughts or several of these, and results may come with a text.
BlockNames == {"tool_uses", "tool_results", "thinking"}

Blocks ==
    [text |-> {}, tool |-> {"tool_uses"}, think |-> {"thinking"},
     think_tool |-> {"thinking", "tool_uses"},
     text_tool |-> {"tool_uses"}, text_think |-> {"thinking"},
     text_think_tool |-> {"thinking", "tool_uses"},
     results |-> {"tool_results"}, text_results |-> {"tool_results"}]

TextAnswers == {"text", "text_tool", "text_think", "text_think_tool"}
Answers == TextAnswers \cup {"tool", "think", "think_tool"}

\* What the CLI sends is an object of the SDK, of one of its classes.
SentKinds ==
    Answers \cup TaskKinds \cup
    {"results", "text_results", "command", "done", "init", "mode", "retry",
     "hook", "agent_notice"}

Class ==
    [k \in SentKinds |->
        CASE k \in Answers -> "AssistantMessage"
          [] k \in {"results", "text_results", "command"} -> "UserMessage"
          [] k = "done" -> "ResultMessage"
          [] k \in {"init", "mode", "retry"} -> "SystemMessage"
          [] k \in {"hook", "agent_notice"} -> "HookEventMessage"
          [] OTHER -> k]

IsSystem(class) ==
    class \in TaskKinds \cup {"SystemMessage", "HookEventMessage"}

\* _convert_sdk_message: the type, and the text of the blocks.
Type(f) ==
    IF f.kind \in Made THEN IF f.kind = "said" THEN "user" ELSE "system"
    ELSE CASE Class[f.kind] = "AssistantMessage" -> "assistant"
           [] Class[f.kind] = "UserMessage" -> "user"
           [] Class[f.kind] = "ResultMessage" -> "result"
           [] OTHER -> "system"

Converted(f) ==
    IF f.kind \in TextAnswers \cup {"text_results", "command"} \cup Made
    THEN <<f.item>> ELSE <<>>

Parsed(type, subtype, text, id, names) ==
    [type |-> type, subtype |-> subtype, text |-> text, id |-> id,
     names |-> names]

-----------------------------------------------------------------------------
(* The handlers of message_parser.py.                                      *)

TaskStarted(f) ==
    Parsed("system", "task_started", <<f.item>>, NoId,
           {"task_id", "description", "task_session_id", "task_type", "uuid",
            "tool_use_id"})

TaskProgress(f) ==
    Parsed("system", "task_progress", <<f.item>>, NoId,
           {"task_id", "description", "task_session_id", "last_tool_name",
            "uuid", "tool_use_id", "usage"})

TaskNotification(f) ==
    Parsed("system", "task_notification", <<f.item>>, NoId,
           {"task_id", "status", "summary", "task_session_id", "output_file",
            "uuid", "tool_use_id", "usage"})

TaskUpdated(f) ==
    Parsed("system", "task_updated", <<f.item>>, NoId,
           {"task_id", "patch", "status", "task_session_id", "uuid"})

AgentNotification ==
    {"notification_type", "message", "title", "label", "uuid"}

\* SystemMessageHandler: an object of the SDK has no content, and what has
\* none made for it gets the placeholder.
System(f) ==
    CASE f.kind \in Made -> Parsed("system", f.kind, <<f.item>>, NoId, {})
      [] f.kind = "agent_notice" ->
            Parsed("system", "agent_notification", <<f.item>>, NoId,
                   AgentNotification \cup {"init_data"})
      [] f.kind = "hook" ->
            Parsed("system", "hook_response", <<f.item>>, NoId,
                   {"exit_code", "init_data"})
      [] f.kind = "retry" ->
            Parsed("system", "api_retry", <<f.item>>, NoId,
                   {"attempt", "max_retries", "wait_sec", "init_data"})
      [] f.kind = "mode" ->
            Parsed("system", "permission_mode_change", <<f.item>>, NoId,
                   {"permission_mode", "init_data"})
      [] OTHER -> Parsed("system", f.kind, Filler, NoId, {"init_data"})

\* AssistantMessageHandler reads the blocks and the id of the response only
\* when no text has been taken from them before: of a frame with a text the
\* tool uses and the thoughts are left out.
Assistant(f) ==
    IF Converted(f) # <<>>
    THEN Parsed("assistant", "none", Converted(f), NoId, {})
    ELSE Parsed("assistant", "none", Filler, f.resp, Blocks[f.kind])

\* UserMessageHandler reads the results whether there is a text or not;
\* local-command-stdout is taken out of its tags.
User(f) ==
    CASE f.kind = "command" ->
            Parsed("user", "local_command_response", <<f.item>>, NoId,
                   {"is_local_command_response"})
      [] f.kind = "results" ->
            Parsed("user", "none", Filler, NoId, Blocks[f.kind])
      [] f.kind = "text_results" ->
            Parsed("user", "none", <<f.item>>, NoId, Blocks[f.kind])
      [] OTHER -> Parsed("user", "none", <<f.item>>, NoId, {})

ResultNames ==
    {"usage", "model_usage", "duration_ms", "duration_api_ms",
     "total_cost_usd", "num_turns", "stop_reason", "errors",
     "permission_denials", "deferred_tool_use"}

Result(f) ==
    Parsed("result", "success", Filler, NoId,
           ResultNames \cup {"is_error", "api_error_status"})

\* UnknownMessageHandler: the frame as it is printed.
Unknown(f) == Parsed("unknown", "none", <<f.item>>, NoId, {"unknown_format"})

\* Faulty: the general handler of system messages comes first.
HandlersSystemFirst ==
    <<"system", "task_started", "task_progress", "task_notification",
      "task_updated", "assistant", "user", "result", "unknown">>

\* _register_default_handlers.  Those that ask for a type of content block,
\* of permission message or of error are left out: no frame has one.
Handlers ==
    <<"task_started", "task_progress", "task_notification", "task_updated",
      "system", "assistant", "user", "result", "unknown">>

\* can_handle: by the class of the SDK's object, of which the Task messages
\* and hook events are system messages too, or by the type of a dict.
CanHandle(h, f) ==
    \/ h = "unknown"
    \/ f.kind \in Made /\ h = Type(f)
    \/ /\ f.kind \notin Made
       /\ h = IF h \in TaskKinds THEN Class[f.kind] ELSE Type(f)

\* parse_message: the first handler that can.
Parse(f) ==
    LET h == Handlers[SelectInSeq(Handlers, LAMBDA each : CanHandle(each, f))]
    IN
    CASE h = "task_started" -> TaskStarted(f)
      [] h = "task_progress" -> TaskProgress(f)
      [] h = "task_notification" -> TaskNotification(f)
      [] h = "task_updated" -> TaskUpdated(f)
      [] h = "system" -> System(f)
      [] h = "assistant" -> Assistant(f)
      [] h = "user" -> User(f)
      [] h = "result" -> Result(f)
      [] OTHER -> Unknown(f)

\* process_message adds where a message comes from; what cannot be parsed, and
\* would be told as an error, is in no frame.
Processed(f) == Parse(f)

\* What the poll queue gets.
Live(f) == Processed(f)

-----------------------------------------------------------------------------
(* _convert_stored_message_to_websocket, from the class and the fields that *)
(* sdk_message_to_stored has kept.                                         *)

StoredText(f) == Converted(f)

\* The values are those of the live handlers; a task_updated has no session of
\* the task.
StoredTask(f) ==
    LET task == CASE f.kind = "task_started" -> TaskStarted(f)
                  [] f.kind = "task_progress" -> TaskProgress(f)
                  [] f.kind = "task_notification" -> TaskNotification(f)
                  [] OTHER -> [TaskUpdated(f) EXCEPT
                                  !.names = @ \ {"task_session_id"}]
    IN  [task EXCEPT !.names = @ \cup {"init_data"}]

StoredSystem(f) ==
    IF f.kind \in {"hook", "agent_notice", "retry", "mode"} THEN System(f)
    ELSE Parsed("system", f.kind, <<>>, NoId, {"init_data"})

StoredOther(f) ==
    CASE Type(f) = "assistant" ->
            Parsed("assistant", "none", StoredText(f), NoId, Blocks[f.kind])
      [] Type(f) = "user" ->
            Parsed("user", "none", StoredText(f), NoId,
                   IF f.kind = "command" THEN {} ELSE Blocks[f.kind])
      [] OTHER -> Parsed("result", "success", <<>>, NoId, ResultNames)

\* What the server made itself is stored as it was parsed.
StoredMade(f) == Processed(f)

\* get_session_messages, for one entry of the file.
Reloaded(f) ==
    IF f.kind \in Made THEN StoredMade(f)
    ELSE IF Class[f.kind] \in TaskKinds THEN StoredTask(f)
    ELSE IF IsSystem(Class[f.kind]) THEN StoredSystem(f)
    ELSE StoredOther(f)

-----------------------------------------------------------------------------
\* The text a page shows of a message, or of a bubble.
Words(m) == ToSet(m.text) \ {"filler"}

\* A frame shows the same text after a reload, and the entries the page had
\* are there, but for a local command, which shows its tags, and for what the
\* stored form does not keep.  Its blocks are the same too, but for those an
\* answer has beside a text: the page that is told of it gets none of them,
\* and the one that loads it has them all.
SameFace(f) ==
    /\ Live(f).type = Reloaded(f).type
    /\ f.kind # "command" =>
          /\ Words(Live(f)) = Words(Reloaded(f))
          /\ Live(f).subtype = Reloaded(f).subtype
          /\ Live(f).names \ Reloaded(f).names
                \subseteq {"is_error", "api_error_status", "task_session_id"}
    /\ Live(f).names \cap BlockNames =
          IF f.kind \in TextAnswers THEN {}
          ELSE Reloaded(f).names \cap BlockNames
    /\ f.kind \in TextAnswers => Reloaded(f).names = Blocks[f.kind]
=============================================================================
