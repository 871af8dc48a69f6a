---------------------------- MODULE MCTranscript ----------------------------
(* What the CLI may send: a response with a thought, a text with a tool use  *)
(* and the result; one whose tool comes late, another whose tool is sent     *)
(* twice, and a text that was not streamed; an agent that is started, ends   *)
(* and is resumed; and what else there is.                                   *)
EXTENDS Transcript

Piece(kind, resp) == Frame("none", kind, resp, "none")
Delta(item, resp) == Frame(item, "delta", resp, "none")
Part(item, kind, resp) == Frame(item, kind, resp, "none")
Tool(item, kind, resp, use) == Frame(item, kind, resp, use)

MCScripts ==
    { << Piece("start", "r"), Part("w", "think", "r"), Delta("t", "r"),
         Tool("t", "text_tool", "r", "a"), Piece("stop", "r"),
         Part("x", "results", NoId) >>,
      << Piece("start", "r"), Piece("stop", "r"), Tool("u", "tool", "r", "a"),
         Tool("v", "tool", "r", "a"), Piece("start", "s"),
         Tool("y", "tool", "s", "b"), Tool("z", "think_tool", "s", "b"),
         Piece("stop", "s"), Part("t", "text", NoId) >>,
      << Frame("b", "task_started", NoId, "u"),
         Frame("n", "task_notification", NoId, "u"),
         Frame("c", "task_started", NoId, "v"),
         Frame("p", "task_progress", NoId, "v"),
         Frame("k", "task_updated", NoId, "none"),
         Frame("m", "mode", NoId, "none") >>,
      << Frame("i", "init", NoId, "none"), Frame("h", "hook", NoId, "none"),
         Frame("a", "agent_notice", NoId, "none"),
         Frame("y", "retry", NoId, "none"), Frame("d", "done", NoId, "none"),
         Frame("l", "command", NoId, "none") >>,
      << Part("e", "text_think", NoId), Tool("f", "text_think_tool", "r", "a"),
         Part("g", "text_results", NoId) >> }
=============================================================================
