---------------------------- MODULE MCToolCalls ----------------------------
(* Two tools and one mishap, or one tool and any three mishaps. *)
EXTENDS ToolCalls, TLC

Symmetry == Permutations(Tools)

AllMishaps == {"interrupt", "terminate", "restart", "crash", "stall"}
=============================================================================
