-------------------------- MODULE MCSessionAnalysis -------------------------
(***************************************************************************)
(* Requests for SessionAnalysis: of two models, warm, cold, at the bar of  *)
(* 80% and without a cache, with chains that repeat, rotate their last     *)
(* segment, change a message, or change the tools; and results of a tool   *)
(* that reads a file, of one nobody knows and of an MCP server.            *)
(***************************************************************************)
EXTENDS SessionAnalysis

CONSTANTS big, small

Shape(model, input, cread, cwrite, short, chain) ==
    [model |-> model, input |-> input, cread |-> cread, cwrite |-> cwrite,
     short |-> short, chain |-> chain]

FewShapes == {Shape(big, 1, 0, 9, TRUE, <<1, 2, 3, 4>>),       \* cold, writes for 5 minutes
              Shape(big, 0, 8, 2, FALSE, <<1, 2, 3, 5, 6>>),   \* at the bar, marker moved
              Shape(small, 2, 1, 2, FALSE, <<1, 2, 3>>),
              Shape(small, 5, 0, 0, FALSE, <<8, 9>>)}          \* no cache, other tools

Plain(tokens) == [tool |-> "", mcp |-> "", file |-> "", tokens |-> tokens]

FewBodies == [kind \in Kinds |->
    CASE kind = "thinking"    -> <<Plain(1)>>
      [] kind = "user_text"   -> <<Plain(2)>>
      [] kind = "tool_result" -> <<[Plain(2) EXCEPT !.tool = "Read", !.file = "main.go"], Plain(3),
                                   [Plain(1) EXCEPT !.tool = "search", !.mcp = "notes"]>>]
=============================================================================
