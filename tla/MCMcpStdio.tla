----------------------------- MODULE MCMcpStdio -----------------------------
(* A client that writes up to three lines, of every kind the server tells  *)
(* apart, and two tools that are registered at any time.                   *)
EXTENDS McpStdio

CONSTANTS two

Line(kind, id) == [kind |-> kind, id |-> id, tool |-> NoTool, arguments |-> "none"]
Call(id, tool, arguments) == [Line("call_tool", id) EXCEPT !.tool = tool, !.arguments = arguments]
MCLines ==
    {Line("blank", NoId), Line("not_utf8", NoId), Line("garbage", NoId), Line("no_method", NoId),
     Line("initialize", two), Line("bad_initialize", two), Line("list_tools", two),
     Call(One, NoTool, "none"), Call(two, "query_database", "refused"),
     Call(two, "discover_files", "fine"), Line("ping", One), Line("other_method", NoId)}
MCTools == {"query_database", "discover_files"}
=============================================================================
