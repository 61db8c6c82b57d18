------------------------------ MODULE McpStdio ------------------------------
(***************************************************************************)
(* One stdio session of the MCP server (crates/mcp/src/server.rs, with the *)
(* registry of tools.rs).  A reader task moves lines from stdin into a     *)
(* bounded channel; the session loop takes them out one at a time, awaits  *)
(* the handler and prints the reply.  Tools may be registered meanwhile.   *)
(*                                                                         *)
(* A line is a record: its kind (what parsing makes of it), the JSON-RPC   *)
(* id, and the tool a tools/call names with its arguments: none, without   *)
(* the field the tool requires, with a query that is no SELECT (refused),  *)
(* or as the tool wants them (fine).                                       *)
(***************************************************************************)
EXTENDS Naturals, Sequences, FiniteSets

CONSTANTS Lines,        \* the lines a client may write
          Tools,        \* names of tools that may be registered
          NoId,         \* no id, or null
          NoTool,       \* tools/call without a name
          One,          \* the id 1
          Capacity,     \* of the channel (256 in the code)
          MaxLines      \* bound: lines the client writes

Arguments == {"none", "lacking", "refused", "fine"}

Kinds == {"blank", "not_utf8", "garbage", "no_method", "initialize", "bad_initialize",
          "list_tools", "call_tool", "ping", "other_method"}

ASSUME McpAssumption ==
    /\ \A m \in Lines : m.kind \in Kinds /\ m.arguments \in Arguments
    /\ Capacity \in Nat \ {0} /\ MaxLines \in Nat

Outcomes == {"result", "parse_error", "invalid_request", "invalid_params",
             "method_not_found", "tool_failed", "tool_error", "tool_not_found"}

VARIABLES written,      \* every line the client wrote, in order
          stdin,        \* lines in the pipe
          stdinOpen,    \* the client has not closed stdin
          stdoutOpen,   \* the client has not closed stdout
          reader,       \* the reader task: reading, sending, ended
          held,         \* the line the reader is about to send
          channel,      \* lines in the channel
          loop,         \* the session: receiving, handling, calling, replying,
                        \* shut down or panicked
          message,      \* the line the session works on
          reply,        \* the reply it is about to print
          replies,      \* what was printed: [id, outcome]
          answered,     \* history: the lines that were replied to
          registered    \* the registry's tools

mcpVars == <<written, stdin, stdinOpen, stdoutOpen, reader, held, channel,
             loop, message, reply, replies, answered, registered>>
pipeVars == <<written, stdin, stdinOpen, stdoutOpen>>
sessionVars == <<loop, message, reply, replies, answered>>

Blank == [kind |-> "blank", id |-> NoId, tool |-> NoTool, arguments |-> "none"]
ReplyWithoutId(id, outcome) ==      \* mutant: the id is lost
    [id |-> NoId, outcome |-> outcome]
Reply(id, outcome) == [id |-> id, outcome |-> outcome]
NoReply == Reply(NoId, "result")

McpInit ==
    /\ written = <<>> /\ stdin = <<>> /\ stdinOpen = TRUE /\ stdoutOpen = TRUE
    /\ reader = "reading" /\ held = Blank
    /\ channel = <<>>
    /\ loop = "receiving" /\ message = Blank /\ reply = NoReply
    /\ replies = <<>> /\ answered = <<>>
    /\ registered = {}

-----------------------------------------------------------------------------
(* The client, an agent at the other end of the pipes.                      *)
ClientWrites(m) ==
    /\ stdinOpen /\ Len(written) < MaxLines
    /\ written' = Append(written, m)
    /\ stdin' = Append(stdin, m)
    /\ UNCHANGED <<stdinOpen, stdoutOpen, reader, held, channel, registered>>
    /\ UNCHANGED sessionVars

ClientClosesStdin ==
    /\ stdinOpen
    /\ stdinOpen' = FALSE
    /\ UNCHANGED <<written, stdin, stdoutOpen, reader, held, channel, registered>>
    /\ UNCHANGED sessionVars

ClientClosesStdout ==
    /\ stdoutOpen
    /\ stdoutOpen' = FALSE
    /\ UNCHANGED <<written, stdin, stdinOpen, reader, held, channel, registered>>
    /\ UNCHANGED sessionVars

(* ToolRegistry::register, by whoever holds the registry.                   *)
Register(t) ==
    /\ t \notin registered
    /\ registered' = registered \cup {t}
    /\ UNCHANGED <<reader, held, channel>> /\ UNCHANGED pipeVars /\ UNCHANGED sessionVars

-----------------------------------------------------------------------------
(* The reader task.  A line that is not UTF-8 is a read error and ends it.  *)
ReadLine ==
    /\ reader = "reading" /\ stdin # <<>>
    /\ stdin' = Tail(stdin)
    /\ IF Head(stdin).kind = "not_utf8"
       THEN reader' = "ended" /\ UNCHANGED held
       ELSE reader' = "sending" /\ held' = Head(stdin)
    /\ UNCHANGED <<written, stdinOpen, stdoutOpen, channel, registered>> /\ UNCHANGED sessionVars

ReadEof ==
    /\ reader = "reading" /\ stdin = <<>> /\ ~stdinOpen
    /\ reader' = "ended"
    /\ UNCHANGED <<held, channel, registered>> /\ UNCHANGED pipeVars /\ UNCHANGED sessionVars

(* tx_clone.send: waits for room, fails when the session dropped rx.        *)
ReceiverAlive == loop \notin {"shut_down", "panicked"}

SendLineOrDrop ==           \* mutant: a full channel loses the line
    /\ reader = "sending" /\ ReceiverAlive
    /\ channel' = IF Len(channel) < Capacity THEN Append(channel, held) ELSE channel
    /\ reader' = "reading"
    /\ UNCHANGED <<held, registered>> /\ UNCHANGED pipeVars /\ UNCHANGED sessionVars

SendLineAnyway ==           \* mutant: an unbounded channel
    /\ reader = "sending" /\ ReceiverAlive
    /\ channel' = Append(channel, held)
    /\ reader' = "reading"
    /\ UNCHANGED <<held, registered>> /\ UNCHANGED pipeVars /\ UNCHANGED sessionVars

SendLine ==
    /\ reader = "sending" /\ ReceiverAlive
    /\ Len(channel) < Capacity
    /\ channel' = Append(channel, held)
    /\ reader' = "reading"
    /\ UNCHANGED <<held, registered>> /\ UNCHANGED pipeVars /\ UNCHANGED sessionVars

SendFails ==
    /\ reader = "sending" /\ ~ReceiverAlive
    /\ reader' = "ended"
    /\ UNCHANGED <<held, channel, registered>> /\ UNCHANGED pipeVars /\ UNCHANGED sessionVars

-----------------------------------------------------------------------------
(* rx.recv: the next line, or None when every sender is gone.  The session  *)
(* itself keeps the tx it cloned for the reader, so one sender is left.     *)
SendersLeft == {"session"} \cup (IF reader = "ended" THEN {} ELSE {"reader"})

Receive ==
    /\ loop = "receiving"
    /\ channel # <<>> \/ SendersLeft = {}
    /\ IF channel # <<>>
       THEN /\ message' = Head(channel)
            /\ channel' = Tail(channel)
            /\ loop' = IF Head(channel).kind = "blank" THEN "receiving" ELSE "handling"
       ELSE /\ loop' = "shut_down"
            /\ UNCHANGED <<message, channel>>
    /\ UNCHANGED <<reply, replies, answered, reader, held, registered>> /\ UNCHANGED pipeVars

(* from_str and handle_message for what needs no handler: the reply by kind *)
(* of line (which tools a tools/list names is left out).  initialize is      *)
(* answered with the id 1, its error with none.                             *)
DirectReply(m) ==
    CASE m.kind = "garbage"        -> Reply(NoId, "parse_error")
      [] m.kind = "no_method"      -> Reply(m.id, "invalid_request")
      [] m.kind = "initialize"     -> Reply(One, "result")
      [] m.kind = "bad_initialize" -> Reply(NoId, "invalid_params")
      [] m.kind = "list_tools"     -> Reply(m.id, "result")
      [] m.kind = "ping"           -> Reply(m.id, "result")
      [] m.kind = "other_method"   -> Reply(m.id, "method_not_found")

HandleDirectly ==
    /\ loop = "handling" /\ message.kind # "call_tool"
    /\ reply' = DirectReply(message)
    /\ loop' = "replying"
    /\ UNCHANGED <<message, replies, answered, reader, held, channel, registered>>
    /\ UNCHANGED pipeVars

(* handle_call_tool and ToolRegistry::call_tool: the handler is looked up   *)
(* once, then awaited.                                                      *)
Found(name) == name \in registered

CallTool ==
    /\ loop = "handling" /\ message.kind = "call_tool"
    /\ \/ /\ message.tool = NoTool
          /\ reply' = Reply(message.id, "invalid_params") /\ loop' = "replying"
       \/ /\ message.tool # NoTool /\ ~Found(message.tool)
          /\ reply' = Reply(message.id, "tool_not_found") /\ loop' = "replying"
       \/ /\ message.tool # NoTool /\ Found(message.tool)
          /\ loop' = "calling" /\ UNCHANGED reply
    /\ UNCHANGED <<message, replies, answered, reader, held, channel, registered>>
    /\ UNCHANGED pipeVars

(* What a tool's execute may return: an error is "tool_failed", a result    *)
(* with is_error "tool_error".  A handler that is none of the three built   *)
(* in may return anything.                                                  *)
QueryDatabase(arguments) ==
    IF arguments = "fine" THEN {"result"} ELSE {"tool_failed"}
DiscoverFiles(arguments) ==         \* the directory may exist or not
    IF arguments \in {"none", "lacking"} THEN {"tool_failed"} ELSE {"result", "tool_error"}
SystemInfo(arguments) == {"result"}

Execute(tool, arguments) ==
    CASE tool = "query_database" -> QueryDatabase(arguments)
      [] tool = "discover_files" -> DiscoverFiles(arguments)
      [] tool = "system_info"    -> SystemInfo(arguments)
      [] OTHER -> {"result", "tool_failed", "tool_error"}

ToolFailureEscapes ==       \* mutant: a handler's error ends the session
    /\ loop = "calling"
    /\ \/ reply' = Reply(message.id, "result") /\ loop' = "replying"
       \/ loop' = "shut_down" /\ UNCHANGED reply
    /\ UNCHANGED <<message, replies, answered, reader, held, channel, registered>>
    /\ UNCHANGED pipeVars

ToolReturns ==
    /\ loop = "calling"
    /\ \E outcome \in Execute(message.tool, message.arguments) :
          reply' = Reply(message.id, outcome)
    /\ loop' = "replying"
    /\ UNCHANGED <<message, replies, answered, reader, held, channel, registered>>
    /\ UNCHANGED pipeVars

(* println!: it panics when nobody reads stdout, and the session ends.      *)
WriteReply ==
    /\ loop = "replying"
    /\ IF stdoutOpen
       THEN /\ replies' = Append(replies, reply)
            /\ answered' = Append(answered, message)
            /\ loop' = "receiving"
       ELSE /\ loop' = "panicked"
            /\ UNCHANGED <<replies, answered>>
    /\ UNCHANGED <<message, reply, reader, held, channel, registered>> /\ UNCHANGED pipeVars

-----------------------------------------------------------------------------
ReaderStep == ReadLine \/ ReadEof \/ SendLine \/ SendFails
SessionStep == Receive \/ HandleDirectly \/ CallTool \/ ToolReturns \/ WriteReply

McpNext ==
    \/ \E m \in Lines : ClientWrites(m)
    \/ ClientClosesStdin \/ ClientClosesStdout
    \/ \E t \in Tools : Register(t)
    \/ ReaderStep
    \/ SessionStep

McpSpec == McpInit /\ [][McpNext]_mcpVars

(* The runtime polls both tasks, and a tool that was called returns.        *)
FairMcpSpec == McpSpec /\ WF_mcpVars(ReaderStep) /\ WF_mcpVars(SessionStep)

-----------------------------------------------------------------------------
Ids == {m.id : m \in Lines} \cup {NoId, One}
Answer == [id : Ids, outcome : Outcomes]

McpTypeOK ==
    /\ written \in Seq(Lines) /\ Len(written) <= MaxLines
    /\ stdin \in Seq(Lines)
    /\ stdinOpen \in BOOLEAN /\ stdoutOpen \in BOOLEAN
    /\ reader \in {"reading", "sending", "ended"}
    /\ held \in Lines \cup {Blank}
    /\ channel \in Seq(Lines) /\ Len(channel) <= Capacity
    /\ loop \in {"receiving", "handling", "calling", "replying", "shut_down", "panicked"}
    /\ message \in Lines \cup {Blank}
    /\ reply \in Answer /\ replies \in Seq(Answer)
    /\ answered \in Seq(Lines) /\ Len(replies) = Len(answered)
    /\ registered \in SUBSET Tools

(* The positions of the lines that are to be answered: those the reader     *)
(* gets to, except the blank ones.                                          *)
Readable(i) == \A j \in 1..i : written[j].kind # "not_utf8"
Expected == {i \in DOMAIN written : Readable(i) /\ written[i].kind # "blank"}

(* Lines are answered in the order in which the client wrote them, none is  *)
(* skipped and none is answered twice, whatever piles up in the channel;    *)
(* and a reply can be matched to its request: it carries the request's id,  *)
(* unless it is about an initialize or a line that does not parse, for      *)
(* which the server's id is fixed.                                          *)
CarriesId(r, m) == m.kind \notin {"initialize", "bad_initialize", "garbage"} => r.id = m.id

AnswersInOrder ==
    /\ \E at \in [DOMAIN answered -> Expected] :
          /\ \A i, j \in DOMAIN answered : i < j => at[i] < at[j]
          /\ \A i \in DOMAIN answered :
                /\ answered[i] = written[at[i]]
                /\ \A k \in Expected : k < at[i] => \E j \in DOMAIN answered : at[j] = k
    /\ \A i \in DOMAIN replies : CarriesId(replies[i], answered[i])

(* Every line the reader can read is answered in the end, unless the client *)
(* stops listening: a full channel only delays the reader, and a client     *)
(* that pauses gets all the answers it waits for.                           *)
EveryLineAnswered ==
    (Len(answered) < Cardinality(Expected))
        ~> (Len(answered) = Cardinality(Expected) \/ ~stdoutOpen)

(* README.md:231-232 runs the server on the output of echo: when its client *)
(* closes stdin, the session answers what is left and shuts down (l.200).   *)
ShutsDownAtEof == ~stdinOpen ~> loop \in {"shut_down", "panicked"}
=============================================================================
