------------------------------- MODULE McpTcp -------------------------------
(***************************************************************************)
(* TcpTransport of crates/mcp/src/transport.rs: tasks that send through    *)
(* the writer's mutex of one end, and tasks that receive through the       *)
(* reader's mutex of the other.  A message is a line: two pieces of JSON   *)
(* and the newline.  write_all and read_line wait wherever the socket      *)
(* makes them, and a future that is dropped there leaves the line torn:    *)
(* the writer's in the stream, the reader's in a String that is gone.      *)
(***************************************************************************)
EXTENDS Naturals, Sequences, FiniteSets, SequencesExt, Functions

CONSTANTS Senders,      \* tasks that send one message each; they name it
          Receivers,    \* tasks that receive, again and again
          Nobody,       \* no task
          Room          \* bound: pieces the two sockets hold

ASSUME TcpAssumption ==
    /\ Nobody \notin Senders \cup Receivers /\ Senders \cap Receivers = {}
    /\ IsFiniteSet(Senders)
    /\ Room \in Nat \ {0}

VARIABLES pc,           \* where each task is
          writer,       \* the sender that holds the writer's mutex
          reader,       \* the receiver that holds the reader's mutex
          stream,       \* pieces written and not yet read
          wire,         \* open, or shut down by the sending end, or reset
          line,         \* what the holder of the reader's mutex has read
          toWrite,      \* pieces the holder of the writer's mutex has yet to write
          received,     \* the results of receive that are Ok, in order
          drops         \* history: futures dropped in the middle of a line

tcpVars == <<pc, writer, reader, stream, wire, line, toWrite, received, drops>>
sendVars == <<writer, toWrite>>
receiveVars == <<reader, line, received>>

SenderStages == {"idle", "locking", "writing", "sent", "failed", "dropped"}
ReceiverStages == {"idle", "locking", "reading", "closed", "failed"}

LastJson(m) == [of |-> m, part |-> 2]
Newline(m) == [of |-> m, part |-> 3]
LineOf(m) == <<[of |-> m, part |-> 1], LastJson(m), Newline(m)>>

TcpInit ==                          \* connect: both halves, unlocked
    /\ pc = [t \in Senders \cup Receivers |-> "idle"]
    /\ writer = Nobody /\ reader = Nobody
    /\ stream = <<>> /\ wire = "open"
    /\ line = <<>> /\ toWrite = <<>>
    /\ received = <<>> /\ drops = 0

Goto(t, stage) == pc' = [pc EXCEPT ![t] = stage]

-----------------------------------------------------------------------------
(* send: the line is built before the lock, and written under it.           *)
Send(s) ==
    /\ pc[s] = "idle"
    /\ Goto(s, "locking")
    /\ UNCHANGED <<stream, wire, drops>> /\ UNCHANGED sendVars /\ UNCHANGED receiveVars

LockWriterAnyway(s) ==      \* mutant: no mutex around the writer
    /\ pc[s] = "locking"
    /\ writer' = s /\ toWrite' = LineOf(s)
    /\ Goto(s, "writing")
    /\ UNCHANGED <<stream, wire, drops>> /\ UNCHANGED receiveVars

LockWriter(s) ==
    /\ pc[s] = "locking" /\ writer = Nobody
    /\ writer' = s /\ toWrite' = LineOf(s)
    /\ Goto(s, "writing")
    /\ UNCHANGED <<stream, wire, drops>> /\ UNCHANGED receiveVars

(* One write of write_all takes as many pieces as there is room for, or     *)
(* fewer.  With the last of them send returns.                              *)
WriteRestarts(s) ==         \* mutant: a short write is answered by writing it all again
    /\ pc[s] = "writing" /\ writer = s /\ wire = "open"
    /\ \E n \in 1..Len(toWrite) :
          /\ Len(stream) + n <= Room
          /\ stream' = stream \o SubSeq(toWrite, 1, n)
          /\ toWrite' = IF n = Len(toWrite) THEN <<>> ELSE LineOf(s)
    /\ IF toWrite' = <<>>
       THEN writer' = Nobody /\ Goto(s, "sent")
       ELSE UNCHANGED <<writer, pc>>
    /\ UNCHANGED <<wire, drops>> /\ UNCHANGED receiveVars

Write(s) ==
    /\ pc[s] = "writing" /\ writer = s /\ wire = "open"
    /\ \E n \in 1..Len(toWrite) :
          /\ Len(stream) + n <= Room
          /\ stream' = stream \o SubSeq(toWrite, 1, n)
          /\ toWrite' = SubSeq(toWrite, n + 1, Len(toWrite))
    /\ IF toWrite' = <<>>
       THEN writer' = Nobody /\ Goto(s, "sent")
       ELSE UNCHANGED <<writer, pc>>
    /\ UNCHANGED <<wire, drops>> /\ UNCHANGED receiveVars

WriteFails(s) ==
    /\ pc[s] = "writing" /\ wire # "open"
    /\ writer' = Nobody /\ toWrite' = <<>>
    /\ Goto(s, "failed")
    /\ UNCHANGED <<stream, wire, drops>> /\ UNCHANGED receiveVars

(* The future of send is dropped at one of its awaits.                      *)
DropSend(s) ==
    /\ pc[s] \in {"locking", "writing"}
    /\ Goto(s, "dropped")
    /\ IF pc[s] = "writing"
       THEN /\ writer' = Nobody /\ toWrite' = <<>>
            /\ drops' = IF toWrite = LineOf(s) THEN drops ELSE drops + 1
       ELSE UNCHANGED <<writer, toWrite, drops>>
    /\ UNCHANGED <<stream, wire>> /\ UNCHANGED receiveVars

-----------------------------------------------------------------------------
(* receive.                                                                 *)
Receive(r) ==
    /\ pc[r] = "idle"
    /\ Goto(r, "locking")
    /\ UNCHANGED <<stream, wire, drops>> /\ UNCHANGED sendVars /\ UNCHANGED receiveVars

LockReader(r) ==
    /\ pc[r] = "locking" /\ reader = Nobody
    /\ reader' = r /\ line' = <<>>
    /\ Goto(r, "reading")
    /\ UNCHANGED <<stream, wire, drops, received>> /\ UNCHANGED sendVars

Complete(l) == l # <<>> /\ Last(l).part = 3

ReadSome(r) ==
    /\ pc[r] = "reading" /\ ~Complete(line) /\ stream # <<>>
    /\ line' = Append(line, Head(stream))
    /\ stream' = Tail(stream)
    /\ UNCHANGED <<pc, wire, drops, reader, received>> /\ UNCHANGED sendVars

(* from_str: JSON and nothing behind it, with or without the newline.       *)
Parsed(l) == {m \in Senders : l = LineOf(m) \/ l = Front(LineOf(m))}

Ended == stream = <<>> /\ wire = "shut_down"

(* A line, or what is left of one at the end of the stream: a message, or a *)
(* parse error that the caller goes on from.                                *)
ReturnWhatIsThere(r) ==     \* mutant: read instead of read_line
    /\ pc[r] = "reading" /\ line # <<>>
    /\ received' = received \o SetToSeq(Parsed(line))
    /\ reader' = Nobody /\ line' = <<>>
    /\ Goto(r, "idle")
    /\ UNCHANGED <<stream, wire, drops>> /\ UNCHANGED sendVars

ReturnLine(r) ==
    /\ pc[r] = "reading" /\ line # <<>>
    /\ Complete(line) \/ Ended
    /\ received' = received \o SetToSeq(Parsed(line))
    /\ reader' = Nobody /\ line' = <<>>
    /\ Goto(r, "idle")
    /\ UNCHANGED <<stream, wire, drops>> /\ UNCHANGED sendVars

ReturnClosed(r) ==
    /\ pc[r] = "reading" /\ line = <<>> /\ Ended
    /\ reader' = Nobody
    /\ Goto(r, "closed")
    /\ UNCHANGED <<stream, wire, drops, line, received>> /\ UNCHANGED sendVars

ReadFails(r) ==
    /\ pc[r] = "reading" /\ ~Complete(line) /\ stream = <<>> /\ wire = "reset"
    /\ reader' = Nobody /\ line' = <<>>
    /\ Goto(r, "failed")
    /\ UNCHANGED <<stream, wire, drops, received>> /\ UNCHANGED sendVars

(* The future of receive is dropped at one of its awaits; the String goes   *)
(* with it.                                                                 *)
DropReceive(r) ==
    /\ pc[r] \in {"locking", "reading"} /\ (pc[r] = "reading" => ~Complete(line))
    /\ Goto(r, "idle")
    /\ IF pc[r] = "reading"
       THEN /\ reader' = Nobody /\ line' = <<>>
            /\ drops' = IF line = <<>> THEN drops ELSE drops + 1
       ELSE UNCHANGED <<reader, line, drops>>
    /\ UNCHANGED <<stream, wire, received>> /\ UNCHANGED sendVars

-----------------------------------------------------------------------------
(* The sending end drops its transport when nothing borrows it any more.    *)
ShutDown ==
    /\ wire = "open"
    /\ \A s \in Senders : pc[s] \in {"idle", "sent", "failed", "dropped"}
    /\ wire' = "shut_down"
    /\ pc' = [t \in DOMAIN pc |-> IF t \in Senders /\ pc[t] = "idle" THEN "dropped" ELSE pc[t]]
    /\ UNCHANGED <<stream, drops>> /\ UNCHANGED sendVars /\ UNCHANGED receiveVars

(* The connection breaks: what the sockets held is gone, but for what the   *)
(* reader's buffer has already.                                             *)
Reset ==
    /\ wire # "reset"
    /\ wire' = "reset"
    /\ \E n \in 0..Len(stream) : stream' = SubSeq(stream, 1, n)
    /\ UNCHANGED <<pc, drops>> /\ UNCHANGED sendVars /\ UNCHANGED receiveVars

-----------------------------------------------------------------------------
SenderStep(s) == LockWriter(s) \/ Write(s) \/ WriteFails(s)
ReceiverStep(r) ==
    Receive(r) \/ LockReader(r) \/ ReadSome(r) \/ ReturnLine(r) \/ ReturnClosed(r) \/ ReadFails(r)

TcpNext ==
    \/ \E s \in Senders : Send(s) \/ SenderStep(s) \/ DropSend(s)
    \/ \E r \in Receivers : ReceiverStep(r) \/ DropReceive(r)
    \/ ShutDown \/ Reset

TcpSpec == TcpInit /\ [][TcpNext]_tcpVars

-----------------------------------------------------------------------------
Pieces == UNION {Range(LineOf(s)) : s \in Senders}

TcpTypeOK ==
    /\ \A s \in Senders : pc[s] \in SenderStages
    /\ \A r \in Receivers : pc[r] \in ReceiverStages
    /\ writer \in Senders \cup {Nobody} /\ reader \in Receivers \cup {Nobody}
    /\ \A s \in Senders : (pc[s] = "writing") = (writer = s)
    /\ \A r \in Receivers : (pc[r] = "reading") = (reader = r)
    /\ stream \in Seq(Pieces) /\ Len(stream) <= Room
    /\ wire \in {"open", "shut_down", "reset"}
    /\ line \in Seq(Pieces) /\ toWrite \in Seq(Pieces)
    /\ received \in Seq(Senders)
    /\ drops \in Nat

(* A dropped future costs one message, not the connection: of the messages  *)
(* that send reported as sent, no more are gone without having been         *)
(* received than futures were dropped in the middle of a line.  The torn    *)
(* line is glued to the next one, and the one after that is whole again.    *)
Gone == {s \in Senders : /\ pc[s] = "sent"
                         /\ Newline(s) \notin Range(stream) \cup Range(line)
                         /\ s \notin Range(received)}

EachDropLosesOne == wire # "reset" => Cardinality(Gone) <= drops

(* The transport is a channel that keeps the order of the messages and      *)
(* delivers none twice, however the futures at both ends are dropped.  A    *)
(* message is in transit from the last piece of its JSON on.                *)
Ends(s) == {i \in DOMAIN s : s[i].part = 2}
Ascending(f, n) == \A i, j \in 1..n : i < j => f[i] < f[j]
Sorted(K) == CHOOSE f \in [1..Cardinality(K) -> K] : Ascending(f, Cardinality(K))
MessagesIn(s) == [i \in 1..Cardinality(Ends(s)) |-> s[Sorted(Ends(s))[i]].of]
InTransit == MessagesIn(line \o stream)

Channel == INSTANCE MessageChannel WITH
    Messages <- Senders, inTransit <- InTransit, delivered <- received

ImplementsChannel == Channel!ChannelSpec
=============================================================================
