---------------------------- MODULE StreamRelay ----------------------------
(***************************************************************************)
(* The streaming path of one request: the task that ProxyHandler's         *)
(* stream_response spawns (crates/router/src/proxy_handler.rs:99-156), the *)
(* adapters' parse_sse_chunk (crates/router/src/provider.rs), the bounded  *)
(* channel and the response body that the client reads.                    *)
(***************************************************************************)
EXTENDS SseChunks

CONSTANTS Adapters,     \* adapters to explore: "openai", "anthropic", "google"
          Capacity      \* of the mpsc channel (1024 in the code)

ASSUME RelayAssumption ==
    /\ Adapters \subseteq {"openai", "anthropic", "google"}
    /\ Capacity \in Nat \ {0}

VARIABLES adapter,  \* the request's adapter
          pos,      \* pieces of the upstream's answer read so far
          pc,       \* the task: reading, sending, closing, finished
          item,     \* what the task is about to send
          channel,  \* items in the channel
          client,   \* reading, gone (disconnected) or ended (saw the body's end)
          got,      \* items the client received
          aligned   \* history: every chunk so far held at most one data line,
                    \* and no part of a data line without the rest
relayVars == <<adapter, pos, pc, item, channel, client, got, aligned>>

(* Besides events and raw chunks, the relay's own "data: [DONE]" travels.   *)
Done == [type |-> "done", pieces |-> {}]
Items == [type : {"event", "raw", "done"}, pieces : SUBSET (1..Size)]

RelayInit ==
    /\ adapter \in Adapters
    /\ pos = 0
    /\ pc = "reading" /\ item = Done
    /\ channel = <<>>
    /\ client = "reading" /\ got = <<>>
    /\ aligned = TRUE

-----------------------------------------------------------------------------
(* OpenAI's and Anthropic's adapters return None at [DONE], Google's knows  *)
(* no such marker.                                                          *)
KnowsDone == adapter # "google"

(* parse_sse_chunk returns at the first data line.                          *)
ParseDropsMarker(chunk) ==  \* mutant: [DONE] is swallowed, not forwarded
    LET i == Min(DataLines(chunk)) IN
    IF DataLines(chunk) = {} THEN Raw(chunk)
    ELSE IF IsDoneMarker(i, chunk) /\ KnowsDone THEN Raw({})
    ELSE Event(PiecesOf(i) \cap chunk)

ParseSseChunk(chunk) ==
    LET i == Min(DataLines(chunk)) IN
    IF DataLines(chunk) = {} THEN Raw(chunk)
    ELSE IF IsDoneMarker(i, chunk) /\ KnowsDone THEN Raw(chunk)
    ELSE Event(PiecesOf(i) \cap chunk)

(* stream.next() yields a chunk.  No adapter's parse_sse_chunk returns Err, *)
(* so the branch for it (l.121-130) is dead.                                *)
ReadChunk(to) ==
    LET chunk == (pos + 1)..to
    IN /\ pc = "reading"
       /\ pos < to
       /\ item' = ParseSseChunk(chunk)
       /\ aligned' = (aligned /\ IsAligned(chunk))
       /\ pos' = to
       /\ pc' = "sending"
       /\ UNCHANGED <<adapter, channel, client, got>>

(* The upstream closes, or fails (reset, client timeout): either way the    *)
(* loop ends and the task goes on to send [DONE].                           *)
StopsSilently ==            \* mutant: returns without sending [DONE]
    /\ pc = "reading"
    /\ pc' = "finished" /\ item' = Done
    /\ UNCHANGED <<adapter, pos, channel, client, got, aligned>>

UpstreamStops ==
    /\ pc = "reading"
    /\ pc' = "closing" /\ item' = Done
    /\ UNCHANGED <<adapter, pos, channel, client, got, aligned>>

(* tx.send(..).await: waits for room, and fails at once when the receiver   *)
(* is gone; the result is ignored.                                          *)
AfterSend == IF pc = "closing" THEN "finished" ELSE "reading"

SendUnbounded ==            \* mutant: does not wait for room
    /\ pc \in {"sending", "closing"}
    /\ client = "reading"
    /\ channel' = Append(channel, item)
    /\ pc' = AfterSend
    /\ UNCHANGED <<adapter, pos, item, client, got, aligned>>

SendUnordered ==            \* mutant: the newest item overtakes the channel
    /\ pc \in {"sending", "closing"}
    /\ client = "reading"
    /\ Len(channel) < Capacity
    /\ channel' = <<item>> \o channel
    /\ pc' = AfterSend
    /\ UNCHANGED <<adapter, pos, item, client, got, aligned>>

Send ==
    /\ pc \in {"sending", "closing"}
    /\ client = "reading"
    /\ Len(channel) < Capacity
    /\ channel' = Append(channel, item)
    /\ pc' = AfterSend
    /\ UNCHANGED <<adapter, pos, item, client, got, aligned>>

SendRetries ==              \* mutant: a failed send is tried again
    /\ pc \in {"sending", "closing"}
    /\ client = "gone"
    /\ UNCHANGED relayVars

SendToNobody ==
    /\ pc \in {"sending", "closing"}
    /\ client = "gone"
    /\ pc' = AfterSend
    /\ UNCHANGED <<adapter, pos, item, channel, client, got, aligned>>

-----------------------------------------------------------------------------
(* The server polls the body (ReceiverStream) and writes to the client.     *)
ClientReceives ==
    /\ client = "reading" /\ channel # <<>>
    /\ got' = Append(got, Head(channel))
    /\ channel' = Tail(channel)
    /\ UNCHANGED <<adapter, pos, pc, item, client, aligned>>

(* The stream ends when the sender was dropped and the channel is empty.    *)
ClientSeesEnd ==
    /\ client = "reading" /\ channel = <<>> /\ pc = "finished"
    /\ client' = "ended"
    /\ UNCHANGED <<adapter, pos, pc, item, channel, got, aligned>>

(* The client disconnects: the body and with it the receiver are dropped.   *)
ClientLeaves ==
    /\ client = "reading"
    /\ client' = "gone" /\ channel' = <<>>
    /\ UNCHANGED <<adapter, pos, pc, item, got, aligned>>

TaskStep == (\E to \in 1..Size : ReadChunk(to)) \/ UpstreamStops \/ Send \/ SendToNobody
ClientStep == ClientReceives \/ ClientSeesEnd \/ ClientLeaves

RelayNext == TaskStep \/ ClientStep

RelaySpec == RelayInit /\ [][RelayNext]_relayVars

-----------------------------------------------------------------------------
(* The shape of the relay's state.                                          *)
RelayTypeOK ==
    /\ adapter \in Adapters
    /\ pos \in 0..Size
    /\ pc \in {"reading", "sending", "closing", "finished"}
    /\ item \in Items
    /\ channel \in Seq(Items) /\ Len(channel) <= Capacity
    /\ client \in {"reading", "gone", "ended"}
    /\ got \in Seq(Items)
    /\ aligned \in BOOLEAN

Pending == IF pc \in {"sending", "closing"} THEN <<item>> ELSE <<>>
InFlight == got \o channel \o Pending

(* The client sees the upstream's bytes in their order and none twice,      *)
(* across the client's buffer, the channel and the task, however chunks     *)
(* are cut: what is lost is lost in place.                                  *)
InOrderNoDuplicates == client # "gone" => Ascending(InFlight)

(* The relay's [DONE] is the last item of every body, and a body that ends  *)
(* has it, whether the upstream finished, failed or timed out.              *)
EndsWithDone ==
    /\ \A i \in DOMAIN got : got[i].type = "done" => i = Len(got) /\ channel = <<>>
    /\ client = "ended" => got # <<>> /\ got[Len(got)].type = "done"

(* As long as every chunk holds at most one data line, and that whole, no   *)
(* data line that was read is missing on the way to the client.             *)
AlignedIsLossless ==
    aligned /\ client # "gone" =>
        \A i \in DOMAIN Lines :
            (Lines[i] # "other" /\ 3 * i <= pos) =>
                \E j \in DOMAIN InFlight : PiecesOf(i) \subseteq InFlight[j].pieces

(* traits.rs:88 says that parse_sse_chunk extracts the events of a chunk:   *)
(* every data line that was read is on the way to the client.               *)
EveryEventRelayed ==
    client # "gone" =>
        \A i \in DOMAIN Lines :
            (Lines[i] # "other" /\ 3 * i <= pos) =>
                \A p \in PiecesOf(i) : \E j \in DOMAIN InFlight : p \in InFlight[j].pieces
=============================================================================
