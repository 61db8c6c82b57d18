----------------------------- MODULE SseChunks -----------------------------
(***************************************************************************)
(* A streamed answer as its readers see it: bytes that the network cuts    *)
(* into chunks, and lines of which parse_sse_chunk                         *)
(* (crates/router/src/provider.rs) and next_event                          *)
(* (crates/proxy/src/transport.rs) look for those that begin with "data: ".*)
(*                                                                         *)
(* The bytes are a sequence of lines, and a line is three pieces: the      *)
(* first two make up its "data: " prefix, the last two its content.  A     *)
(* chunk is a set of consecutive pieces.                                   *)
(***************************************************************************)
EXTENDS Naturals, Sequences, FiniteSets, FiniteSetsExt

CONSTANT Lines          \* the lines the upstream wants to send, by kind:
                        \* "data", "DONE" (data: [DONE]) or "other"

ASSUME LinesAssumption == Lines \in Seq({"data", "DONE", "other"})

Size == 3 * Len(Lines)          \* pieces in the upstream's answer
PiecesOf(i) == (3 * i - 2)..(3 * i)
HasPrefix(i, chunk) == {3 * i - 2, 3 * i - 1} \subseteq chunk
IsWhole(i, chunk) == PiecesOf(i) \subseteq chunk

(* The lines of a chunk that strip_prefix("data: ") accepts.                *)
DataLines(chunk) == {i \in DOMAIN Lines : Lines[i] # "other" /\ HasPrefix(i, chunk)}

IsDoneMarker(i, chunk) == Lines[i] = "DONE" /\ IsWhole(i, chunk)

(* The chunk holds at most one data line, and no part of one without the    *)
(* rest.                                                                    *)
IsAligned(chunk) ==
    LET parts == {i \in DOMAIN Lines : Lines[i] # "other" /\ PiecesOf(i) \cap chunk # {}}
    IN  Cardinality(parts) <= 1 /\ \A i \in parts : IsWhole(i, chunk)

(* What the bytes travel in from there: an event with some pieces of the    *)
(* answer, or a raw chunk.                                                  *)
Event(ps) == [type |-> "event", pieces |-> ps]
Raw(ps) == [type |-> "raw", pieces |-> ps]

(* A sequence of such items shows the bytes in their order and none twice.  *)
Ascending(items) ==
    \A i, j \in DOMAIN items : i < j =>
        \A p \in items[i].pieces, q \in items[j].pieces : p < q
=============================================================================
