--------------------------- MODULE ResponseStream ---------------------------
(***************************************************************************)
(* The other reader of a streamed answer: HyperTransport's response        *)
(* (crates/proxy/src/transport.rs), whose body is taken once, as JSON or   *)
(* as a stream, and SseProxy::stream_response (crates/proxy/src/sse.rs),   *)
(* which collects the stream's events.  Its caller may call as_json or     *)
(* stream_response in any order and drop any of them at its await.         *)
(***************************************************************************)
EXTENDS SseChunks

CONSTANT MaxCalls       \* bound: calls on one response

ASSUME MaxCalls \in Nat

VARIABLES call,     \* idle, forwarding, json (as_json awaits the body) or
                    \* collecting (stream_response awaits the next event)
          response, \* none yet, there, or taken
          read,     \* pieces of the body read so far
          events,   \* the events the present stream_response has collected
          outcomes, \* what the calls returned, in order
          neat      \* history: every chunk so far was aligned

responseVars == <<call, response, read, events, outcomes, neat>>

Outcomes == {"connected", "unreachable", "json", "consumed", "broken", "no_events",
             "events", "dropped"}

ResponseInit ==
    /\ call = "idle" /\ response = "none"
    /\ read = 0 /\ events = <<>> /\ outcomes = <<>>
    /\ neat = TRUE

Return(outcome) == call' = "idle" /\ outcomes' = Append(outcomes, outcome)
MayCall == call = "idle" /\ Len(outcomes) < MaxCalls

-----------------------------------------------------------------------------
(* forward_request: any answer, whatever its status, is a response.         *)
ForwardRequest ==
    /\ MayCall /\ response = "none"
    /\ call' = "forwarding"
    /\ UNCHANGED <<response, read, events, outcomes, neat>>

UpstreamAnswers ==
    /\ call = "forwarding"
    /\ \/ Return("connected") /\ response' = "there"
       \/ Return("unreachable") /\ UNCHANGED response
    /\ UNCHANGED <<read, events, neat>>

(* as_json and stream_sse take the response out of its Option.              *)
TakeKept(stage, refusal) ==         \* mutant: the response is left where it was
    IF response = "there"
    THEN response' = "there" /\ call' = stage /\ UNCHANGED outcomes
    ELSE Return(refusal) /\ UNCHANGED response

Take(stage, refusal) ==
    IF response = "there"
    THEN response' = "taken" /\ call' = stage /\ UNCHANGED outcomes
    ELSE Return(refusal) /\ UNCHANGED response

AsJson ==
    /\ MayCall /\ response # "none"
    /\ Take("json", "consumed")
    /\ UNCHANGED <<read, events, neat>>

(* The whole body is read; it may break off or not be JSON.                 *)
JsonReturns ==
    /\ call = "json"
    /\ read' = Size
    /\ \E outcome \in {"json", "broken"} : Return(outcome)
    /\ UNCHANGED <<response, events, neat>>

(* SseProxy::stream_response: an error of stream_sse is an empty list.      *)
StreamResponse ==
    /\ MayCall /\ response # "none"
    /\ events' = <<>>
    /\ Take("collecting", "no_events")
    /\ UNCHANGED <<read, neat>>

(* next_event on one chunk: its first data line, the end at [DONE], or the  *)
(* text as it is.                                                           *)
NextEvent(to) ==
    LET chunk == (read + 1)..to
        first == Min(DataLines(chunk))
    IN  /\ call = "collecting" /\ read < to
        /\ read' = to
        /\ neat' = (neat /\ IsAligned(chunk))
        /\ IF DataLines(chunk) # {} /\ IsDoneMarker(first, chunk)
           THEN Return("events") /\ UNCHANGED events
           ELSE /\ events' = Append(events, IF DataLines(chunk) = {} THEN Raw(chunk)
                                            ELSE Event(PiecesOf(first) \cap chunk))
                /\ UNCHANGED <<call, outcomes>>
        /\ UNCHANGED response

(* The body ends or breaks off: either way the events so far are returned.  *)
StreamStops ==
    /\ call = "collecting"
    /\ Return("events")
    /\ UNCHANGED <<response, read, events, neat>>

(* The caller drops the future it awaits; what it had taken goes with it.   *)
DropCall ==
    /\ call # "idle"
    /\ events' = <<>>
    /\ Return("dropped")
    /\ UNCHANGED <<response, read, neat>>

-----------------------------------------------------------------------------
ReaderStep == (\E to \in 1..Size : NextEvent(to)) \/ StreamStops \/ JsonReturns \/ UpstreamAnswers

ResponseNext == ForwardRequest \/ AsJson \/ StreamResponse \/ ReaderStep \/ DropCall

ResponseSpec == ResponseInit /\ [][ResponseNext]_responseVars

-----------------------------------------------------------------------------
(* The shape of the response's state.                                       *)
ResponseTypeOK ==
    /\ call \in {"idle", "forwarding", "json", "collecting"}
    /\ response \in {"none", "there", "taken"}
    /\ read \in 0..Size
    /\ events \in Seq([type : {"event", "raw"}, pieces : SUBSET (1..Size)])
    /\ outcomes \in Seq(Outcomes)
    /\ neat \in BOOLEAN

(* The body is delivered once: of all calls on a response, in whatever      *)
(* order they are made, fail or are dropped, at most one returns it, as     *)
(* JSON or as the events of its bytes in their order; and as long as the    *)
(* chunks are aligned these are all the data lines read, without [DONE].    *)
BodyOnce ==
    /\ Cardinality({i \in DOMAIN outcomes : outcomes[i] \in {"json", "events", "broken"}}) <= 1
    /\ Ascending(events)
    /\ neat /\ call = "collecting" =>
           \A i \in DOMAIN Lines : (Lines[i] # "other" /\ 3 * i <= read) =>
               /\ Lines[i] = "data"
               /\ \E j \in DOMAIN events : PiecesOf(i) \subseteq events[j].pieces
=============================================================================
