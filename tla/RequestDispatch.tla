-------------------------- MODULE RequestDispatch --------------------------
(***************************************************************************)
(* One chat completion on its way through the gateway: the router's        *)
(* chat_completions_handler (crates/router/src/router.rs:62-122), the      *)
(* choice of upstream and adapter and the forwarding in ProxyHandler       *)
(* (crates/router/src/proxy_handler.rs:28-97,158-215), the adapters'       *)
(* translations (crates/router/src/provider.rs) and the status of an error *)
(* (crates/core/src/error.rs).  The streamed body is StreamRelay's.        *)
(*                                                                         *)
(* A request is a record: the x-provider header, the provider names its    *)
(* model name contains, stream, its messages and max_tokens.  A provider   *)
(* is its name; a name that is not one of Known is a custom provider, also *)
(* the one of an upstream configured as Custom("openai"), which no header  *)
(* can ask for.  The temperature, passed on as it is, is left out.         *)
(***************************************************************************)
EXTENDS Naturals, Sequences, FiniteSets, SequencesExt

CONSTANTS Configs,      \* lists of upstreams the gateway may have: [provider]
          Requests,     \* requests a client may post
          Absent,       \* no header, no max_tokens, no upstream, no answer
          Unreadable,   \* a header that is not visible ASCII
          Word          \* 2^32: max_tokens is cut to an u32

Known == {"openai", "anthropic", "google", "azure", "ollama"}
Roles == {"system", "user", "assistant", "model"}
Shapes == {"native", "other_json", "not_json"}
Statuses == {200, 400, 500}

AnyUpstream == [provider : STRING]
AnyRequest ==               \* what is not an array of messages is one value
    {r \in [header : STRING \cup {Absent, Unreadable}, model : SUBSET STRING,
           stream : BOOLEAN, array : BOOLEAN,
           messages : Seq([role : Roles, text : STRING, whole : BOOLEAN]),
           max_tokens : Nat \cup {Absent}] : r.array \/ Len(r.messages) = 1}
AnyResponse == [status : Statuses \cup {404, 502},
                format : Shapes \cup {"openai", "upstream", "events", "error"}]

ASSUME DispatchAssumption ==
    /\ Word \in Nat \ {0}
    /\ \A c \in Configs : c \in Seq(AnyUpstream)
    /\ \A r \in Requests : r \in AnyRequest
    /\ Absent \notin Nat /\ Absent \notin AnyUpstream /\ Absent \notin AnyResponse

VARIABLES config,       \* config.upstreams, fixed
          request,      \* the client's request
          stage,        \* received, sending, reading, answered, dropped
          upstream,     \* the upstream it was sent to
          body,         \* the translated payload
          answer,       \* what the upstream answered: [status, shape]
          response      \* what the client gets: [status, format]

dispatchVars == <<config, request, stage, upstream, body, answer, response>>

DispatchInit ==
    /\ config \in Configs
    /\ request \in Requests
    /\ stage = "received"
    /\ upstream = Absent /\ body = Absent /\ answer = Absent /\ response = Absent

-----------------------------------------------------------------------------
(* The provider: the header decides, then the model's name.                 *)
ModelProvider(names) ==
    IF names \cap {"gpt", "o1", "o3"} # {} THEN "openai"
    ELSE IF "claude" \in names THEN "anthropic"
    ELSE IF "gemini" \in names THEN "google"
    ELSE "openai"

ProviderOf(r) ==
    IF r.header = Absent THEN ModelProvider(r.model)
    ELSE IF r.header = Unreadable THEN "openai" ELSE r.header

(* Provider's Display, by which the second loop of find_upstream compares.  *)
Display(p) == IF p \in Known THEN <<p>> ELSE <<"custom", p>>

FirstUpstream(p) ==         \* mutant: takes the first upstream at once
    IF config = <<>> THEN Absent ELSE config[1]

FindUpstream(p) ==
    LET same == SelectInSeq(config, LAMBDA u : u.provider = p)
        alike == SelectInSeq(config, LAMBDA u : Display(u.provider) = Display(p))
    IN CASE same # 0 -> config[same]
         [] same = 0 /\ alike # 0 -> config[alike]
         [] same = 0 /\ alike = 0 /\ config # <<>> -> config[1]
         [] OTHER -> Absent

(* get_provider_adapter by the provider, and the API of the URL that        *)
(* handle_request builds for an upstream.                                   *)
AdapterFormat(p) == IF p \in {"anthropic", "google"} THEN p ELSE "openai"
EndpointFormat(u) ==
    CASE u.provider = "anthropic" -> "anthropic"    \* v1/messages
      [] u.provider = "google"    -> "google"       \* v1beta/models/...
      [] OTHER -> "openai"                          \* v1/chat/completions, api/chat

-----------------------------------------------------------------------------
LimitUncut(r) == r.max_tokens       \* mutant: a number of any size
LimitOf(r) == IF r.max_tokens = Absent THEN Absent ELSE r.max_tokens % Word

(* translate_request.  A message lacks its role or content when it is not   *)
(* whole; what is not an array of messages is one value.                    *)
AnthropicMessages(r) ==
    IF r.array THEN r.messages ELSE <<[r.messages[1] EXCEPT !.role = "user"]>>

GeminiRole(role) == IF role = "assistant" THEN "model" ELSE "user"
WholeOnes(r) == {i \in DOMAIN r.messages : r.array /\ r.messages[i].whole}
NthWhole(r, n) ==
    CHOOSE i \in WholeOnes(r) : Cardinality({j \in WholeOnes(r) : j <= i}) = n
GeminiContents(r) ==        \* filter_map
    [n \in 1..Cardinality(WholeOnes(r)) |->
        LET m == r.messages[NthWhole(r, n)] IN [m EXCEPT !.role = GeminiRole(m.role)]]

TranslateUserTurns(format, r) ==    \* mutant: passes on what users said only
    [format |-> format, array |-> TRUE,
     messages |-> SelectSeq(r.messages, LAMBDA m : m.role = "user"),
     limit |-> LimitOf(r)]

TranslateRequest(format, r) ==
    [format |-> format,
     array |-> r.array \/ format # "openai",
     messages |-> CASE format = "openai"    -> r.messages
                    [] format = "anthropic" -> AnthropicMessages(r)
                    [] format = "google"    -> GeminiContents(r),
     limit |-> LimitOf(r)]

(* translate_response: an adapter turns its provider's native answer into   *)
(* OpenAI's format and passes on what it does not recognise.                *)
AnthropicAnswer(endpoint, shape) ==
    IF shape = "native" /\ endpoint = "anthropic" THEN "openai" ELSE shape
GoogleAnswer(endpoint, shape) ==
    IF shape = "native" /\ endpoint = "google" THEN "openai" ELSE shape

TranslateResponse(format, endpoint, shape) ==
    CASE format = "anthropic" -> AnthropicAnswer(endpoint, shape)
      [] format = "google"    -> GoogleAnswer(endpoint, shape)
      [] format = "openai"    ->
           IF shape = "native" /\ endpoint = "openai" THEN "openai" ELSE shape

(* GatewayError's status_code and into_response.                            *)
StatusCode == [Internal |-> 500, NotFound |-> 404, UpstreamConnection |-> 502]
ErrorResponse(kind) == [status |-> StatusCode[kind], format |-> "error"]

-----------------------------------------------------------------------------
(* chat_completions_handler and handle_request up to the send: there may be *)
(* no upstream, and the HTTP client of each request may fail to be built.   *)
(* No adapter fails to translate a request.                                 *)
Refuse(kind) ==
    /\ stage' = "answered"
    /\ response' = ErrorResponse(kind)
    /\ UNCHANGED <<upstream, body>>

Forward(found, p) ==
    /\ stage' = "sending"
    /\ upstream' = found
    /\ body' = TranslateRequest(AdapterFormat(p), request)
    /\ UNCHANGED response

Dispatch ==
    LET p == ProviderOf(request)
        found == FindUpstream(p)
    IN /\ stage = "received"
       /\ \/ found = Absent /\ Refuse("NotFound")
          \/ found # Absent /\ Refuse("Internal")
          \/ found # Absent /\ Forward(found, p)
       /\ UNCHANGED <<config, request, answer>>

(* send().await: the upstream's status and headers arrive.  A stream is     *)
(* answered then, with status 200 whatever the upstream's.                  *)
HeadersArrive ==
    /\ stage = "sending"
    /\ \E status \in Statuses, shape \in Shapes :
          answer' = [status |-> status, shape |-> shape]
    /\ IF request.stream
       THEN /\ stage' = "answered"
            /\ response' = [status |-> 200, format |-> "events"]
       ELSE /\ stage' = "reading"
            /\ UNCHANGED response
    /\ UNCHANGED <<config, request, upstream, body>>

(* bytes().await, and the rest of json_response.                            *)
BodyArrives ==
    /\ stage = "reading"
    /\ response' =
          [status |-> answer.status,
           format |-> IF answer.status = 200 /\ answer.shape # "not_json"
                      THEN TranslateResponse(body.format, EndpointFormat(upstream), answer.shape)
                      ELSE "upstream"]
    /\ stage' = "answered"
    /\ UNCHANGED <<config, request, upstream, body, answer>>

(* A refused or broken connection, a request whose parts reqwest rejects,   *)
(* and the client's timeout, which runs until the body is read, all fail    *)
(* send() or bytes() and end in one error, UpstreamConnection.              *)
FailsBeforeHeaders ==       \* mutant: only send() is under a timeout
    /\ stage = "sending"
    /\ response' = ErrorResponse("UpstreamConnection")
    /\ stage' = "answered"
    /\ UNCHANGED <<config, request, upstream, body, answer>>

UpstreamFails ==
    /\ stage \in {"sending", "reading"}
    /\ response' = ErrorResponse("UpstreamConnection")
    /\ stage' = "answered"
    /\ UNCHANGED <<config, request, upstream, body, answer>>

(* The client disconnects: the server drops the handler where it waits.     *)
ClientLeaves ==
    /\ stage \in {"sending", "reading"}
    /\ stage' = "dropped"
    /\ UNCHANGED <<config, request, upstream, body, answer, response>>

DispatchNext ==
    \/ Dispatch \/ HeadersArrive \/ BodyArrives
    \/ UpstreamFails \/ ClientLeaves

DispatchSpec == DispatchInit /\ [][DispatchNext]_dispatchVars

-----------------------------------------------------------------------------
(* The shape of the request's state.                                        *)
DispatchTypeOK ==
    /\ config \in Configs /\ request \in Requests
    /\ stage \in {"received", "sending", "reading", "answered", "dropped"}
    /\ upstream # Absent => upstream \in {config[i] : i \in DOMAIN config}
    /\ body # Absent => body.format \in {"openai", "anthropic", "google"}
                        /\ (body.limit = Absent \/ body.limit \in 0..(Word - 1))
    /\ answer # Absent => answer \in [status : Statuses, shape : Shapes]
    /\ stage = "answered" <=> response # Absent

(* If the provider the client asks for has an upstream, then the payload is *)
(* in the format of the URL it is posted to, and a native answer comes back *)
(* as an OpenAI one: adapter, URL and upstream are chosen by different keys.*)
Served(p) == \E i \in DOMAIN config : config[i].provider = p
ServedProviderAgrees ==
    (Served(ProviderOf(request)) /\ body # Absent) =>
        /\ body.format = EndpointFormat(upstream)
        /\ upstream.provider = ProviderOf(request)
        /\ (stage = "answered" /\ ~request.stream /\ response.status = 200
            /\ answer.shape = "native") => response.format = "openai"

(* README.md:116 and traits.rs:82: requests are translated to the API       *)
(* format of the provider they are routed to.                               *)
PayloadFitsUrl == body # Absent => body.format = EndpointFormat(upstream)

(* What the client wrote reaches the upstream in every format: messages in  *)
(* their order, none lost, and a max_tokens that fits an u32.               *)
Texts(s) == [i \in DOMAIN s |-> s[i].text]
RequestSurvives ==
    body # Absent =>
        /\ (request.array /\ \A i \in DOMAIN request.messages : request.messages[i].whole)
             => Texts(body.messages) = Texts(request.messages)
        /\ (request.max_tokens # Absent /\ request.max_tokens < Word)
             => body.limit = request.max_tokens
=============================================================================
