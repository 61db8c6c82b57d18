--------------------------- MODULE GatewayProofs ----------------------------
(***************************************************************************)
(* Proofs about the gateway's process and the request it dispatches.  The  *)
(* inductive invariant has a part for each: StartupInv ties the listeners  *)
(* to the addresses they have and the settings to the launch, DispatchInv  *)
(* gives upstream, payload and response as functions of the request and    *)
(* the configuration, and Shared joins the two.                            *)
(***************************************************************************)
EXTENDS Gateway, FiniteSetTheorems, NaturalsInduction, WellFoundedInduction, TLAPS

-----------------------------------------------------------------------------
(* A set of numbers that is not empty has a least element.                  *)
LEMMA NatLeast ==
    ASSUME NEW I \in SUBSET Nat, I # {}
    PROVE  \E m \in I : \A n \in I : m <= n
<1> DEFINE R == OpToRel(<, Nat)
<1>1. \A n, m \in Nat : n < m => <<n, m>> \in R
  BY DEF OpToRel
<1> HIDE DEF R
<1>2. IsWellFoundedOn(R, Nat)
  BY NatLessThanWellFounded DEF R
<1>3. PICK m \in I : \A n \in I : ~ (<<n, m>> \in R)
  BY <1>2, WFMin
<1>4. \A n \in I : ~ (n < m)
  BY <1>1, <1>3
<1> QED BY <1>4

(* Start-up.                                                                *)
Running == {"loaded", "observed", "built", "serving"}

StartupInv ==
    /\ StartupTypeOK
    /\ life \in Running => Loadable /\ settings = Overridden(Loaded, launch.overrides)
    /\ life \in {"loading", "loaded", "observed", "exited"} => metrics = "off"
    /\ life = "serving" => ports[Fixed] = "main"
    /\ metrics # "off" => settings.metrics \in Addresses
    /\ metrics = "serving" => ports[settings.metrics] = "metrics"

LEMMA LoadedShape ==
    ASSUME StartupTypeOK
    PROVE  /\ Loaded \in AnySettings
           /\ Overridden(Loaded, launch.overrides) \in AnySettings
           /\ Overridden(Loaded, launch.overrides).upstreams = Loaded.upstreams
           /\ Valid(Loaded) => Valid(Overridden(Loaded, launch.overrides))
<1>1. launch \in AnyLaunch /\ Fixed \in Addresses /\ DefaultMetrics \in Addresses
  BY StartupAssumption DEF StartupTypeOK
<1>2. NoSettings \in AnySettings
  BY DEF NoSettings, AnySettings
<1>a. DefaultSettings \in AnySettings
  BY <1>1, <1>2 DEF DefaultSettings, AnySettings
<1>3. Loaded \in AnySettings
  BY <1>1, <1>a DEF Loaded, AnyLaunch
<1>4. launch.overrides \in [listen : Addresses \cup {Unset}, metrics : Addresses \cup {Unset}]
  BY <1>1 DEF AnyLaunch
<1> QED BY <1>3, <1>4 DEF Overridden, Valid, AnySettings

LEMMA StartupInitInv == StartupInit => StartupInv
BY StartupAssumption DEF StartupInit, StartupInv, StartupTypeOK, Running, NoSettings, AnySettings

LEMMA StartupStep == StartupInv /\ [StartupNext]_startupVars => StartupInv'
<1> SUFFICES ASSUME StartupInv, [StartupNext]_startupVars PROVE StartupInv'
  OBVIOUS
<1> USE DEF StartupInv, StartupTypeOK, Running
<1>0. Fixed \in Addresses /\ Unset \notin Addresses
  BY StartupAssumption
<1>1. CASE UNCHANGED startupVars
  BY <1>1 DEF startupVars, Loadable, UsesDefault, Loaded
<1>2. CASE LoadConfig
  <2>1. Loadable' = Loadable /\ Loaded' = Loaded /\ launch' = launch
    BY <1>2 DEF LoadConfig, Loadable, UsesDefault, Loaded
  <2> QED BY <1>2, <2>1, LoadedShape DEF LoadConfig
<1>3. CASE InitObservability
  BY <1>3 DEF InitObservability, Loadable, UsesDefault, Loaded
<1>4. CASE BuildRouter
  <2>1. Loadable' = Loadable /\ Loaded' = Loaded /\ launch' = launch
    BY <1>4 DEF BuildRouter, Loadable, UsesDefault, Loaded
  <2>2. settings.metrics \in Addresses \cup {Unset}
    BY DEF AnySettings
  <2> QED BY <1>4, <2>1, <2>2 DEF BuildRouter
<1>5. CASE Bind
  <2>1. Loadable' = Loadable /\ Loaded' = Loaded /\ launch' = launch
    BY <1>5 DEF Bind, Loadable, UsesDefault, Loaded
  <2>2. CASE ports[Fixed] = "free"
    BY <1>0, <1>5, <2>1, <2>2 DEF Bind, Owned
  <2>3. CASE ports[Fixed] # "free"
    BY <1>0, <1>5, <2>1, <2>3 DEF Bind
  <2> QED BY <2>2, <2>3
<1>6. CASE BindMetrics
  <2>1. Loadable' = Loadable /\ Loaded' = Loaded /\ launch' = launch
    BY <1>6 DEF BindMetrics, Loadable, UsesDefault, Loaded
  <2> QED BY <1>0, <1>6, <2>1 DEF BindMetrics
<1> QED BY <1>1, <1>2, <1>3, <1>4, <1>5, <1>6 DEF StartupNext, MainStep

-----------------------------------------------------------------------------
(* The operators of the dispatch.                                           *)

LEMMA MinIn == ASSUME NEW I \in SUBSET Nat, I # {} PROVE Min(I) \in I
BY NatLeast DEF Min

LEMMA FindUpstreamFinds ==
    ASSUME config \in Seq(AnyUpstream), NEW p
    PROVE  /\ config = <<>> => FindUpstream(p) = Absent
           /\ config # <<>> => FindUpstream(p) \in {config[i] : i \in DOMAIN config}
           /\ Served(p) => FindUpstream(p).provider = p
<1> DEFINE I == {i \in 1..Len(config) : config[i].provider = p}
           J == {i \in 1..Len(config) : Display(config[i].provider) = Display(p)}
           first(S) == IF S # {} THEN Min(S) ELSE 0
<1>1. FindUpstream(p) = CASE first(I) # 0 -> config[first(I)]
                          [] first(I) = 0 /\ first(J) # 0 -> config[first(J)]
                          [] first(I) = 0 /\ first(J) = 0 /\ config # <<>> -> config[1]
                          [] OTHER -> Absent
  BY DEF FindUpstream, SelectInSeq
<1>2. I \in SUBSET (1..Len(config)) /\ J \in SUBSET (1..Len(config))
  OBVIOUS
<1>3. \A i \in I : config[i].provider = p
  OBVIOUS
<1>4. Served(p) => I # {}
  BY DEF Served
<1>5. config # <<>> => 1 \in 1..Len(config)
  OBVIOUS
<1>6. DOMAIN config = 1..Len(config) /\ Len(config) \in Nat
  OBVIOUS
<1>7. config = <<>> => 1..Len(config) = {}
  OBVIOUS
<1> HIDE DEF I, J
<1>8. \A S \in SUBSET (1..Len(config)) : (S # {} => first(S) \in S) /\ (S = {} => first(S) = 0)
  <2> TAKE S \in SUBSET (1..Len(config))
  <2>1. S \in SUBSET Nat
    BY <1>6
  <2> QED BY <2>1, MinIn
<1> HIDE DEF first
<1>9. first(I) = 0 <=> I = {}
  BY <1>2, <1>6, <1>8
<1>10. first(J) = 0 <=> J = {}
  BY <1>2, <1>6, <1>8
<1>11. CASE I # {}
  <2>1. FindUpstream(p) = config[first(I)] /\ first(I) \in I
    BY <1>1, <1>2, <1>8, <1>9, <1>11
  <2>2. first(I) \in DOMAIN config /\ config # <<>>
    BY <2>1, <1>2, <1>6, <1>7
  <2> QED BY <2>1, <2>2, <1>3
<1>12. CASE I = {} /\ J # {}
  <2>1. FindUpstream(p) = config[first(J)] /\ first(J) \in J
    BY <1>1, <1>2, <1>8, <1>9, <1>10, <1>12
  <2>2. first(J) \in DOMAIN config /\ config # <<>>
    BY <2>1, <1>2, <1>6, <1>7
  <2> QED BY <2>1, <2>2, <1>4, <1>12
<1>13. CASE I = {} /\ J = {}
  <2>1. FindUpstream(p) = IF config # <<>> THEN config[1] ELSE Absent
    BY <1>1, <1>9, <1>10, <1>13
  <2> QED BY <2>1, <1>4, <1>5, <1>6, <1>13
<1> QED BY <1>11, <1>12, <1>13

(* When every message is whole, filter_map keeps them all, each where it is.*)
LEMMA AllWholeKept ==
    ASSUME NEW r \in AnyRequest, r.array, \A i \in DOMAIN r.messages : r.messages[i].whole
    PROVE  Texts(GeminiContents(r)) = Texts(r.messages)
<1> DEFINE n == Len(r.messages)
<1>1. /\ r.messages \in Seq([role : Roles, text : STRING, whole : BOOLEAN])
      /\ n \in Nat /\ DOMAIN r.messages = 1..n
  BY DEF AnyRequest
<1>2. WholeOnes(r) = 1..n
  BY <1>1 DEF WholeOnes
<1>3. Cardinality(WholeOnes(r)) = n
  BY <1>1, <1>2, FS_Interval
<1>4. ASSUME NEW k \in 1..n PROVE NthWhole(r, k) = k
  <2>1. ASSUME NEW i \in 1..n
        PROVE  Cardinality({j \in WholeOnes(r) : j <= i}) = i
    <3>1. {j \in WholeOnes(r) : j <= i} = 1..i
      BY <1>1, <1>2
    <3>2. 1 \in Int /\ i \in Int /\ ~(1 > i) /\ i - 1 + 1 = i
      BY <1>1
    <3>3. Cardinality(1..i) = i
      BY <3>2, FS_Interval
    <3> QED BY <3>1, <3>3
  <2> QED BY <1>2, <2>1 DEF NthWhole
<1>5. ASSUME NEW k \in 1..n
      PROVE  GeminiContents(r)[k].text = r.messages[k].text
  <2>1. GeminiContents(r)[k] = [r.messages[k] EXCEPT !.role = GeminiRole(r.messages[k].role)]
    BY <1>3, <1>4 DEF GeminiContents
  <2>2. r.messages[k] \in [role : Roles, text : STRING, whole : BOOLEAN]
    <3>1. \A S, s : s \in Seq(S) => \A j \in 1..Len(s) : s[j] \in S
      OBVIOUS
    <3> QED BY <1>1, <3>1
  <2> QED BY <2>1, <2>2
<1>6. DOMAIN GeminiContents(r) = 1..n
  BY <1>3 DEF GeminiContents
<1> QED BY <1>1, <1>5, <1>6 DEF Texts

-----------------------------------------------------------------------------
(* The dispatch.  Chosen and Payload are what the request and the list of   *)
(* upstreams determine; Judged is what json_response makes of an answer.    *)
Chosen == FindUpstream(ProviderOf(request))
Payload == TranslateRequest(AdapterFormat(ProviderOf(request)), request)
Judged ==
    [status |-> answer.status,
     format |-> IF answer.status = 200 /\ answer.shape # "not_json"
                THEN TranslateResponse(Payload.format, EndpointFormat(Chosen), answer.shape)
                ELSE "upstream"]

DispatchInv ==
    /\ config \in Configs /\ request \in Requests
    /\ stage \in {"received", "sending", "reading", "answered", "dropped"}
    /\ stage = "received" => upstream = Absent /\ body = Absent
    /\ upstream # Absent => upstream = Chosen /\ config # <<>>
    /\ body # Absent => body = Payload /\ upstream # Absent
    /\ stage \in {"sending", "reading", "dropped"} =>
          upstream = Chosen /\ body = Payload /\ config # <<>>
    /\ answer # Absent => answer \in [status : Statuses, shape : Shapes]
    /\ stage = "reading" => answer \in [status : Statuses, shape : Shapes] /\ ~request.stream
    /\ stage # "answered" => response = Absent
    /\ stage = "answered" =>
          \/ response = ErrorResponse("NotFound") /\ config = <<>>
          \/ response = ErrorResponse("Internal") /\ config # <<>> /\ upstream = Absent
          \/ response = ErrorResponse("UpstreamConnection") /\ upstream # Absent
          \/ request.stream /\ response = [status |-> 200, format |-> "events"]
          \/ /\ ~request.stream /\ response = Judged
             /\ answer \in [status : Statuses, shape : Shapes]

(* Requests and upstreams of the right shape give a payload and a response  *)
(* of the right shape.                                                      *)
LEMMA ChosenShape ==
    ASSUME config \in Configs
    PROVE  /\ config \in Seq(AnyUpstream)
           /\ config = <<>> <=> Chosen = Absent
           /\ config # <<>> => Chosen \in {config[i] : i \in DOMAIN config}
           /\ Served(ProviderOf(request)) => Chosen.provider = ProviderOf(request)
<1>1. config \in Seq(AnyUpstream)
  BY DispatchAssumption
<1>2. config # <<>> => Chosen \in {config[i] : i \in DOMAIN config}
  BY <1>1, FindUpstreamFinds DEF Chosen
<1>3. {config[i] : i \in DOMAIN config} \subseteq AnyUpstream
  BY <1>1
<1>4. Absent \notin AnyUpstream
  BY DispatchAssumption
<1> QED BY <1>1, <1>2, <1>3, <1>4, FindUpstreamFinds DEF Chosen

LEMMA PayloadShape ==
    ASSUME request \in Requests
    PROVE  /\ Payload.format = AdapterFormat(ProviderOf(request))
           /\ Payload.format \in {"openai", "anthropic", "google"}
           /\ Payload.limit = LimitOf(request)
           /\ Payload.limit = Absent \/ Payload.limit \in 0..(Word - 1)
<1>1. request \in AnyRequest /\ Word \in Nat \ {0}
  BY DispatchAssumption
<1>2. /\ Payload.format = AdapterFormat(ProviderOf(request))
      /\ Payload.limit = LimitOf(request)
  BY DEF Payload, TranslateRequest
<1>3. AdapterFormat(ProviderOf(request)) \in {"openai", "anthropic", "google"}
  BY DEF AdapterFormat
<1>4. request.max_tokens = Absent \/ request.max_tokens \in Nat
  BY <1>1 DEF AnyRequest
<1>5. LimitOf(request) = Absent \/ LimitOf(request) \in 0..(Word - 1)
  BY <1>1, <1>4 DEF LimitOf
<1> QED BY <1>2, <1>3, <1>5

LEMMA JudgedShape ==
    ASSUME answer \in [status : Statuses, shape : Shapes], request \in Requests
    PROVE  /\ Judged \in AnyResponse
           /\ Judged.format # "error"
           /\ Judged.status = answer.status
<1>1. Payload.format \in {"openai", "anthropic", "google"}
  BY PayloadShape
<1>2. TranslateResponse(Payload.format, EndpointFormat(Chosen), answer.shape) \in Shapes \cup {"openai"}
  BY <1>1 DEF TranslateResponse, AnthropicAnswer, GoogleAnswer
<1>3. Judged.format \in Shapes \cup {"openai", "upstream"} /\ Judged.status = answer.status
  BY <1>2 DEF Judged
<1>4. Judged = [status |-> Judged.status, format |-> Judged.format]
  BY DEF Judged
<1>5. "error" \notin Shapes \cup {"openai", "upstream"}
  BY DEF Shapes
<1> QED BY <1>3, <1>4, <1>5 DEF AnyResponse

LEMMA ResponseShape ==
    ASSUME DispatchInv, stage = "answered"
    PROVE  response \in AnyResponse /\ response # Absent
<1>1. /\ ErrorResponse("NotFound") = [status |-> 404, format |-> "error"]
      /\ ErrorResponse("Internal") = [status |-> 500, format |-> "error"]
      /\ ErrorResponse("UpstreamConnection") = [status |-> 502, format |-> "error"]
  BY DEF ErrorResponse, StatusCode
<1>2. response \in AnyResponse
  BY <1>1, JudgedShape DEF DispatchInv, AnyResponse, Statuses
<1> QED BY <1>2, DispatchAssumption

LEMMA DispatchTypes == ASSUME DispatchInv PROVE DispatchTypeOK
<1>1. upstream # Absent => upstream \in {config[i] : i \in DOMAIN config}
  BY ChosenShape DEF DispatchInv
<1>2. body # Absent => body.format \in {"openai", "anthropic", "google"}
                       /\ (body.limit = Absent \/ body.limit \in 0..(Word - 1))
  BY PayloadShape DEF DispatchInv
<1>3. stage = "answered" <=> response # Absent
  BY ResponseShape DEF DispatchInv
<1> QED BY <1>1, <1>2, <1>3 DEF DispatchInv, DispatchTypeOK

LEMMA DispatchInitInv == DispatchInit => DispatchInv
BY DEF DispatchInit, DispatchInv

LEMMA DispatchStep == DispatchInv /\ [DispatchNext]_dispatchVars => DispatchInv'
<1> SUFFICES ASSUME DispatchInv, [DispatchNext]_dispatchVars PROVE DispatchInv'
  OBVIOUS
<1>1. request' = request /\ config' = config
  BY DEF dispatchVars, DispatchNext, Dispatch, HeadersArrive, BodyArrives, UpstreamFails, ClientLeaves
<1>2. Chosen' = Chosen /\ Payload' = Payload
  <2>1. Payload' = Payload
    BY <1>1 DEF Payload
  <2>2. Chosen' = Chosen
    BY <1>1 DEF Chosen, FindUpstream, SelectInSeq
  <2> QED BY <2>1, <2>2
<1>3. CASE UNCHANGED dispatchVars
  BY <1>2, <1>3 DEF dispatchVars, DispatchInv, Judged
<1>4. CASE Dispatch
  <2>1. stage = "received" /\ UNCHANGED <<config, request, answer>>
    BY <1>4 DEF Dispatch
  <2>2. CASE Chosen = Absent /\ Refuse("NotFound")
    BY <1>2, <2>1, <2>2, ChosenShape DEF Refuse, DispatchInv
  <2>3. CASE Chosen # Absent /\ Refuse("Internal")
    BY <1>2, <2>1, <2>3, ChosenShape DEF Refuse, DispatchInv
  <2>4. CASE Chosen # Absent /\ Forward(Chosen, ProviderOf(request))
    <3>1. /\ stage' = "sending" /\ upstream' = Chosen /\ body' = Payload
          /\ UNCHANGED response
      BY <2>4 DEF Forward, Payload
    <3>2. config # <<>>
      BY <2>1, <2>4, ChosenShape DEF DispatchInv
    <3> QED BY <1>2, <2>1, <2>4, <3>1, <3>2 DEF DispatchInv
  <2> QED BY <1>4, <2>2, <2>3, <2>4 DEF Dispatch, Chosen
<1>5. CASE HeadersArrive
  <2>1. answer' \in [status : Statuses, shape : Shapes]
    BY <1>5 DEF HeadersArrive
  <2>2. /\ stage = "sending" /\ UNCHANGED <<config, request, upstream, body>>
        /\ \/ request.stream /\ stage' = "answered" /\ response' = [status |-> 200, format |-> "events"]
           \/ ~request.stream /\ stage' = "reading" /\ response' = response
    BY <1>5 DEF HeadersArrive
  <2> QED BY <1>2, <2>1, <2>2 DEF DispatchInv
<1>6. CASE BodyArrives
  <2>1. /\ stage = "reading" /\ stage' = "answered"
        /\ UNCHANGED <<config, request, upstream, body, answer>>
    BY <1>6 DEF BodyArrives
  <2>2. upstream = Chosen /\ body = Payload
    BY <2>1 DEF DispatchInv
  <2>3. response' = Judged
    BY <1>6, <2>2 DEF BodyArrives, Judged
  <2>4. Judged' = Judged
    BY <1>2, <2>1 DEF Judged
  <2> QED BY <1>2, <2>1, <2>2, <2>3, <2>4 DEF DispatchInv
<1>7. CASE UpstreamFails
  BY <1>2, <1>7, ChosenShape DEF UpstreamFails, DispatchInv
<1>8. CASE ClientLeaves
  BY <1>2, <1>8 DEF ClientLeaves, DispatchInv
<1> QED BY <1>3, <1>4, <1>5, <1>6, <1>7, <1>8 DEF DispatchNext

-----------------------------------------------------------------------------
(* The gateway: a process that serves has the configuration it loaded, and  *)
(* nothing is dispatched before it serves.                                  *)
Shared ==
    /\ config = Loaded.upstreams
    /\ stage # "received" => life = "serving"

GatewayInv == StartupInv /\ DispatchInv /\ Shared

LEMMA GatewayInitInv == GatewayInit => GatewayInv
BY StartupInitInv, DispatchInitInv DEF GatewayInit, GatewayInv, Shared, DispatchInit

LEMMA GatewayStep == GatewayInv /\ [GatewayNext]_gatewayVars => GatewayInv'
<1> SUFFICES ASSUME GatewayInv, [GatewayNext]_gatewayVars PROVE GatewayInv'
  OBVIOUS
<1>1. ASSUME [StartupNext]_startupVars, UNCHANGED dispatchVars PROVE GatewayInv'
  <2>1. StartupInv'
    BY <1>1, StartupStep DEF GatewayInv
  <2>2. DispatchInv'
    BY <1>1, DispatchStep DEF GatewayInv
  <2>3. launch' = launch /\ (life = "serving" => life' = "serving")
    BY <1>1 DEF startupVars, StartupNext, MainStep, LoadConfig, InitObservability, BuildRouter, Bind, BindMetrics
  <2>4. Loaded' = Loaded
    BY <2>3 DEF Loaded, UsesDefault
  <2>5. Shared'
    BY <1>1, <2>3, <2>4 DEF GatewayInv, Shared, dispatchVars
  <2> QED BY <2>1, <2>2, <2>5 DEF GatewayInv
<1>2. ASSUME life = "serving", DispatchNext, UNCHANGED startupVars PROVE GatewayInv'
  <2>1. StartupInv'
    BY <1>2, StartupStep DEF GatewayInv
  <2>2. DispatchInv'
    BY <1>2, DispatchStep DEF GatewayInv
  <2>3. config' = config
    BY <1>2 DEF DispatchNext, Dispatch, HeadersArrive, BodyArrives, UpstreamFails, ClientLeaves
  <2>4. Shared'
    BY <1>2, <2>3 DEF GatewayInv, Shared, startupVars, Loaded, UsesDefault
  <2> QED BY <2>1, <2>2, <2>4 DEF GatewayInv
<1> QED BY <1>1, <1>2 DEF GatewayNext, Starts, Serves, gatewayVars

(* The invariant of the gateway holds always.                               *)
THEOREM GatewayInductive == GatewaySpec => []GatewayInv
BY GatewayInitInv, GatewayStep, PTL DEF GatewaySpec

(* The state of process and request keeps its shape.                        *)
THEOREM GatewayTypeCorrect == GatewaySpec => []GatewayTypeOK
<1>1. GatewayInv => GatewayTypeOK
  BY DispatchTypes DEF GatewayInv, StartupInv, GatewayTypeOK
<1> QED BY GatewayInductive, <1>1, PTL

(* A gateway that serves owns its port, has a validated configuration when  *)
(* main loaded it, and shares no address with its metrics server, for every *)
(* file, every override and every order in which the two listeners bind.    *)
THEOREM ServingIsValidated == GatewaySpec => []ServesAsValidated
<1>1. ASSUME GatewayInv PROVE ServesAsValidated
  <2> SUFFICES ASSUME life = "serving"
               PROVE  /\ ports[Fixed] = "main"
                      /\ launch.entry = "main" => Valid(settings)
                      /\ metrics = "serving" => settings.metrics # Fixed /\ ports[settings.metrics] = "metrics"
    BY DEF ServesAsValidated
  <2>1. launch.entry = "main" => Valid(settings)
    BY <1>1, LoadedShape DEF GatewayInv, StartupInv, Running, Loadable, UsesDefault
  <2> QED BY <1>1, <2>1 DEF GatewayInv, StartupInv
<1> QED BY GatewayInductive, <1>1, PTL

(* Adapter, URL and upstream agree whenever the provider the client asked   *)
(* for has an upstream, though three different keys choose them: for every  *)
(* list of upstreams and every name of a provider.                          *)
THEOREM ProviderAgrees == GatewaySpec => []ServedProviderAgrees
<1>1. ASSUME GatewayInv PROVE ServedProviderAgrees
  <2> SUFFICES ASSUME Served(ProviderOf(request)), body # Absent
               PROVE  /\ body.format = EndpointFormat(upstream)
                      /\ upstream.provider = ProviderOf(request)
                      /\ (stage = "answered" /\ ~request.stream /\ response.status = 200
                          /\ answer.shape = "native") => response.format = "openai"
    BY DEF ServedProviderAgrees
  <2>1. upstream = Chosen /\ body = Payload /\ config \in Configs /\ request \in Requests
    BY <1>1 DEF GatewayInv, DispatchInv
  <2>2. upstream.provider = ProviderOf(request)
    BY <2>1, ChosenShape
  <2>3. body.format = EndpointFormat(upstream)
    BY <2>1, <2>2, PayloadShape DEF AdapterFormat, EndpointFormat
  <2>4. ASSUME stage = "answered", ~request.stream, response.status = 200, answer.shape = "native"
        PROVE  response.format = "openai"
    <3>1. response = Judged
      <4>1. /\ ErrorResponse("NotFound").status = 404
            /\ ErrorResponse("Internal").status = 500
            /\ ErrorResponse("UpstreamConnection").status = 502
        BY DEF ErrorResponse, StatusCode
      <4> QED BY <1>1, <2>4, <4>1 DEF GatewayInv, DispatchInv
    <3>2. answer.status = 200
      BY <2>4, <3>1 DEF Judged
    <3>3. response.format = TranslateResponse(body.format, EndpointFormat(upstream), "native")
      BY <2>1, <2>4, <3>1, <3>2 DEF Judged
    <3> QED BY <2>1, <2>3, <3>3, PayloadShape DEF TranslateResponse, AnthropicAnswer, GoogleAnswer
  <2> QED BY <2>2, <2>3, <2>4
<1> QED BY GatewayInductive, <1>1, PTL

(* What the client wrote reaches the upstream in every format: every text,  *)
(* in order, and the token limit, for requests of every length.             *)
THEOREM RequestsSurvive == GatewaySpec => []RequestSurvives
<1>1. ASSUME GatewayInv PROVE RequestSurvives
  <2> SUFFICES ASSUME body # Absent
               PROVE  /\ (request.array /\ \A i \in DOMAIN request.messages : request.messages[i].whole)
                            => Texts(body.messages) = Texts(request.messages)
                      /\ (request.max_tokens # Absent /\ request.max_tokens < Word)
                            => body.limit = request.max_tokens
    BY DEF RequestSurvives
  <2>1. body = Payload /\ request \in Requests
    BY <1>1 DEF GatewayInv, DispatchInv
  <2>2. request \in AnyRequest /\ Word \in Nat
    BY <2>1, DispatchAssumption
  <2>3. ASSUME request.max_tokens # Absent, request.max_tokens < Word
        PROVE  body.limit = request.max_tokens
    <3>1. request.max_tokens \in Nat
      BY <2>2, <2>3 DEF AnyRequest
    <3> QED BY <2>1, <2>2, <2>3, <3>1, PayloadShape DEF LimitOf
  <2>4. ASSUME request.array, \A i \in DOMAIN request.messages : request.messages[i].whole
        PROVE  Texts(body.messages) = Texts(request.messages)
    <3>1. AdapterFormat(ProviderOf(request)) \in {"openai", "anthropic", "google"}
      BY DEF AdapterFormat
    <3>2. body.messages = request.messages \/ body.messages = GeminiContents(request)
      BY <2>1, <2>4, <3>1 DEF Payload, TranslateRequest, AnthropicMessages
    <3> QED BY <2>2, <2>4, <3>2, AllWholeKept
  <2> QED BY <2>3, <2>4
<1> QED BY GatewayInductive, <1>1, PTL

(* Of the gateway's own errors a 502 comes after a request was forwarded, a *)
(* 500 before, and a 404 only from a gateway that has no upstream, which    *)
(* main's validation excludes; every other answer that is not a stream      *)
(* carries the upstream's status.  For every launch, list and request.      *)
THEOREM StatusesAreHonest == GatewaySpec => []StatusIsHonest
<1>1. ASSUME GatewayInv PROVE StatusIsHonest
  <2> SUFFICES ASSUME stage = "answered"
               PROVE  \/ response.format = "error" /\ response.status = 502 /\ upstream # Absent
                      \/ /\ response.format = "error" /\ response.status = 500
                         /\ upstream = Absent /\ settings.upstreams # <<>>
                      \/ /\ response.format = "error" /\ response.status = 404
                         /\ settings.upstreams = <<>> /\ launch.entry = "env"
                      \/ request.stream /\ response.format # "error"
                      \/ response.format # "error" /\ response.status = answer.status
    BY DEF StatusIsHonest
  <2>1. life = "serving" /\ config = Loaded.upstreams
    BY <1>1 DEF GatewayInv, Shared
  <2>2. Loadable /\ settings.upstreams = config
    BY <1>1, <2>1, LoadedShape DEF GatewayInv, StartupInv, Running
  <2>3. /\ ErrorResponse("NotFound") = [status |-> 404, format |-> "error"]
        /\ ErrorResponse("Internal") = [status |-> 500, format |-> "error"]
        /\ ErrorResponse("UpstreamConnection") = [status |-> 502, format |-> "error"]
    BY DEF ErrorResponse, StatusCode
  <2>4. CASE response = ErrorResponse("NotFound") /\ config = <<>>
    <3>1. ~Valid(Loaded)
      BY <2>1, <2>4 DEF Valid
    <3> QED BY <2>2, <2>3, <2>4, <3>1 DEF Loadable, UsesDefault
  <2>5. CASE response = ErrorResponse("Internal") /\ config # <<>> /\ upstream = Absent
    BY <2>2, <2>3, <2>5
  <2>6. CASE response = ErrorResponse("UpstreamConnection") /\ upstream # Absent
    BY <2>3, <2>6
  <2>7. CASE request.stream /\ response = [status |-> 200, format |-> "events"]
    BY <2>7
  <2>8. CASE response = Judged /\ answer \in [status : Statuses, shape : Shapes]
    BY <1>1, <2>8, JudgedShape DEF GatewayInv, DispatchInv
  <2> QED BY <1>1, <2>4, <2>5, <2>6, <2>7, <2>8 DEF GatewayInv, DispatchInv
<1> QED BY GatewayInductive, <1>1, PTL
=============================================================================
