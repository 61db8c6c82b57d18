------------------------------ MODULE Startup ------------------------------
(***************************************************************************)
(* The gateway's process from its arguments to its listeners: main         *)
(* (src/main.rs) and ConfigLoader (crates/core/src/config.rs).  main loads *)
(* a file, overrides, spawns the metrics server and binds; the metrics     *)
(* server is a task of its own that binds when it is polled.               *)
(*                                                                         *)
(* A launch is what the process finds: the file, the overrides of          *)
(* arguments or environment, the addresses that other processes have       *)
(* taken, and by which entry it comes: "main", or "env" for a program that *)
(* calls the library's from_env instead (nothing in the repository does).  *)
(* A file may not exist; toml says that it is TOML, whole that every field *)
(* without a default is there, and names has the strings it gives as       *)
(* providers (a custom one is a table).  content is what it then says.     *)
(***************************************************************************)
EXTENDS Sequences

CONSTANTS Launches,     \* the launches to explore
          Addresses,    \* socket addresses, no two of which overlap
          Fixed,        \* 0.0.0.0:8080
          DefaultMetrics, \* 0.0.0.0:9090
          Unset         \* an Option that is None

AnySettings == [upstreams : Seq([provider : STRING]),
                listen : Addresses \cup {Unset}, metrics : Addresses \cup {Unset},
                tls : BOOLEAN, cert : BOOLEAN, key : BOOLEAN]
AnyLaunch == [entry : {"main", "env"},
              file : [exists : BOOLEAN, toml : BOOLEAN, whole : BOOLEAN,
                      names : SUBSET STRING, content : AnySettings],
              taken : SUBSET Addresses,
              overrides : [listen : Addresses \cup {Unset}, metrics : Addresses \cup {Unset}]]

ASSUME StartupAssumption ==
    /\ {Fixed, DefaultMetrics} \subseteq Addresses /\ Unset \notin Addresses
    /\ \A l \in Launches : l \in AnyLaunch

VARIABLES launch,       \* what the process finds, fixed
          life,         \* loading, loaded, observed, built, serving or exited
          settings,     \* the configuration in force: [upstreams, listen, metrics, tls]
          metrics,      \* the metrics server: off, starting, serving or failed
          ports         \* who is bound to each address

startupVars == <<launch, life, settings, metrics, ports>>

NoSettings == [upstreams |-> <<>>, listen |-> Unset, metrics |-> Unset,
               tls |-> FALSE, cert |-> FALSE, key |-> FALSE]

(* GatewayConfig::default.                                                  *)
DefaultSettings == [NoSettings EXCEPT !.listen = Fixed, !.metrics = DefaultMetrics]

StartupInit ==
    /\ launch \in Launches
    /\ life = "loading" /\ settings = NoSettings /\ metrics = "off"
    /\ ports = [a \in Addresses |-> IF a \in launch.taken THEN "other" ELSE "free"]

-----------------------------------------------------------------------------
(* toml::from_str into a GatewayConfig.  A provider is named as serde's     *)
(* snake_case spells the variant, with a "_" before every capital.          *)
VariantNames == {"open_a_i", "anthropic", "google", "azure", "ollama"}

Parses(file) == file.toml /\ file.whole /\ file.names \subseteq VariantNames

(* validate.  The check for an empty base URL is dead: an Url has a scheme. *)
ValidTls(s) ==              \* mutant: an empty list of upstreams passes
    s.tls => s.cert /\ s.key

Valid(s) ==
    /\ s.upstreams # <<>>
    /\ s.tls => s.cert /\ s.key

(* from_toml_file and from_env; from_env takes the default, unvalidated,    *)
(* where there is no file.                                                  *)
UsesDefault == launch.entry = "env" /\ ~launch.file.exists

Loaded == IF UsesDefault THEN DefaultSettings ELSE launch.file.content

Loadable == UsesDefault \/ (launch.file.exists /\ Parses(launch.file) /\ Valid(Loaded))

(* The overrides come after the validation and touch none of what it checks.*)
Overridden(s, o) ==
    [s EXCEPT !.listen = IF o.listen = Unset THEN @ ELSE o.listen,
              !.metrics = IF o.metrics = Unset THEN @ ELSE o.metrics]

LoadConfig ==
    /\ life = "loading"
    /\ IF Loadable
       THEN life' = "loaded" /\ settings' = Overridden(Loaded, launch.overrides)
       ELSE life' = "exited" /\ UNCHANGED settings
    /\ UNCHANGED <<launch, metrics, ports>>

(* init_observability cannot fail: a filter that does not parse is "info".  *)
InitObservability ==
    /\ life = "loaded"
    /\ life' = "observed"
    /\ UNCHANGED <<launch, settings, metrics, ports>>

(* The metrics server is spawned, then build_router, which cannot fail.     *)
BuildRouter ==
    /\ life = "observed"
    /\ life' = "built"
    /\ metrics' = IF settings.metrics = Unset THEN "off" ELSE "starting"
    /\ UNCHANGED <<launch, settings, ports>>

(* The listener of main, at its fixed address.  When main returns, the      *)
(* process ends with all its tasks.                                         *)
Owned(who) == [a \in Addresses |-> IF a = Fixed THEN who ELSE ports[a]]

BindAnyway ==               \* mutant: a bind that fails is only logged
    /\ life = "built"
    /\ life' = "serving"
    /\ ports' = IF ports[Fixed] = "free" THEN Owned("main") ELSE ports
    /\ UNCHANGED <<launch, settings, metrics>>

Bind ==
    /\ life = "built"
    /\ IF ports[Fixed] = "free"
       THEN /\ life' = "serving" /\ ports' = Owned("main")
            /\ UNCHANGED metrics
       ELSE /\ life' = "exited" /\ metrics' = "off"
            /\ ports' = [a \in Addresses |-> IF ports[a] = "metrics" THEN "free" ELSE ports[a]]
    /\ UNCHANGED <<launch, settings>>

(* start_metrics_server, whose failure is logged and nothing else.          *)
BindMetrics ==
    /\ metrics = "starting"
    /\ IF ports[settings.metrics] = "free"
       THEN metrics' = "serving" /\ ports' = [ports EXCEPT ![settings.metrics] = "metrics"]
       ELSE metrics' = "failed" /\ UNCHANGED ports
    /\ UNCHANGED <<launch, life, settings>>

-----------------------------------------------------------------------------
MainStep == LoadConfig \/ InitObservability \/ BuildRouter \/ Bind

StartupNext == MainStep \/ BindMetrics

StartupSpec == StartupInit /\ [][StartupNext]_startupVars

(* rustai.toml as it is shipped: its routes have no list of plugins.        *)
Shipped ==
    [exists |-> TRUE, toml |-> TRUE, whole |-> FALSE,
     names |-> {"openai", "anthropic", "ollama"},
     content |-> [DefaultSettings EXCEPT !.upstreams =
        <<[provider |-> "openai"], [provider |-> "anthropic"], [provider |-> "ollama"]>>]]

-----------------------------------------------------------------------------
(* The shape of the process's state.                                        *)
StartupTypeOK ==
    /\ launch \in Launches
    /\ life \in {"loading", "loaded", "observed", "built", "serving", "exited"}
    /\ settings \in AnySettings
    /\ metrics \in {"off", "starting", "serving", "failed"}
    /\ ports \in [Addresses -> {"free", "main", "metrics", "other"}]

(* A gateway that serves has its port, a configuration that passed the      *)
(* validation if main loaded it, and a metrics server that has its own port *)
(* or none: whichever of the two listeners binds first when the metrics     *)
(* address is main's, the process never serves with one address for both.   *)
ServesAsValidated ==
    life = "serving" =>
        /\ ports[Fixed] = "main"
        /\ launch.entry = "main" => Valid(settings)
        /\ metrics = "serving" => settings.metrics # Fixed /\ ports[settings.metrics] = "metrics"

(* main.rs:19: --listen is the address to listen on, as is listen_addr of   *)
(* the file.                                                                *)
ListensWhereTold == life = "serving" => ports[settings.listen] = "main"

(* README.md:59 calls rustai.toml an example configuration, and the image   *)
(* of the Dockerfile starts with it: a gateway that finds it, and its port, *)
(* runs.                                                                    *)
ShippedFileRuns ==
    (launch.entry = "main" /\ launch.file = Shipped /\ launch.taken = {}) => life # "exited"
=============================================================================
