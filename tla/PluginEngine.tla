---------------------------- MODULE PluginEngine ----------------------------
(***************************************************************************)
(* WasmPluginEngine of crates/wasm-plugin/src/engine.rs: two concurrent    *)
(* maps, plugins and configs, that load_plugin, load_plugin_bytes and      *)
(* unload_plugin change one after the other, and the calls that execute    *)
(* plugins meanwhile.  A call holds the guard of its plugins entry, a read *)
(* lock on a shard of the map, from the lookup to the end of the plugin's  *)
(* execution (execute_all: until it moves to the next shard); inserting    *)
(* into or removing from that shard waits for it.                          *)
(* Operations on configs hold their lock for one step only.                *)
(*                                                                         *)
(* A version stands for what one load of a name brings: a module, which is *)
(* its image, and its config.  What one execution does inside the plugin's *)
(* private Store is LinearMemory.                                          *)
(***************************************************************************)
EXTENDS LinearMemory, FiniteSets

CONSTANTS Names, Versions,
          Loaders,      \* threads that load and unload plugins
          Callers,      \* tasks that execute plugins, once each
          Looping,      \* the versions whose process_request never returns
          Shard,        \* the shard of the plugins map that holds a name
          None,         \* no entry
          Image,        \* Image[n, v]: the module that version v of n is
          ConfigLength, \* ConfigLength[n, v]: the bytes of its config
          RequestLength,\* the bytes of the payload
          Directory,    \* the .wasm files a directory may hold, [name, version]
          MaxLoads      \* bound: loads and unloads of all loaders together

ASSUME EngineAssumption ==
    /\ Looping \subseteq Versions
    /\ None \notin Versions
    /\ Loaders \cap Callers = {}
    /\ DOMAIN Shard = Names /\ None \notin {Shard[n] : n \in Names}
    /\ Image \in [Names \X Versions -> Images]
    /\ ConfigLength \in [Names \X Versions -> Nat] /\ RequestLength \in Nat
    /\ Directory \subseteq [name : Names, version : Versions] /\ IsFiniteSet(Directory)
    /\ MaxLoads \in Nat

VARIABLES plugins,      \* plugins[n]: the version of n's instance, or None
          configs,      \* configs[n]: the version of n's config, or None
          guards,       \* guards[c]: the shard caller c has locked to read, or None
          pc,           \* where each thread is
          op,           \* op[l]: the loader's operation: the name and version
                        \* in hand (version None for unload_plugin), the files
                        \* to come, the names done and those reported as loaded
          started,      \* loads and unloads started so far
          todo,         \* todo[c]: the names caller c has yet to execute
          current,      \* current[c]: the name and the config c found for it
          ran           \* ran[c]: the executions of c, [name, plugin, config]

engineVars == <<plugins, configs, guards, pc, op, started, todo, current, ran>>

LoaderStages == {"idle", "next_file", "check", "remove_plugin", "remove_config", "compile",
                 "insert_plugin", "insert_config"}
CallerStages == {"idle", "lookup", "config", "executing", "done", "panicked",
                 "not_found"}

Operation(n, v, files, touched) ==
    [name |-> n, version |-> v, files |-> files, touched |-> touched, loaded |-> {}]

EngineInit ==
    /\ plugins = [n \in Names |-> None]
    /\ configs = [n \in Names |-> None]
    /\ guards = [c \in Callers |-> None]
    /\ pc = [t \in Loaders \cup Callers |-> "idle"]
    /\ op = [l \in Loaders |-> Operation(None, None, {}, {})]
    /\ started = 0
    /\ todo = [c \in Callers |-> {}]
    /\ current = [c \in Callers |-> None]
    /\ ran = [c \in Callers |-> {}]

Goto(t, stage) == pc' = [pc EXCEPT ![t] = stage]

(* The write lock on n's shard is free: nobody holds a guard in it.         *)
Writable(n) == \A c \in Callers : guards[c] # Shard[n]

callerVars == <<guards, todo, current, ran>>

-----------------------------------------------------------------------------
(* load_plugin and load_plugin_bytes, unload_plugin on its own, and         *)
(* load_plugins_from_dir, which finds no file when there is no directory,   *)
(* and at most one of each name (UTF-8 names: the others are all "unknown").*)
Start(l, operation, stage, loads) ==
    /\ pc[l] = "idle" /\ started + loads <= MaxLoads
    /\ started' = started + loads
    /\ op' = [op EXCEPT ![l] = operation]
    /\ Goto(l, stage)
    /\ UNCHANGED <<plugins, configs>> /\ UNCHANGED callerVars

StartLoad(l, n, v) == Start(l, Operation(n, v, {}, {n}), "check", 1)

StartUnload(l, n) == Start(l, Operation(n, None, {}, {n}), "remove_plugin", 1)

StartLoadDir(l) ==
    \E files \in SUBSET Directory :
        /\ \A f, g \in files : f.name = g.name => f = g
        /\ Start(l, Operation(None, None, files, {}), "next_file", Cardinality(files))

(* The entries come in any order; a file that fails is skipped.             *)
NextFile(l) ==
    /\ pc[l] = "next_file"
    /\ \E file \in op[l].files :
          op' = [op EXCEPT ![l].name = file.name, ![l].version = file.version,
                           ![l].files = @ \ {file}, ![l].touched = @ \cup {file.name}]
    /\ Goto(l, "check")
    /\ UNCHANGED <<plugins, configs, started>> /\ UNCHANGED callerVars

NoMoreFiles(l) ==
    /\ pc[l] = "next_file" /\ op[l].files = {}
    /\ Goto(l, "idle")
    /\ UNCHANGED <<plugins, configs, op, started>> /\ UNCHANGED callerVars

(* contains_key: a loaded plugin is unloaded before the new one compiles.   *)
CheckNothing(l) ==          \* mutant: never unloads what is there
    /\ pc[l] = "check"
    /\ Goto(l, "compile")
    /\ UNCHANGED <<plugins, configs, op, started>> /\ UNCHANGED callerVars

CheckLoaded(l) ==
    /\ pc[l] = "check"
    /\ Goto(l, IF plugins[op[l].name] # None THEN "remove_plugin" ELSE "compile")
    /\ UNCHANGED <<plugins, configs, op, started>> /\ UNCHANGED callerVars

RemoveAnyway(l) ==          \* mutant: removes under a reader's guard
    /\ pc[l] = "remove_plugin"
    /\ plugins' = [plugins EXCEPT ![op[l].name] = None]
    /\ Goto(l, "remove_config")
    /\ UNCHANGED <<configs, op, started>> /\ UNCHANGED callerVars

RemovePlugin(l) ==
    /\ pc[l] = "remove_plugin"
    /\ Writable(op[l].name)
    /\ plugins' = [plugins EXCEPT ![op[l].name] = None]
    /\ Goto(l, "remove_config")
    /\ UNCHANGED <<configs, op, started>> /\ UNCHANGED callerVars

AfterUnload(l) == IF op[l].version = None THEN "idle" ELSE "compile"

RemoveConfig(l) ==
    /\ pc[l] = "remove_config"
    /\ configs' = [configs EXCEPT ![op[l].name] = None]
    /\ Goto(l, AfterUnload(l))
    /\ UNCHANGED <<plugins, op, started>> /\ UNCHANGED callerVars

(* The end of one load: back to the directory's loop, or to the caller.     *)
LoadEnds(l) == Goto(l, IF op[l].files = {} THEN "idle" ELSE "next_file")

(* WasmPluginInstance::from_file or from_bytes; an error returns at once.   *)
CompileCounted(l) ==        \* mutant: a file that fails is counted all the same
    /\ pc[l] = "compile"
    /\ \/ Goto(l, "insert_plugin") /\ UNCHANGED op
       \/ LoadEnds(l) /\ op' = [op EXCEPT ![l].loaded = @ \cup {op[l].name}]
    /\ UNCHANGED <<plugins, configs, started>> /\ UNCHANGED callerVars

Compile(l) ==
    /\ pc[l] = "compile"
    /\ \/ Goto(l, "insert_plugin")
       \/ LoadEnds(l)
    /\ UNCHANGED <<plugins, configs, op, started>> /\ UNCHANGED callerVars

InsertPlugin(l) ==
    /\ pc[l] = "insert_plugin"
    /\ Writable(op[l].name)
    /\ plugins' = [plugins EXCEPT ![op[l].name] = op[l].version]
    /\ Goto(l, "insert_config")
    /\ UNCHANGED <<configs, op, started>> /\ UNCHANGED callerVars

InsertConfig(l) ==
    /\ pc[l] = "insert_config"
    /\ configs' = [configs EXCEPT ![op[l].name] = op[l].version]
    /\ op' = [op EXCEPT ![l].loaded = @ \cup {op[l].name}]
    /\ LoadEnds(l)
    /\ UNCHANGED <<plugins, started>> /\ UNCHANGED callerVars

-----------------------------------------------------------------------------
loaderVars == <<plugins, configs, op, started>>

(* execute_plugin of one name, or execute_all of the map's entries.         *)
StartExecute(c, n) ==
    /\ pc[c] = "idle"
    /\ IF plugins[n] = None
       THEN Goto(c, "not_found") /\ UNCHANGED <<guards, todo, current>>
       ELSE /\ guards' = [guards EXCEPT ![c] = Shard[n]]
            /\ todo' = [todo EXCEPT ![c] = {n}]
            /\ current' = [current EXCEPT ![c] = n]
            /\ Goto(c, "config")
    /\ UNCHANGED ran /\ UNCHANGED loaderVars

StartExecuteAll(c) ==
    /\ pc[c] = "idle"
    /\ todo' = [todo EXCEPT ![c] = Names]
    /\ Goto(c, "lookup")
    /\ UNCHANGED <<guards, current, ran>> /\ UNCHANGED loaderVars

(* The iterator locks the next shard when it is through with the last, and  *)
(* sees the entries that are in it then.                                    *)
EnterShard(c) ==
    /\ pc[c] = "lookup"
    /\ \A n \in todo[c] : Shard[n] # guards[c]
    /\ \E s \in {Shard[n] : n \in Names} :
          /\ \E n \in todo[c] : Shard[n] = s
          /\ guards' = [guards EXCEPT ![c] = s]
          /\ todo' = [todo EXCEPT ![c] = {n \in @ : Shard[n] = s => plugins[n] # None}]
    /\ UNCHANGED <<current, pc, ran>> /\ UNCHANGED loaderVars

NextEntry(c) ==
    /\ pc[c] = "lookup"
    /\ \E n \in todo[c] :
          /\ Shard[n] = guards[c]
          /\ current' = [current EXCEPT ![c] = n]
    /\ Goto(c, "config")
    /\ UNCHANGED <<guards, todo, ran>> /\ UNCHANGED loaderVars

NoMoreEntries(c) ==
    /\ pc[c] = "lookup"
    /\ todo[c] = {}
    /\ guards' = [guards EXCEPT ![c] = None]
    /\ Goto(c, "done")
    /\ UNCHANGED <<todo, current, ran>> /\ UNCHANGED loaderVars

(* configs.get under the guard; a missing config becomes the empty string.  *)
ReadConfigUnguarded(c) ==   \* mutant: the guard is dropped after the clone
    /\ pc[c] = "config"
    /\ ran' = [ran EXCEPT ![c] = @ \cup
                 {[name |-> current[c], plugin |-> plugins[current[c]], config |-> configs[current[c]]]}]
    /\ guards' = [guards EXCEPT ![c] = None]
    /\ Goto(c, "executing")
    /\ UNCHANGED <<todo, current>> /\ UNCHANGED loaderVars

ReadConfig(c) ==
    /\ pc[c] = "config"
    /\ ran' = [ran EXCEPT ![c] = @ \cup
                 {[name |-> current[c], plugin |-> plugins[current[c]], config |-> configs[current[c]]]}]
    /\ Goto(c, "executing")
    /\ UNCHANGED <<guards, todo, current>> /\ UNCHANGED loaderVars

(* The execution that c is in: its image, the bytes of its configuration,   *)
(* and what execute returns for every image and configuration.              *)
Execution(c) == CHOOSE e \in ran[c] : e.name = current[c]

Running(c) == Image[current[c], Execution(c).plugin]

Bytes(n, v) == IF v = None THEN 0 ELSE ConfigLength[n, v]

ConfigBytes(c) == Bytes(current[c], Execution(c).config)

Execute == [n \in Names, v \in Versions, config \in Versions \cup {None} |->
               Outcome(Image[n, v], RequestLength, Bytes(n, config))]

OutcomeOf(c) == Execute[current[c], Execution(c).plugin, Execution(c).config]

(* The plugin has been called, and never returns.                           *)
Loops(c) ==
    /\ Execution(c).plugin \in Looping
    /\ Called(Running(c), RequestLength, ConfigBytes(c))

(* process.call runs to its end inside one poll, so the timeout around it   *)
(* never gets to look at the clock.  execute_plugin's guard is dropped when *)
(* it returns, execute_all's when the iterator is through with the shard; a *)
(* failing plugin is one more result of execute_all.                        *)
Ends(c, left) ==
    /\ todo' = [todo EXCEPT ![c] = left]
    /\ Goto(c, IF left = {} THEN "done" ELSE "lookup")
    /\ UNCHANGED <<current, ran>> /\ UNCHANGED loaderVars

ReturnsGuarded(c) ==        \* mutant: the last guard is never dropped
    /\ pc[c] = "executing" /\ ~Loops(c)
    /\ OutcomeOf(c) # "panic"
    /\ Ends(c, todo[c] \ {current[c]})
    /\ UNCHANGED guards

ReturnsAtFirstError(c) ==   \* mutant: execute_all passes the first error on
    LET outcome == OutcomeOf(c)
        left    == IF outcome = "error" THEN {} ELSE todo[c] \ {current[c]}
    IN  /\ pc[c] = "executing" /\ ~Loops(c)
        /\ outcome # "panic"
        /\ guards' = [guards EXCEPT ![c] = IF left = {} THEN None ELSE @]
        /\ Ends(c, left)

Returns(c) ==
    LET left == todo[c] \ {current[c]}
    IN  /\ pc[c] = "executing" /\ ~Loops(c)
        /\ OutcomeOf(c) # "panic"
        /\ guards' = [guards EXCEPT ![c] = IF left = {} THEN None ELSE @]
        /\ Ends(c, left)

(* A panic unwinds the caller's task: its guard is dropped, and execute_all *)
(* loses the results it had.                                                *)
Panics(c) ==
    /\ pc[c] = "executing" /\ ~Loops(c)
    /\ OutcomeOf(c) = "panic"
    /\ guards' = [guards EXCEPT ![c] = None]
    /\ todo' = [todo EXCEPT ![c] = {}]
    /\ Goto(c, "panicked")
    /\ UNCHANGED <<current, ran>> /\ UNCHANGED loaderVars

-----------------------------------------------------------------------------
LoaderStep(l) ==
    NextFile(l) \/ NoMoreFiles(l) \/ CheckLoaded(l) \/ RemovePlugin(l) \/ RemoveConfig(l)
        \/ Compile(l) \/ InsertPlugin(l) \/ InsertConfig(l)

CallerStep(c) ==
    EnterShard(c) \/ NextEntry(c) \/ NoMoreEntries(c) \/ ReadConfig(c) \/ Returns(c)
        \/ Panics(c)

EngineNext ==
    \/ \E l \in Loaders, n \in Names, v \in Versions : StartLoad(l, n, v)
    \/ \E l \in Loaders, n \in Names : StartUnload(l, n)
    \/ \E l \in Loaders : StartLoadDir(l) \/ LoaderStep(l)
    \/ \E c \in Callers, n \in Names : StartExecute(c, n)
    \/ \E c \in Callers : StartExecuteAll(c) \/ CallerStep(c)

EngineSpec == EngineInit /\ [][EngineNext]_engineVars

(* Threads that are inside a call keep running; nothing starts one.         *)
FairEngineSpec ==
    /\ EngineSpec
    /\ \A l \in Loaders : WF_engineVars(LoaderStep(l))
    /\ \A c \in Callers : WF_engineVars(CallerStep(c))

-----------------------------------------------------------------------------
EngineTypeOK ==
    /\ plugins \in [Names -> Versions \cup {None}]
    /\ configs \in [Names -> Versions \cup {None}]
    /\ guards \in [Callers -> {Shard[n] : n \in Names} \cup {None}]
    /\ pc \in [Loaders \cup Callers -> LoaderStages \cup CallerStages]
    /\ \A l \in Loaders : pc[l] \in LoaderStages
    /\ \A c \in Callers : pc[c] \in CallerStages
    /\ op \in [Loaders -> [name : Names \cup {None}, version : Versions \cup {None},
                           files : SUBSET Directory, touched : SUBSET Names,
                           loaded : SUBSET Names]]
    /\ started \in 0..MaxLoads
    /\ todo \in [Callers -> SUBSET Names]
    /\ current \in [Callers -> Names \cup {None}]
    /\ ran \in [Callers -> SUBSET [name : Names, plugin : Versions,
                                   config : Versions \cup {None}]]

(* A plugin never runs with the configuration of another load, whatever     *)
(* reload interleaves with the call: it gets its own, or none at all.       *)
NoForeignConfig == \A c \in Callers : \A e \in ran[c] : e.config \in {e.plugin, None}

(* Between the operations of the loader both maps agree: no plugin is       *)
(* without its configuration and no configuration is left behind, also      *)
(* after a load that failed half-way.  And what a load, a directory's load  *)
(* or an unload has reported is what the engine then holds: of the names it *)
(* touched, the plugins counted as loaded are there, and one that failed to *)
(* compile has left nothing of itself or of the plugin it was to replace.   *)
ReportIsTrue ==
    \A l \in Loaders : pc[l] = "idle" =>
        /\ plugins = configs
        /\ \A n \in op[l].touched : (n \in op[l].loaded) = (plugins[n] # None)

(* A plugin that is called finds its request and its configuration whole:   *)
(* behind the module's own data, apart from each other, inside the memory   *)
(* and at addresses that are not negative, whatever the casts to i32 and    *)
(* back make of them; and it is told their lengths.  There are two          *)
(* exceptions: a memory that already has every page 32 bits can address,    *)
(* where the offset wraps to 8, and a configuration of 2^31 bytes or more,  *)
(* which is in its place but told as a negative length.  A request that     *)
(* long leaves no room for a configuration, be it empty, and is no          *)
(* exception.                                                               *)
StringsIntact ==
    \A c \in Callers :
        LET image == Running(c)
            bytes == ConfigBytes(c)
            told  == Arguments(image, RequestLength, bytes)
        IN  pc[c] = "executing" /\ Called(image, RequestLength, bytes) =>
                \/ Request(image, RequestLength).memory.pages = MaxPages
                \/ /\ Placed(image, RequestLength, bytes)
                   /\ told.requestLength = RequestLength
                   /\ told.configLength = bytes \/ 2 * bytes >= Wrap32

(* execute_all leaves no entry of the map out: it is through with a name    *)
(* only when the name has run or is not in the map, whatever the plugins    *)
(* before it answered, short of a panic.                                    *)
NoneSkipped ==
    [][\A c \in Callers : \A n \in todo[c] \ todo'[c] :
          \/ plugins[n] = None
          \/ pc'[c] = "panicked"
          \/ \E e \in ran[c] : e.name = n]_engineVars

(* While a call executes a plugin, the plugin stays loaded: unloading it    *)
(* waits for the call.                                                      *)
RunningStaysLoaded ==
    [][\A c \in Callers : (pc[c] = "executing" /\ pc'[c] = "executing") =>
          plugins'[current[c]] = plugins[current[c]]]_engineVars

(* Every load, unload and execution that was started comes to its end: the  *)
(* guards and the locks of the two maps never block each other for good.    *)
CallsReturn ==
    /\ \A l \in Loaders : pc[l] # "idle" ~> pc[l] = "idle"
    /\ \A c \in Callers : pc[c] # "idle" ~> pc[c] \in {"done", "panicked", "not_found"}

(* README.md:122 promises execution timeouts: an execution ends, whatever   *)
(* the plugin does.                                                         *)
ExecutionTimesOut == \A c \in Callers : pc[c] = "executing" ~> pc[c] # "executing"
=============================================================================
