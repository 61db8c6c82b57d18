# A TLA+ model of the AIRGateway

AIRGateway (crate name `rustai`) is a gateway in Rust between clients of large
language models and their providers. This directory holds TLA+ modules that model its
state machines, TLC configurations that check them on small instances, and proofs,
checked by TLAPS, of what matters most for every size. Paths below are relative to the
repository; `MC*` modules and `.cfg` files only give values to constants.

## 1. The system

| Component | Source | State | Operations | Module |
|---|---|---|---|---|
| Start-up | `src/main.rs`, `crates/core/src/config.rs` | the configuration, two listeners | load, validate, override, bind | `Startup`, `Gateway` |
| Request dispatch | `crates/router/src/router.rs`, `proxy_handler.rs`, `provider.rs`, `crates/core/src/error.rs` | the request on its way | `chat_completions_handler`, `handle_request`, `find_upstream`, `translate_*`, `json_response` | `RequestDispatch`, `Gateway` |
| Streaming relay | `crates/router/src/proxy_handler.rs`, `provider.rs` | a task, a channel of 1024, the body | `stream_response`, `parse_sse_chunk` | `SseChunks`, `StreamRelay`, `SsePaths` |
| Backend transport, SSE proxy | `crates/proxy/src/transport.rs`, `sse.rs` | a response that can be taken once | `forward_request`, `as_json`, `stream_sse`, `next_event`, `stream_response` | `SseChunks`, `ResponseStream`, `SsePaths` |
| Connection pool | `crates/proxy/src/connection.rs` | per upstream a fair semaphore and a counter | `acquire`, drop of a handle, `active_count`, `total_active` | `ConnectionPool`, `ConnectionLimiter` |
| Token bucket | `crates/wasm-plugin/src/plugins.rs` | per key tokens and time of the last refill | `check_rate_limit`, `rate_limit_result` | `TokenBucket` |
| Plugin engine | `crates/wasm-plugin/src/engine.rs`, `runtime.rs` | the maps `plugins` and `configs`, their shard locks, a plugin's linear memory | load (one, bytes, directory), reload, unload, execute one or all | `PluginEngine`, `LinearMemory` |
| MCP server | `crates/mcp/src/server.rs`, `tools.rs`, `protocol.rs` | reader task, channel of 256, session, registry | read, receive, handle, call a tool, print, register | `McpStdio` |
| MCP TCP transport | `crates/mcp/src/transport.rs` | a reader and a writer behind mutexes, the stream between | `send`, `receive` | `McpTcp`, `MessageChannel` |
| Kubernetes controller | `crates/k8s-gateway/src/controller.rs`, `crd.rs` | kube's store and schedule, the resource's status | `reconcile`, `update_status`, `error_policy` | `GatewayController` |
| Kubernetes watcher | `crates/k8s-gateway/src/watcher.rs` | a watch channel nobody sends to | logs events | - |
| Proxy engine | `crates/proxy/src/engine.rs` | configuration and a pool, never started | `find_matching_route` | - |
| Middleware | `crates/router/src/middleware.rs`, `crates/core/src/middleware.rs` | none; installed nowhere | pre- and post-processing | - |
| PII masker, tracing plugin | `crates/wasm-plugin/src/plugins.rs` | none | string functions | - |
| TLS, observability | `crates/proxy/src/tls.rs`, `crates/observability` | files; counters nothing increments | set-up | - |

How they interact. `main` loads a file, applies overrides, starts observability, spawns
the metrics server as a task and serves the router on a listener of its own; the router
shares one configuration with every handler. A handler turns a POST into an
`LlmRequest`, and `ProxyHandler` picks an upstream and an adapter, forwards, and either
translates the whole answer (`json_response`) or spawns a relay task that shares a bounded
channel with the response body. That is the only path a client's request takes: the proxy
crate (engine, pool, transport, SSE proxy), the middleware, the plugin engine and its rate
limiter are libraries that `main` does not connect. They are modelled on their own, with
the concurrency their interfaces allow (`&self`, `Arc`, async). The MCP server talks to a
client over stdin and stdout and calls tools through a registry shared with whoever
registers them; its TCP transport is a library. The controller and the API server act on
one shared resource.

What is hard here: futures dropped at an await, hand-over of permits, the order of a
`Drop` body and its fields, chunk boundaries that are not event boundaries, half-written
and half-read lines, a channel that is full or has lost its other end, locks held across
the execution of a plugin, two maps changed one after the other, a panic in the middle of
a call, requests that outlive their sender, deletion and re-creation under one name,
a configuration changed after it was validated, time cut to seconds, and casts to 32 bits.
`PROJECT.json` lists these hazards at their lines.

What makes each part correct: a gateway that serves has its ports and a validated
configuration; dispatch agrees with itself on one provider, reports failures as such and
always answers; a streamed answer keeps its order, ends, loses nothing as long as chunks
are aligned, and has one taker; the pool counts exactly and never above its limit, and its
queue is fair and loses no wake-up; the bucket admits no more than burst and refill in
any window, and its waits suffice; the engine never mixes configurations, reports what it
holds, never unloads under a call, leaves no plugin out, hands strings over whole and
never deadlocks; the MCP session answers every line in order, with its id, and its
transport is an ordered channel that loses one message for a dropped future; the
controller's status converges to the truth and comes to rest.

## 2. The modules

Every action is one operation of the code, or the part of it between two awaits or lock
operations; its comment names it, and `map` in `PROJECT.json` gives the lines. Operators
marked `mutant` are faulty variants of the definition that follows them; they are in no
specification and serve to show that each property can fail.

**Startup**: `LoadConfig` is `from_toml_file` (or `from_env`) with validation and the
overrides after it, `InitObservability`, `BuildRouter` and `Bind` the rest of `main`, in
its order, and `BindMetrics` the metrics server's task, at any time after it is spawned.
A launch is what the process finds: file, overrides, taken ports. A file `Parses` if it is
TOML, has every field without a default, and names its providers as serde spells the
variants (`VariantNames`); `Shipped` is the repository's `rustai.toml`. Observability
cannot fail (a filter that does not parse becomes "info"; a level with a NUL byte, on
which `set_var` panics, is left out). `from_env` is an entry
that only another program could use; `main` has its own. **RequestDispatch**:
configuration and request are chosen at the start; `Dispatch` is
everything up to the send, and ends in `Forward` or in a refusal with 404 (no upstream) or
500 (the HTTP client of the request cannot be built). `HeadersArrive` and `BodyArrives` are
the two awaits,
`UpstreamFails` every error of either, the timeout included. Providers are names and model
names the set of provider words they contain; a header in another case is the same name
for the five known providers and another custom one otherwise. An upstream configured as
`Custom("openai")` is one more custom name. The temperature, passed on as it is, is left
out. Malformed JSON and unknown
paths are rejected by axum and left out. Ollama's `api/chat` is taken for an
OpenAI-compatible endpoint, as the comment at `provider.rs:220` says. **Gateway** composes
the two: requests are dispatched once the process serves, with the upstreams it has loaded.

**SseChunks** holds what two readers of a streamed answer have in common: lines of three
pieces each, two of which make the `data: ` prefix, and chunks of any number of pieces, so
that all cuts are explored. **StreamRelay** is the router's task, channel and client;
`SendToNobody` is a send whose receiver is gone. The branch for an adapter's error is dead
code (no adapter returns one) and is left out. **ResponseStream** is the proxy crate's
response: `Take` is the `Option::take` that `as_json` and `stream_sse` share, `NextEvent`
one chunk of `next_event` under `SseProxy::stream_response`, `DropCall` a caller that
drops what it awaits. **SsePaths** puts both behind one choice of path and states
what both owe their caller.

**ConnectionLimiter** is the abstract limiter: per upstream a set of slots in use and a
line; one enters at once, queues, leaves (and lets the first of the line in) or gives up.
**ConnectionPool** is the code: a task goes `idle -> [queued -> granted ->] admitted ->
held -> dropping -> idle`. `granted` separates tokio's hand-over from the poll that sees
it, `admitted` the await from the increment (l.49 and 53), `dropping` the decrement in
`Drop::drop` from the drop of `_permit`. `CancelWaiting` and `CancelGranted` drop the
future at its await. `ReadOne` is one step of `total_active`. The DashMap reference that
`acquire` holds over its await is left out: nothing writes to `pools` after `new`.
`ImplementsLimiter` maps slots to the tasks that own a permit and the line to the queue.

**TokenBucket**: `CheckRateLimit` is one step, since the entry lock spans the whole call
and the clock is read inside it. Time is in ticks of a fraction of a second and tokens in
the same fraction, so a refill is an exact integer; the code's f64 rounds it. A limited call
is told its shortfall over the rate, an exact quotient: `RetryAfterSecs` floors it to whole
seconds, and `WaitFor` is the first tick at which so much time is over.
`mark` and `spent` are history: an observer may begin a window at any time.

**LinearMemory** is one `WasmPluginInstance::execute` as a function of the module's image
and the lengths of its two strings: `WriteString` with its cast of the offset to i32, the
u64 that the write and the plugin make of it, the growth and the limit the module declares;
then the four i32 it is called with (`Arguments`: offsets and lengths, cast), the call, which
may trap or grow the memory, and `read_string`, whose slice may panic.
The widths are constants (`PageSize`, `Wrap32`, `Wrap64`) in the code's proportions.
**PluginEngine**: a caller's `guards` entry is the read lock of the shard it looks up in
or iterates over, held while the plugin runs; `Writable` makes inserting and removing wait
for it. `Shard` places names in shards. A version stands for module and configuration of
one load; `Returns` and `Panics` take their outcome from `LinearMemory`, and an execution
`Loops` only when its plugin never returns and was reached: one whose strings cannot be
written returns an error before the call. Compiling may
fail, which ends the load where the code's `?` does. `StartLoadDir` is
`load_plugins_from_dir`: any subset of `Directory` in any order, one failing file skipped;
files without `.wasm` are ignored by the code, their names are taken to be UTF-8, and
the configuration it passes is `None`, an empty one (`ConfigLength` 0).

**McpStdio**: a line is its kind, id, tool and arguments. The reader moves lines into the
channel; `Receive` skips blank ones; `HandleDirectly`, `CallTool`, `ToolReturns` are the
handlers, `Execute` what the built-in tools make of their arguments; `WriteReply` panics
when stdout is closed. `SendersLeft` names the tasks that keep a sender.

**MessageChannel** is the abstract channel: in order, at most once, lossy. `Transmit`
refuses what is in transit or was delivered, and `Lose` keeps any part in its order. **McpTcp** is
`TcpTransport`: a line is three pieces; a write takes some of them, a read takes one;
`DropSend` and `DropReceive` drop a future at an await, and leave half a line in the
stream or lose the half already read. `ShutDown` and `Reset` end the connection; a reset
leaves the reader any part of the stream's front, which its `BufReader` may hold already.
`ImplementsChannel` counts a message as in transit from the last piece of its JSON on, for
that is when `receive` may return it.

**GatewayController**: one resource (kube runs one reconciliation per resource at a time,
and resources do not interact). `object` is the API server's, `store` the controller's
copy, `due` and `running` kube's scheduler, `patch` the request in flight. `late` are
requests whose sender restarted or lost its connection. kube, the API server and the user
are external; they are modelled as `controller.rs` relies on them. Assumed of them: the
watch delivers the newest state in the end and in order, a new process lists that state,
a patch equal to the present status is no event, and a patch of a missing name is refused.

## 3. What TLC checks

| Run | Instance | Shows |
|---|---|---|
| `gateway` | lists of 0 to 2 upstreams of 4 providers, 252 requests, `Word` = 8; 12 odd files, 2 entries, overrides, taken ports; 322,560 states | ports and validation of what serves; agreement of adapter, URL and upstream, translation, status, an answer for everyone |
| `sse` | data, comment, data, [DONE] in 12 pieces; a relay with 2 adapters and a channel of 2, or a response with 3 calls; 231,006 states | order, end marker, losslessness of aligned chunks, one taker of the body, termination |
| `pool` | 3 tasks; upstreams with 1 and 2 permits (one by default); an unknown id; 14,770 states | counting, wake-ups, the total at every step of its sweep, and the refinement of `ConnectionLimiter`, which includes the order of the line |
| `bucket` | 2 clients, rates with 0, sub-second ticks; 230,221 states up to symmetry | the window bound, and both bounds on waits |
| `plugin` | 1 loader, 2 callers, 3 names over 2 shards, 2 versions, 6 modules, a directory of 2 files, 2 loads; 245,315 states | configurations, truth of the report, strings, no entry skipped, guards, no deadlock |
| `mcp` | 3 lines of 12 kinds, channel of 1, 2 tools; 1,034,716 states | order, ids, every line answered |
| `mcp_tcp` | 3 messages, 2 receivers, room for 4 pieces; 294,808 states | one loss per dropped future, refinement of `MessageChannel` |
| `controller` | 2 incarnations, 2 edits, 1 restart, 1 outliving request, 3 specs; 310,323 states | truth of the status, nothing forgotten, convergence, rest |

Why these bounds are enough. Three tasks give a holder, a waiter and a newcomer, and two
waiters in a line of one permit. Two clients on one key interleave takes and refills, and
the ticks cover waits below and above a second. Twelve pieces contain chunks that cut a
prefix, a content and several events; three calls are a connection and two takers.
Two upstreams show first match against fallback. Two callers and one loader hold
both shards against a writer, and a directory of two is one file that fails and
one that must load all the same. Memory is scaled to pages of 16 bytes, `Wrap32` = 256 and
`Wrap64` = 65536, so that a memory has up to 16 pages, half of the offsets are negative and
an offset wraps: the six modules are one on each side of every such edge, and one of the
configurations has 130 bytes, more than half of what 8 bits address. A channel of one
is full after one line, and three lines fill reader, channel and session. Four pieces of
room are a line and the beginning of the next. Two incarnations and one late request
suffice for a stale verdict on a new resource. Counters that are bounded: `MaxTime`,
`MaxLines`, `MaxLoads`, `MaxCalls`, `MaxCreates`, `MaxEdits`, `MaxRestarts`, `MaxLost`.
Deadlock is checked for `pool`; the other systems may stop (the clock's bound, a finished
stream, an answered request, a closed session or connection, no resource at all).

Six runs find violations, of statements the repository makes and the code does not keep:

* `relay_loss`: `parse_sse_chunk` "extracts streaming SSE events" (`traits.rs:88`), but
  only the first data line of a chunk survives (`provider.rs:45`).
* `listen_address`: `--listen` is the "address to listen on" (`main.rs:19`), but the
  listener binds `0.0.0.0:8080` whatever it says (`main.rs:79`).
* `example_file`: `rustai.toml` is the "example configuration" (`README.md:59`) with which
  the image starts (`Dockerfile:44`), but its provider "openai" is not what serde accepts
  for `OpenAI` ("open_a_i", `types.rs:8`), and its routes lack `plugins`: `main` exits.
* `fallback_format`: an adapter translates "to the provider's API format" (`traits.rs:82`),
  but after the fallback to the first upstream the payload is in the format of the provider
  that was asked for, and the URL is the upstream's (`proxy_handler.rs:33-37,211`).
* `plugin_timeout`: "execution timeouts" (`README.md:122`) never interrupt a plugin, as
  the call is one synchronous poll (`runtime.rs:117`); the plugin in the run's trace was
  reached, with both strings written.
* `mcp_shutdown`: a session fed by `echo` (`README.md:232`) never ends, because the
  session keeps a sender of its own channel (`server.rs:149`).

Properties are stated for what the code does promise; some carry a limit:

* `ServedProviderAgrees` is about providers that have an upstream: after a fallback the
  adapter is still chosen by the request's provider (run `fallback_format`).
* `StatusIsHonest` says what each status of the gateway's own errors tells: 502 that the
  request was forwarded, 500 that it never was, 404 that there is no upstream. The
  upstream's own status is passed on in replies that are not streams; a stream is answered
  200 whatever it is.
* `WaiterLeavesQueue` is about positive limits: `max_connections` = 0 is accepted, and every
  acquire then waits for ever.
* `RequestSurvives` is about messages that are whole and limits below 2^32.
* `NoForeignConfig` and `ReportIsTrue` hold for one loader and fail for two that load one
  name at once; nothing in the repository loads concurrently.
* `StringsIntact` excepts a memory that has every page of 32 bits from the start: its
  offset wraps to 8, into the module's own data. It also excepts the length of a
  configuration of 2^31 bytes or more, which is in its place but told as a negative number
  (`runtime.rs:122`). A request of that length needs no exception: behind it even an empty
  configuration gets a negative offset and cannot be written.
* `NoneSkipped` and `CallsReturn` allow for panics of `read_string`, which take the
  caller's task with them.
* `ReadyMeansValid` is about statuses of the same incarnation.

Further differences met while modelling, outside what the runs check: substitution of
environment variables in the configuration is described by the repository's README and not
implemented; `max_memory_pages` is stored and never compared (`README.md:122`); a module
whose declared maximum is its initial size can never be executed, as there is no room
for its strings; `as_secs` cuts a timeout below one second to none at all
(`proxy_handler.rs:66`); the pool-wide limit of 10,000 is unused and two upstreams with one
id share a pool (`connection.rs:26,30`); the watcher ignores the initial list
(`watcher.rs:65`).

### Fairness

Weak fairness stands for a runtime that polls woken tasks, for locks and channels that
serve whoever waits, and for timeouts that fire. Gateway: `main` goes on, a handler is
polled, and a request's timeout fires if nothing else happens; no upstream need answer and
the metrics server may never bind. Streams: the relay's task and a call that
waits for the upstream are polled, since the upstream's end or the client's timeout wakes
them; the server polls the body of a client that stays; nobody must leave or call again.
Pool: a task that was handed a permit or holds one goes on, since every upstream call
has a timeout; nobody must ask or give up. Plugin: calls that began run on. MCP: both
tasks are polled and a tool returns. The TCP transport has no liveness property and no
fairness: its peer may never read. Controller: watch, scheduler and answers are weakly
fair; `UpdateStatus` is strongly fair, since requests may fail any number of times but a
server that is asked again and again serves one in the end.
Users, clients, cancellations, failures and restarts have no fairness.

## 4. What is proved

Every invariant and every action property that a run checks, and both refinements, are
theorems: they hold for all values of the constants that satisfy the named assumptions.
The module `XProofs` (`GatewayProofs` for `Startup`, `RequestDispatch` and `Gateway`,
`SsePathsProofs` for all four modules of streams, `PluginEngineProofs` for `LinearMemory`
too) extends the component's module. In each the argument is the same: an inductive
invariant holds initially, one step per action shows that it is kept, and the properties
follow from it. What differs is what the invariant must know.

The assumptions are those the modules declare and TLC evaluates: sets are finite where
something counts them (tasks, upstreams, senders, the files of a directory), values that
stand for "none" are no values of the type they are missing from, and what is enumerated
has the shape of the code's types (`AnyUpstream`, `AnyRequest`, `AnySettings`, `AnyLaunch`,
`Images`). Nothing bounds how many tasks, messages, lines, keys or upstreams there are, and
the bounds of section 3 are constants: each theorem is about every value of them.

| Module | The inductive invariant, and why the properties alone do not suffice |
|---|---|
| `ConnectionPool` | `PoolInv`: types, `QueueOfWaiters` (the line is exactly the tasks that queued, each once), `NoIdlePermit`, `PermitsConserved`, `HandlesCounted`. Handing a permit over conserves permits only if the head of the line owned none. `CountBounded` follows by cardinality of `Holders(u)` in `Users(u)`; `TotalBounded` because every single count is bounded when it is read; `PoolImplementsLimiter` maps each step to one of the limiter's or to a stutter. |
| `TokenBucket` | `WindowInv`: what a window has spent *and could spend now* is at most burst plus rate times its length; the bound alone breaks when a full bucket is spent at the end of a window. `WaitInv`: a limited call was some `r` short of its weight, the answer carries exactly what is missing, and an undisturbed key holds `r` and what was refilled since. |
| `StreamRelay`, `ResponseStream` | `RelayInv`: the client's buffer, the channel and the task's item ascend in this order and hold nothing unread; [DONE] is sent last, and only once the task is through with the upstream; an aligned line that was read is in one of them. `ResponseInv`: the body is with the response, then with one call, then delivered or lost with it. |
| `Startup`, `RequestDispatch` | `GatewayInv`: from loading on the settings are the loaded ones with the overrides, which keep them valid; at each stage of a request upstream and payload are *the* ones that `FindUpstream` and `TranslateRequest` compute, and a response is one of the five the code can make: three errors, each with what came before it, a stream, or the upstream's answer as `json_response` passes it on. |
| `PluginEngine` | `EngineInv`: which thread is at which stage with which operation, and that a caller's guard covers every entry it has yet to run. `ReportInv`: the maps differ only for the name a loader is between two writes of, and what it has counted is there. Lemmas about `LinearMemory` do the arithmetic of offsets modulo `Wrap32` and `Wrap64`. |
| `McpStdio` | `McpInv`: there is a number `sent` of lines the reader has passed on and a strictly increasing placement `at` of the answered lines in what the client wrote, so that pipe, reader, channel and session together hold the rest in order. |
| `McpTcp` | `LockInv`: one owner per lock, and what is left to write ends its owner's line. `LossInv`: gone messages, messages whose newline will be read as part of a torn line (`Torn`), and one more for an open end of the stream together are at most `drops`; a drop that tears a line costs nothing yet, so the number of lost messages alone is not inductive. `ChannelInv`: whoever has its JSON on the wire or received is past writing it, so that no message enters the channel twice. |
| `GatewayController` | `ControllerInv`: every copy of the resource and every status on its way that bears its uid may be trusted for the generation it claims (`Faithful`, `Truthful`), and whatever is stored is scheduled or under way. |

`TransportIsChannel` counts messages by the positions of their last JSON pieces. `InTransit`
is a sequence over an ascending enumeration of a set, and lemmas state what appending,
removing a front and cutting an end do to it (`OneMore`, `OneLess`, `LoseFront`,
`LoseBack`); that the enumeration exists (`CountsExist`) is an induction on the
cardinality, made with the least counterexample. `ReceivedOnce` then is a property of the
channel alone that the transport inherits.

`OwnConfigOrNone` and `ReportsAreTrue` assume `OneLoader`. It says of the environment what
holds in this repository, where nothing loads concurrently; without it both statements are
false (section 3).

Some definitions are written in a form that proofs can use: `MessagesIn`, `GeminiContents`
and `FindUpstream` choose positions instead of filtering recursively, `AnswersInOrder`
asserts an increasing placement, and `TotalWithinCapacity` counts the permits of a set of
upstreams instead of adding capacities. A directory holds one file per name
(`StartLoadDir`), since names are file stems and only `.wasm` files count.

Only model-checked: liveness (`WaiterLeavesQueue`, `StreamEnds`, `EveryRequestAnswered`,
`CallsReturn`, `EveryLineAnswered`, `StatusConverges`, `WritesStop`), because temporal
properties under fairness and `ENABLED` are beyond the prover; and the absence of deadlock
in the pool, which is a statement about `ENABLED`.

## 5. Not modelled, and what is left

* Kubernetes watcher: it only logs; `handle_gateway_change` is a TODO and its channel is
  never sent to, so no state depends on an event.
* Proxy engine and route matching: nothing builds or starts the engine, its state never
  changes, and `find_matching_route` is string comparison that no code calls.
* Router and core middleware: installed nowhere, without state; the core chain's
  middlewares return what they are given.
* PII masker and tracing plugin: stateless functions over regular expressions and text.
* TLS: reads certificate files and builds a configuration. Observability: counters of the
  prometheus crate that no path records, and the set-up of logging.
* In the stdio session, a stdout whose reader is slow (`println!` blocks the session for
  that long), and a second registration under a tool's name, which replaces the first.
* `SseTransport` of the MCP crate refuses every call; `health_handler` is a constant.

The state machines of the code are modelled, and their safety is proved. What is left:

1. The safe halves of the liveness properties: in the plugin engine, that no thread that
   holds a shard waits for another (the waits have no cycle); in the stdio session, that
   what is written and unanswered is in one of four places that make progress.
2. A refinement of the stdio session to a queue of lines with an answer each, in the manner
   of `MessageChannel`.
