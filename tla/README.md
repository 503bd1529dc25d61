# AtlasHttp: TLA+ models of the server and the client

AtlasHttp is a header-only C++ library over Boost.Asio and Boost.Beast: an HTTP
and HTTPS server whose handlers may answer later and from any thread, websocket
sessions on the same port, and an asynchronous HTTP client. The difficult part
of it is ownership. There is no table of connections and no state variable
that says where a connection is: a connection is open while some completion
handler, some running request handler or some keeper in user code holds a
`shared_ptr` to its `AsyncRequestProcessor`, and a response is sent by a
*destructor*, when the last holder of an `AsyncMethodResponder` lets go of it.
The models below are about what follows from that.

## Inventory

| Component | Source | State | Operations |
|---|---|---|---|
| HTTPServer | `src/include/HttpServer.h` | acceptor, `_shouldStop`, `_useHttps`, handler tables | `Start`, `StartAccept` and its handler, `Stop`, destructor, `AddRequestHandler`, `AddWebSocketHandler` |
| ConnectionContext | `src/include/ConnectionContext.h` | stream, strand, `_buffer`, `_request`, `_response`, `_version` | `Reset`, `AsyncReadRequest`, `AsyncWriteResponse`, `AsyncHandshake`, `ShutdownSend`, `ShutdownBoth`, `RemoteEndpoint`, the `async_teardown` of a websocket on TLS |
| AsyncRequestProcessor | `src/include/AsyncRequestProcessor.h`, `AsyncReader.h` | the only `shared_ptr` to the connection | `StartAsyncRead`, `AsyncReadNextRequest`, `Process` |
| AsyncMethodResponder | `src/include/AsyncMethodResponder.h` | weak pointers to the processor and the connection | `GetAliveKeeper`, `MethodAliveKeeper::Reset`, `RespondAsync`, the destructor, the write handler |
| MetricManager | `src/include/MetricManager.h` | six counters | incremented and decremented by the classes above and below |
| WebSocketSession | `src/include/WebSocketSession.h` | `_sendQueue`, `_buffer`, `_connected`, callbacks, the connection | `Start`, `DoRead`, `DoWrite`, `SendText`, `SendBinary`, `GetAliveKeeper` |
| HttpClient | `src/include/HttpClient.h` | one chain of handlers for each call | `CallAsync`, `ParseUrl`, `SendRequestAsync*`, `ReadResponseAsync*` |
| HttpLogs, Namespace | `src/include/HttpLogs.h`, `Namespace.h` | none | log levels, macros |
| Example programs | `src/example/` | a thread pool, an `io_context` | set-up, the calls of the client, one of them in a callback, and the thread that calls `run()` |

How they interact:

- The accept handler makes a `ConnectionContext` with a strand of its own and an
  `AsyncRequestProcessor` that owns it, starts the first read (or the TLS
  handshake) and forgets both. From then on the completion handlers, which
  capture `shared_from_this()`, are all that keeps them alive.
- The read handler runs `Process`. For a target and a verb with a handler it
  makes a responder, calls the handler with it and drops it; a target without
  one gets a built-in 404 or 405 handler; an upgrade request to a registered
  websocket path moves the connection into a new `WebSocketSession`.
- A request handler may keep the responder, alone or inside a
  `MethodAliveKeeper`, which holds the processor as well. The last holder to
  let go runs `~AsyncMethodResponder` on *its own* thread, which starts the
  write if the processor and the connection are still there.
- The write handler counts the response, ends the send side when the response
  is not keep-alive, and starts the next read.
- In a websocket session the accept, the reads and the callbacks follow one
  another on the strand; `SendText` and `SendBinary` may be called by any thread
  and post to the strand, where a queue keeps one write going at a time.
- The client starts a chain resolve, connect, (handshake), write, read; the
  callback is the last thing every handler of the chain calls.

Hard behaviours, and what would make each component correct:

- *Interleaving.* Threads that drop keepers run concurrently with the strand and
  with each other. A connection must stay half duplex, and the message given
  to `async_write` must not be touched until the write has completed.
- *Partial failure.* `remote_endpoint()` throws once the peer has gone, in
  places where it is only asked for a log line; the exception leaves
  `io_context::run()` and can take the thread with it, and so does one of a websocket
  callback. Connections must not leak, and a client that has neither left nor been
  upgraded must not cost the server a thread.
- *Protocol.* Responses in the order of what the server took for requests, each made
  only of what was written for its own; nothing after a response that closes. The
  buffer is thrown away after each response, wherever in a request it ends.
- *Liveness.* A dispatched request is answered and a peer that is gone is reaped,
  whatever user code keeps; on TLS, where the shutdown is synchronous, only as
  far as the peer cooperates.
- *Counters* moved in several places by several classes must balance.
- *WebSocket.* One reader, one writer that follows the queue, callbacks in
  protocol order, no message lost or given the type of another, also when a write fails
  or a message is rejected while the peer is still there; a peer that begins
  to close and falls silent must not keep the strand of a plain connection.
- *Server.* The accept loop must stay armed until it is stopped, and there must be
  a time after `Stop` from which the server can be destroyed.
- *Client.* The callback is called exactly once for every call; the endpoint, the
  target and the Host header are those of the URL; and a program that has only
  calls to keep its `io_context` at work must not see it stop under one.

`PROJECT.json` lists every hazard at the line where it bites, with the
properties that would show it.

## Modules

| Module | What it is |
|---|---|
| `HttpConnection` | The request pipeline: `ConnectionContext`, `AsyncRequestProcessor`, `AsyncMethodResponder`, the metrics and the threads, for a set of connections |
| `HttpExchange` | The promise of a connection to its client: serve what is taken off its stream in order, one at a time, answer at most once, nothing after the last word; and what may be taken from a client that pipelines. Implemented by `HttpConnection` |
| `MCHttpConnection` | Instances of `HttpConnection` for TLC: the example's endpoints and one request of each kind the pipeline tells apart |
| `WebSocketSession` | One websocket session from `Start` to its release |
| `MessageChannel` | The promise of the sending side of a session: a FIFO channel. Implemented by `WebSocketSession` |
| `HttpServer` | The accept loop, `Start` and `Stop`, over the connections of `HttpConnection`, which it extends |
| `MCHttpServer` | Instances of `HttpServer` for TLC |
| `HttpClient` | The calls of a client, from `CallAsync` to the callback |
| `AsyncCall` | The promise of an asynchronous call: it throws or is called back, once. Implemented by `HttpClient` |
| `Url` | What `CallAsync` and `ParseUrl` make of a URL: pure operators, against the documented form |
| `MCUrl` | The URLs for TLC |
| `ClientExample` | The client example: `main`, the call in a callback, and `run()`, over the calls of `HttpClient`, which it extends |
| `MCClientExample` | The client example for TLC |
| `HttpConnection_proofs` | The inductive invariant of `HttpConnection`; ownership, half duplex and the last word |
| `HttpResponses_proofs` | Whose request a response answers, what it carries and which version it says; the counters and the threads |
| `HttpExchange_proofs` | `HttpConnection` implements `HttpExchange` |
| `HttpServer_proofs` | `HttpServer` implements `HttpConnection`, what it inherits from there, and the invariants of the accept loop |
| `WebSocketSession_proofs` | The safety of `WebSocketSession`, and of its refinement of `MessageChannel` |
| `HttpClient_proofs` | The safety of `HttpClient`, and of its refinement of `AsyncCall` |
| `ClientExample_proofs` | `ClientExample` implements `HttpClient`, and its `io_context` does not stop under a call |
| `Url_proofs` | What `Url` says of `ParseUrl` and the Host header, for texts of any length |

Each `_proofs` module extends the module it is about; those of the server form a chain, in
the order of the table.

### HttpConnection

State and code:

- `conn[c]`: where the `ConnectionContext` is. `http` is "a processor owns it",
  `ws` "a websocket session owns it"; `deaf` is a session one of whose callbacks threw
  (`SessionThrows`), so that it reads no more. `lost` is a client that was accepted and
  never got one, because the accept handler threw.
- `pending[c]`: how many asynchronous operations of each kind are outstanding on
  the stream. A correct server has at most one in all; the model *counts* them, so
  that it could be otherwise.
- `exec[c]`: what a thread is doing on the strand: nothing, a request handler, or
  a blocked TLS shutdown. Completion handlers that call no user code are one
  step each.
- `responders[c]` and `readers[c]`: who holds a `shared_ptr` to the responder,
  and whose keeper still has a `_reader`. A keeper kept at `h` puts `h` in both,
  and lets go of both in two steps between which other threads run: the responder
  first, as `MethodAliveKeeper::Reset` and the destructor do, or the reader first, as the
  implicit assignment does, which goes through the members in the order of their
  declaration. The latter leaves a bare responder for a moment, so it is allowed
  where bare responders are (`AllowBare`). Copies of a keeper that live in one place are one
  holder.
- `heard[c]`: a history of what the parser made of the client's stream, each with the number of
  the client's request it was, or 0 when it was only a piece of one.
- `ctx[c]`: `_request` (as an index into `heard[c]`), how much of the client's stream
  `_buffer` has taken (whole requests, and whether also the first bytes of the next one,
  `inside`), `_version` and `_response`.
- `shut[c]`, `peer[c]`: what the server has shut down and whether the client is
  there, has ended its sending, or has reset the connection. They decide which
  completions are possible and whether `RemoteEndpoint()` throws.
- `threads`: threads inside `run()`. An exception that leaves a completion
  handler, or a websocket callback, takes one away unless the thread calls `run()` again (`Rerun`):
  `src/example/main.cpp` does not, `src/example/main_client_example.cpp` does.
- `metrics` are the six counters; `refused` is a history variable, see `MetricsBalance`.

Lifetime is computed, never stored: `ProcessorHeld(c)` says whether anybody
owns the processor, `ResponderHeld(c)` whether anybody owns the responder, and
every step that gives up a reference ends in `Settle` or `DestroyResponder`,
which do what the destructors do.

A read takes with the request it parses whatever else of the client's stream has
arrived: `Cuts` allows an end behind any request and inside any. `AsyncReadNextRequest`
throws all of it away (`src/include/AsyncRequestProcessor.h:131` consumes
`_buffer.size()` bytes), and the next read begins where the stream was cut. Inside a
request it finds the rest of that request: the parser rejects it (`ReadFails`), waits for more,
or takes it for a request, which may look like anything, a body for example
(`Arriving`, with `of` 0). So a client that pipelines may get no response to some
requests and a response to a piece of another. What remains true, and is what
`OwnResponse` and `HttpExchange` say, is that the server answers what it takes for
requests one at a time, in order, each once and each with a response made for it, and that
what it takes are requests of the client in their order, pieces of requests it has passed
over, and nothing else; a client that waits for each response is cut nowhere.

A TLS shutdown is synchronous and blocks the strand and its thread (`exec[c]` is
`shutdown`), the one of the send side after a response that closes and the one of both sides
after a write that failed.

Left out of it: contents of bodies and headers (a body is the number of the
request it was made for); handlers that write through a `shared_ptr` to the
connection they locked earlier, after giving up the responder; `prepare_payload`
throwing on a status that allows no body; `onLog` callbacks that throw; timeouts, of
which the code has none.

### HttpServer

`HttpServer` adds the variables of the accept loop to those of `HttpConnection`. Its
steps are the steps of the loop, and `Pipeline(c)`, any step of a connection that has
arrived. The accept handler is `Open(c)`, or `OpenThrows(c)`, conjoined with what it
does to the loop.

- `accept` is the outstanding accept. It waits, has failed, or holds the socket of
  a client whose handler has not run yet. `none` is a server that is deaf.
- `stop` has a value between unset and set: while `Stop` runs, a handler on another
  thread may read `_shouldStop`, a plain `bool`, either way. The value `stopping`
  lasts until `Stop` has closed the acceptor. The close itself and
  `async_accept` are taken to be atomic, although the code calls them from two
  threads without a lock.
- `_shouldStop` is never reset, so a server that is started again after a `Stop`
  listens and never accepts; `StartServer` says so.
- An accept handler that throws (`AcceptThrows`) passes by the call of
  `StartAccept`: the server stays deaf, and one thread leaves `run()`.

`Start` is called only for a server that does not listen, and a `Start` that throws
(bad address, port in use, missing certificate) is taken to change nothing. Handler
tables are constants: they are filled before the server starts.

The destruction of a server whose `io_context` still runs is no action; what is
modelled is when it is safe. The accept handler captures `this`, and every
processor refers to the handler tables, so both must be gone: `Quiescent` says
that `Stop` has returned, that no accept is outstanding or has a handler to run, and that no
processor lives. `~HTTPServer` calls `Stop` and waits for nothing, so this is for
the caller to see to.

### HttpClient

One record of control state for each call: `caller`, the thread in `CallAsync`;
`lookup`, what the resolver does; `runner`, the detached thread; `op`, what the call
waits for on the executor. A call is `idle` until it is made, and made once.

- `CallReturns` is the destruction of the resolver, a local of `CallAsync`.
  `LookupRuns` is Asio's resolver service taking up the lookup: it sees whether the
  resolver still exists and aborts the lookup if not.
- `SpawnFails` is a `std::thread` that cannot be started: the exception
  destroys the `io_context` and with it the handler and the callback.
- `ConnectHandler` includes `SendRequestAsyncPlain`, where `*request` is evaluated
  before or after the lambda has moved `request` away; after, the process
  crashes. The https variant copies the pointer.
- Write and read stand for both variants. Callbacks are not null and do not throw.

### WebSocketSession

`pending` counts the outstanding accept, read and write; `running` is the
callback the strand is in; `posted` holds the lambdas of `SendText` and
`SendBinary` that wait for the strand; `sendQueue` is `_sendQueue` and `text` the
text option of the stream, which `DoWrite` sets just before it starts a write.
`events`, `sent` and `wire` are histories.

The handlers treat every error alike, so the model lets an operation fail for every
reason it can. A write may fail at any time (`WriteFails`) and fails the stream (`failed`); the
message stays at the front of the queue and is not tried again. A message of the peer that is
longer than `read_message_max`, no UTF-8 or badly framed (`valid` is false) makes the read send a
close frame and tear the stream down (`ReadRejects`) with the peer still there. A read on a
failed stream may still deliver what was sent before, fail, or wait while the peer is there.

Plain and TLS sessions run the same
code twice over two stream types, and `isSecure` says which. They differ in one thing.
A read that meets the peer's close frame answers it and tears the stream down
(`ReadCloses`: `stream` is `closing`), and only then has its handler run with an
error (`TeardownEnds`). For a plain stream Beast does this without blocking.
For TLS `async_teardown` in `ConnectionContext.h` calls `shutdown`, which
waits for the peer: `StrandFree` is false meanwhile. `_connected`, which only
chooses a log line, is left out.

### Url

A URL is a sequence of characters; a word the parser does not look into
is one. `ParseUrl`, `Throws`, `HostHeader` and `Request` follow the code, with
`find`, `stoi` (leading digits, what follows is dropped, no more than an `int`)
and `to_string` as they are specified. The reference, `Cuts` with `Tolerated` and `Documented`,
is the form in the comments at lines 57 and 211 of `src/include/HttpClient.h`,
`scheme://host[:port][/path]`, by quantifiers over all ways to cut the URL up. A behaviour is a URL
of that form and the mistakes made in typing it. Blanks and signs, which `stoi`
takes before the digits, are not in the alphabet, `Char`: words, digits, the colon and the slash.

### ClientExample

`main` makes its calls one after the other and catches nothing; then one thread
runs the `io_context`, again and again. The actions of the calls are
those of `HttpClient`; `Work` says which of them count as outstanding work
for `run()`. A lookup does although it runs on an `io_context` of
its own, because its handler is bound to the client's executor. When there is none, `run()` returns
and the context is stopped for good, since nothing calls `restart()`.
`InCallback` is the thread inside the callback of the first call, which makes
another one there.

### HttpExchange, MessageChannel and AsyncCall

`HttpConnection` refines `HttpExchange`: a connection is *serving* while a
responder of it is held or its write is outstanding, *muted* once its send side
is shut, its last response closes, or it is in a TLS shutdown. `WebSocketSession` refines
`MessageChannel`, with its liveness: what was accepted is delivered in order
as long as the stream is open, which the end of the connection, a failed write, a rejected
message or a close frame ends. `HttpClient` refines `AsyncCall`: a call throws or is called
back, never both, and comes to an end unless the process crashes. All three are
stated at the end of the implementing module (`Exchange`, `Channel`, `Abstract`)
and checked as temporal properties.

### Operators that nothing uses

Names that end in `Mutant`, and others like `CatchNothing` or `WriteFailsPops`,
are plausible mistakes in the definition they stand before. Put in its place,
each makes TLC refute a property; `PROJECT.json` says which.

## What TLC checks

| Run | Instance | Shows |
|---|---|---|
| `http_plain` | one connection, every kind of request, two holders, client waits for each response, with fairness | `TypeOK`; `OwnedWhileOpen`, no leak and no teardown under an operation; `ResponsesInStep`, the i-th response is for the i-th request; `VersionLagsBehind`, a response says the version of the request answered before it; `ResponseStableDuringWrite`; `RequestAnswered`; `DeadPeerReaped` |
| `http_pipelined` | the client pipelines and its stream is cut anywhere, handlers may keep a bare responder, the thread does not rerun `run()`, with fairness | `OneInFlight`, half duplex; `OwnResponse`, whatever is heard is answered in order and never with a leftover; `MetricsBalance`, with the responses that bare responders lose; `ThreadsAccounted`, a connection costs at most one thread, its last step, and only when its client has left or became a websocket; `KeptRequestAnswered`, what only keepers keep is answered; the pipeline implements `HttpExchange` |
| `http_tls` | two TLS connections, one thread, pipelining, no log callback | `CloseIsLast`; `MetricsBalance`, across connections |
| `http_tls_live` | TLS, two connections, one thread, clients answer `close_notify` | `RequestAnswered` |
| `server` | two connections, a keeper or a bare responder, two threads, an accept that fails, with fairness | `Armed`: a running server has an accept outstanding or a handler about to arm one, unless it is deaf; `StopIsFinal`: no accept waits after `Stop`, whatever it raced with; `ClientsAdmitted`: a client that stays is accepted unless the server is stopped or deaf; `Drains`: a stopped server whose clients have gone becomes quiescent; `QuiescentForEver`: it never leaves that state |
| `ws_session` | plain or TLS, every callback registered, callbacks may throw, writes may fail and messages be rejected at any time, with fairness | `OneReader`, `WriterFollowsQueue`, `CallbackProtocol`, `NothingLost`, `ImplementsChannel`, `DisconnectReported`, `InboundDelivered`, `SessionReleased`; `PlainStrandRuns`: what is posted to the strand of a plain session is run, whatever the peer does |
| `ws_binary` | every callback registered | refutes `FramesByOpcode`, see Findings |
| `client` | a plain and an https call, with fairness | `OneEnd`: a call waits for one thing or has ended, once; `ResponseEarned`: a response is for a request that was written; `ImplementsAsyncCall` |
| `client_abort`, `client_request` | the same | refute `NeverAborted` and `RequestKept`, see Findings |
| `url` | two schemes, seven ports, five paths, with and without a host; one typing mistake | `DocumentedFormParsed`; `ThrowsUnlessTolerated`, it throws exactly for the rest; `HostHeaderNamesEndpoint`, the Host header and the target make a URL for the same request again |
| `client_example` | three calls of `main` and the nested one, all https, with fairness | `StoppedIsDone`: when the `io_context` has stopped, every call has thrown or been called back; `EveryCallEnds` |

Bounds. Requests of a connection share no state except `_response`, `_version`,
`shut` and the buffer, all of which the next request finds as the previous
one left them: three requests (`MaxRequests`) are a first, one that inherits from it and one that
inherits from a successor. `Window` is how far the client runs ahead: 1 is a client that
waits, 3 lets all requests pipeline. `MaxPieces` is how many pieces of requests are taken
for requests: one may be any request, an upgrade included, and leaves the stream cut again or not,
so a second finds nothing new; with a `Window` of 1 there are none, and the runs about other things
have none. Two holders suffice for two threads to
race for being the last, and the handler itself is a third party. Two
connections suffice where connections meet at all, in the counters and the
threads. Three sends and two frames let a send queue while a write is
outstanding behind another that waits. The instances that check liveness have
smaller alphabets of requests but the same races. `MaxErrors` bounds the accepts
that fail while the server listens: one leaves nothing behind for the next, so one,
before or during a `Stop`, is enough. The instances with two connections have fewer
requests for each, because connections do not meet in their requests. Calls of
a client meet nowhere except in a crash, so one call of each scheme is enough; in the example
three calls of `main` are a first, a middle and a last one. The ports of `url` are none,
both defaults, zero, one with a leading zero, the last number that is an `int` and the first
that is not; one mistake (`MaxTypos`) reaches every delimiter of the form doubled, missing or
misplaced.

`CHECK_DEADLOCK FALSE` in every configuration: connections may be destroyed and all
clients gone, and a thread may have left `run()`; the server then rightly stops.
That nothing stops which should not is what the liveness runs check.

Fairness. `FairSpec` assumes that the `io_context` runs every completion handler
that is ready, that request handlers return, and that keepers are
dropped one day; all of it weak fairness, since a ready handler
stays ready until it runs. Nothing is assumed of clients, with one exception:
a TLS shutdown that blocks returns once the peer has left. A read that begins inside a
request need not end while the client is there (`ReadEnds`), since the parser may wait for
more. Exceptions end threads, so the liveness runs either call `run()` again (`Rerun`), or, in
`http_pipelined`, start with more threads than there are connections, each of which costs at most one
(`ThreadsAccounted`). `CooperativeSpec`
adds that clients answer `close_notify`. Without it one thread and one silent
client stop the whole server, which is why `http_tls_live` needs it. In `WebSocketSession` weak fairness of the
completions says that the strand runs what is ready and that a peer that is there
takes what it is sent or the write fails, and that a thread is left after a callback threw; a read on a
failed stream may wait as long as the peer is there; keepers need to be dropped only once the peer has gone. Nothing
makes a peer that has sent a close frame end the connection, so that the liveness of
TLS sessions is stated for peers that are lost, and `PlainStrandRuns` for plain ones only.
`ServerFairSpec` adds that the outstanding accept of a server with clients waiting
completes, that its handler runs and that a `Stop` that has begun returns, and
is weakly fair to the strand of every connection; that
`Stop` is called, or `Start`, is not assumed. `FairSpec` of `HttpClient` assumes that
threads make progress and that every network operation ends, and `ExampleFairSpec`
that `main` and the thread that calls `run()` go on. The client has no
timeouts (`HttpClient.h:398` lists them as to be done), so the latter is asked of
the network.

`MetricsBalance` says that requests and responses differ by the requests
in service, *corrected* by `refused`: `Process` takes an upgrade request off the
request count even when no websocket handler is registered and the request is
answered as any other, so `_httpRequests` runs behind by those. Where bare responders are
allowed, a connection destroyed under one has a request that is never balanced; `http_pipelined`
checks that there is at most one for each connection destroyed.

## Findings

`FramesByOpcode`, a message the peer sent as binary is not given to `onText`, is
refuted. `WebSocketSession.h:200` says it checks "if the stream is in text
mode", and the code asks `is_message_done()`, which is true after every
completed `async_read`. So `onBinary` is never called: binary messages go to
`onText`, or nowhere when only `onBinary` is registered.

`NeverAborted`, a call is not aborted, is refuted. `HttpClient.h:40` says that
`CallAsync` makes a request, but the resolver is a local of `CallAsync`
(`HttpClient.h:102`) and its destructor cancels a lookup that Asio's thread has not
taken up yet. The callback then gets `operation_aborted`, although nothing is
wrong with the host and nobody cancelled the call.

`RequestKept`, a request lives as long as it is being sent, is refuted.
`HttpClient.h:257` names `*request` in the same call whose last argument moves `request` away.
The order of arguments is unspecified; compilers that go from right to left write
through a null pointer. `SendRequestAsyncSslConnection` copies the pointer.

A behaviour that is not a disagreement with anything the repository says, but that
`Armed` and `ClientsAdmitted` have to make room for: one client that resets its
connection before the accept handler runs stops the server from accepting. Nor is
`VersionLagsBehind`: a response object is made before its request has been read, so
the version in it is the one of the request answered before. Nor is what
`ThrowsUnlessTolerated` calls tolerated: `http://x:8080abc/` is read as port 8080.

## What is proved

With TLAPS, for every value of the constants:

- the server: for every set of connections, holders and requests, any handler tables and
  any number of threads, under `ConstantsAssumption` alone, to which
  the theorems about `ServerSpec` add `ServerAssumption` (a connection is none of the
  other values of `accept`);
- websocket sessions: for any set of registered callbacks and keepers and any number of
  messages either way, under the `ConstantsAssumption` of `WebSocketSession`, which only
  says what the constants are;
- the client: for any set of calls, https or not, and the example for any calls
  of `main`, under `ExampleAssumption`;
- URLs: for any words, schemes, hosts, ports, paths and any number of typing mistakes, so for texts
  of any length, under `UrlAssumption`, which says that all of them are texts over `Char`.

| Theorem | States |
|---|---|
| `TypeCorrect` | `Spec => []TypeOK` |
| `Inductive` | `Spec => []IInv` |
| `HalfDuplex` | `Spec => []OneInFlight` |
| `Owned` | `Spec => []OwnedWhileOpen` |
| `StableResponse` | `Spec => ResponseStableDuringWrite` |
| `LastWord` | `Spec => []CloseIsLast` |
| `AnswersInductive` | `Spec => []AnswerInv` |
| `OwnResponses` | `Spec => []OwnResponse` |
| `RespondsInStep` | `Spec => []ResponsesInStep`, if `Window <= 1` |
| `VersionLags` | `Spec => []VersionLagsBehind` |
| `MetricsBalanced` | `Spec => []MetricsBalance` |
| `GaugesExact` | `Spec => []Gauges` |
| `ThreadsKept` | `Spec => []ThreadsAccounted` |
| `PipelineImplementsExchange` | `Spec => ImplementsExchange` |
| `ServerImplementsPipeline` | `ServerSpec => Spec` |
| `ServerSafety` | the invariants above, for `ServerSpec` |
| `ServerImplementsExchange` | `ServerSpec => ImplementsExchange` |
| `ServerTypeCorrect` | `ServerSpec => []ServerTypeOK` |
| `ServerArmed` | `ServerSpec => []Armed` |
| `ServerStops` | `ServerSpec => []StopIsFinal` |
| `ServerReleased` | `ServerSpec => QuiescentForEver` |
| `SessionTypeCorrect` | `Spec => []TypeOK` |
| `SessionInductive` | `Spec => []SessionInv` |
| `OneReaderAlways` | `Spec => []OneReader` |
| `WriterFollowsQueueAlways` | `Spec => []WriterFollowsQueue` |
| `NothingLostAlways` | `Spec => []NothingLost` |
| `CallbackProtocolAlways` | `Spec => []CallbackProtocol` |
| `ImplementsChannelSafety` | `Spec => Channel!Init /\ [][Channel!Next]_(Channel!vars)` |
| `ClientTypeCorrect` | `Spec => []TypeOK` |
| `ClientInductive` | `Spec => []IInv` |
| `OneEndAlways` | `Spec => []OneEnd` |
| `ResponsesEarned` | `Spec => []ResponseEarned` |
| `ImplementsAsyncCallSafety` | `Spec => Abstract!Init /\ [][Abstract!Next]_(Abstract!vars)` |
| `ExampleImplementsClient` | `ExampleSpec => Spec` |
| `NeverStopsEarly` | `ExampleSpec => []StoppedIsDone` |
| `ThrowsExactlyUnlessTolerated` | `Spec => []ThrowsUnlessTolerated` |
| `DocumentedFormIsParsed` | `Spec => []DocumentedFormParsed` |
| `HostHeaderNamesItsEndpoint` | `Spec => []HostHeaderNamesEndpoint` |

`OneInFlight` is not inductive: that a write may start when the last holder lets
go depends on no operation being outstanding *while* a responder is held, and
that the connection is still there on who owns it. `IInv` is `TypeOK` with one
formula `Own(c)` for each connection, which says for each place the connection
can be what the operations, the holders and the strand look like. Since almost
every action touches one connection, the proof has a lemma for an action of `c`
seen from `c` (`ServerOwn`, `UserCodeOwn`, `ClientOwn`), in which `OneOperation`
and `Busy` turn the sum `Load(c)` into cases, and one (`OneConnection`) for
every other connection, where nothing changes. `LastWord` needs an invariant of its own (`MutedInv`): once a
closing response is on the wire, the send side is shut or the strand is in the
shutdown that will shut it.

What the client is told depends on how `_response`, `_version` and the buffer
pass from one request to the next and on where the stream was cut, and `OwnResponse` alone says nothing of that.
`AnswerInv` adds to `IInv`, for each connection:

- `Numbers`: there are no more answers than requests heard, and as long as the send side is open
  a connection that reads has answered all of them and one in service all but the last. That is the
  order of the responses, and why none is left out or twice.
- `Made`: a read finds the response as `Reset` left it, and the response of the request in service
  was begun for that request. So a leftover cannot be sent.
- `Lag`: as long as the send side is open, the response object says the version of the request
  answered last, and `_version` the one of the request in service.
- `Told`: the same of what is on the wire. `VersionLagsBehind` follows from it, and with
  `Hearing` also `OwnResponse`.
- `Hearing`: everything heard was taken from the stream of what the client sent, the first of it whole,
  and the requests among it are in the client's order.
- `Kept`: where no handler keeps a bare responder, who holds a responder holds the processor, so
  that a request in service cannot be lost uncounted.

A step of a connection does one of six things to its responses, and the lemma `Effects` says which
action does which: nothing (`Quiet`), the response is filled (`Fills`), a request is taken into
service (`Takes`) or taken and never answered (`Abandons`), the context is reset without
an answer (`Resets`), a response reaches the client (`Replies`). The parts of
`AnswerInv`, the request counters and the refinement are each proved once for every effect, not for
every action. `MetricsBalanced` counts the set of connections in service, which an effect
changes by at most one member. A request that is lost under a bare responder stays counted, and
its connection is destroyed with it, so with bare responders the balance exceeds the requests in
service by no more than the connections destroyed (`Counts`). `GaugesExact` is the same for the other counters, which no
run checks: connections and sessions that exist, connections that were destroyed.

`ThreadsAccounted` counts the connections that may have cost a thread: those that are spent, nothing of
which will run again, and whose client has left or was upgraded (`MayCost`). An exception that leaves
`run()` makes one more of them (`ThrowsSpend`): it is thrown in the last step of its connection, and
`RemoteEndpoint()` throws only once the client has left. No step takes a connection out of the set
(`SpentStays`), so the set always has at least as many members as threads are lost.
`RespondsInStep` holds under `Window <= 1`, as `http_plain` has it: a client that pipelines may get no
response to a request, so for it the i-th response need not be for the i-th request.

`PipelineImplementsExchange` maps each effect to the step of `HttpExchange` it is, or
to a stutter: taking a request begins service, an answer or a lost responder ends it,
a request that is filled changes nothing the client could tell. What is taken, up to where, and whether
that is inside a request are the same on both sides (`HearsTakes`). It needs `MutedInv` for
"nothing after the last word". A TLS shutdown mutes the exchange when it begins: it follows the last
word or a write that failed (`ShutdownStep`), and what it will shut must not be seen as a change of
its own when it returns.

`HttpServer` is a refinement of `HttpConnection` with the identity for a mapping: a step
of the accept loop is a step of one connection, or leaves all of them alone
(`ServerStep`). So every theorem about `Spec` is one about `ServerSpec`, that every client
is given the promised exchange among them, and `Armed` and
`StopIsFinal` are proved on top, the former with the fact that a connection that is
lost stays lost (`LostStays`). `ServerReleased` needs of each connection that one
without a processor never gets one again except from the accept handler
(`ReleasedStays`), for which `Own(c)` rules out the operations and holders that would
otherwise bring it back.

A websocket session has two chains that meet only in the strand, and `SessionInv` has
a part for each. `Chain` is the one of the accept, the reads and the callbacks:
`OneReader`, with nobody holding the session before the accept is done (otherwise a
send could put a write under it), and a stream that is torn down only by the read that
is outstanding. `Calls` strengthens `CallbackProtocol` with what a later callback
depends on: while the chain goes on no callback has thrown, while a read is outstanding
none was `onDisconnect`, and no callback was given a message that has not been read yet.
`WriterFollowsQueue` and `NothingLost` are the other chain. A queue without a write is one on a stream that is
not open any more, with the peer there or not. The second needs the first,
because what reaches the wire takes its type from the stream's text option and not
from the queue. `ImplementsChannelSafety` then follows from `NothingLost`: what a write
puts on the wire is the first message of `sent` that was not there yet (`NextOfConcat`).

A call of the client is in one of four stages: not made, looking its host up, on
the executor, over. `IInv` of `HttpClient_proofs` says for each stage where the caller,
the resolver, the detached thread and the handler can be. A step of one call leaves the
other calls alone (`Elsewhere`). `OneEnd`, `ResponseEarned` and the
refinement of `AsyncCall` are read off the stages. The example is a refinement of
`HttpClient` with the identity for a mapping, so it inherits the stages; `NeverStopsEarly` uses
that in every stage but the first and the last the call is outstanding work, and that `main` has made all its
calls before `run()` is called.

The operators of `Url` search and fold over data, and are proved about with an
induction principle for sets of numbers (`LeastNat`, `NatSet`), which follows from the library's
theorem that inclusion of finite sets is well-founded. From it come what `Find` returns (`FindIs`), that the
recursive function `Decimal` defines what it says (`DecimalIs`), that comparing numerals of the same length digit by
digit compares the numbers (`DecimalOrder`), and what the fold in `Stoi` computes
(`StoiIs`): so `stoi` throws exactly for digits that are no `int` (`StoiThrows`), and reads back what
`to_string` wrote (`DecimalRead`). Between the parser and the documented form stands
`Form(u, a, b, c)`: the scheme ends at `a`, the host at `b` and the port at `c`, said by quantifiers over
the characters between. `ParseUrl` gives these parts and does not throw if a text has the form
(`FormParsed`); if it does not throw, the text has the form (`NotThrowsForm`); and the tolerated cuts
are those at such places (`ToleratedCuts`). The invariant is only that what is typed is a text over `Char`
(`TypedText`). For `HostHeaderNamesEndpoint` the parts are put together again, and the
result shown to have the form (`RequestAgain`).

Only model-checked: everything temporal under fairness (`RequestAnswered`,
`KeptRequestAnswered`, `DeadPeerReaped`, `ClientsAdmitted`, `Drains`, `EveryCallEnds`,
`DisconnectReported`, `InboundDelivered`, `SessionReleased`, `PlainStrandRuns`, and the liveness of
`MessageChannel` and `AsyncCall`, whose safety is proved), since the prover does not treat it. Every
invariant and every action property of a passing run is a theorem. The three properties that
are refuted stay with TLC, which finds the counterexamples.

## Plan

In this order:

1. `HttpConnection`, `HttpExchange`: done, with the first proofs.
2. `WebSocketSession`, `MessageChannel`: done.
3. `HttpServer`, the accept loop composed with `HttpConnection`: done, with proofs.
4. `HttpClient`, `AsyncCall`: done.
5. `Url`, against a reference definition: done.
6. `ClientExample`, `HttpClient` under a `run()` that ends for want of work: done.
7. Safety proofs of `WebSocketSession`, `HttpClient` and `ClientExample`: done.
8. `OwnResponse` and the other properties of responses, the counters, and `HttpConnection`
   implements `HttpExchange`: proved.
9. The invariants of `Url`: proved.

What is left is liveness, which stays with TLC.

## Not modelled

`HttpLogs` and `Namespace` (no state); the accessors of `HttpClientResponse` (each
returns a field or throws) and the copying of headers and body into a request; the
set-up and printing of the examples, and the late echoes of the example's websocket
handler, which are sends of a keeper like any other; handlers that are registered while the
server runs (the tables are not locked and nothing says that this is allowed); `prepare_payload`
throwing for a status that allows no body; log callbacks that throw; timeouts, which neither the server nor the client has; TLS
itself, Asio and the parser of Beast, which appear as what they report.
