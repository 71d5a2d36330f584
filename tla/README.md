# TLA+ models of fast-server

This directory holds TLA+ models of the Go HTTP/1.1 server in `src/`, the TLC configurations that check them, and `PROJECT.json`. `PROJECT.json` lists the components, the runs, the mutants, the source lines every definition translates, the findings and the hazards.

## The system

One process serves HTTP/1.1 with its own event loop. Its concurrent parts are:

- **Engine event loop** (`src/unnamed/part_007`, `Engine.Run`). One goroutine blocks in `Poller.Wait` (epoll, level-triggered, `src/core/poller/epoll.go`) and handles each ready fd in turn:
  - The listener's readiness runs `acceptConnections`. It takes a `Connection` record from the connection pool (`src/unnamed/part_003`), registers the fd with epoll and publishes it in the table `e.connections`, which sits under an RWMutex.
  - A client fd's readiness runs `handleConnectionEvent` then `handleRead`: read, `ParseRequest`, `processRequest` (router lookup, handler, response), then `checkKeepAlive`. That either returns the record to `Reading` or calls `closeConnection`.
  - `closeConnection` deletes the table entry under the write lock. After releasing the lock it removes the fd from epoll, returns the pooled objects, closes the fd, then resets and pools the record.
- **Idle reaper** (`cleanupIdleConnections`, same file). A second goroutine runs on a 1 s ticker:
  - Under the read lock it collects the fds whose record is not `Processing` and has been idle past the timeout.
  - After unlocking it calls `closeConnection` on each.
  - It shares the table, the records and the fd numbers with the loop.
- **Worker pool** (`src/core/pools/worker_pool.go`):
  - `Submit` checks `closed`, bumps the `tasksSubmitted` counter, and sends round-robin to one of N buffered channels. If that channel is full it tries the next one, and if both are full it runs the task inline.
  - Each worker drains its own channel, steals from the others, then blocks.
  - `Close` sets `closed` and closes the channels.
  - `Stats` loads the counters.
- **WebSocket hub** (`src/core/websocket/hub.go`):
  - One `run` goroutine selects over three buffered channels: `register`, `unregister` and `broadcast`.
  - `Register` counts `h.clients` against `maxClients`, queues the client and starts its `readPump` and `writePump`. Both pumps end with a deferred `Unregister`.
  - A broadcast to everyone tries each client's `Send` without blocking, and sends a full client to `h.unregister`, from inside `run`.
  - `SendTo` and the room operations are called from other goroutines. `Client.Close` closes `Send`.
- **WebSocket connection** (`src/core/websocket/conn.go`). `WriteFrame` writes FIN and the opcode, the length in 7, 16 or 64 bits, and the payload, unmasked. `readFrame` reads the header, the extended length as an `int64`, rejects a length over `maxMessageSize` (1 MiB), reads the masking key and the payload, and unmasks it. `ReadMessage` reads frames until a data frame with FIN, or the continuation with FIN that ends a fragmented message; it answers each ping with a pong, skips pongs, and reads a close frame as EOF.
- **RPC client and server** (`src/core/rpc/client/client.go`, `src/core/rpc/server/server.go`):
  - The client's `Call`/`Go` and `Ping` store a pending entry under a fresh `uint32` id and write a frame. A `receive` goroutine reads answers and `handleFrame` completes the entry with the answer's id. `Close` fails every pending entry.
  - The server's `Serve` accepts and tracks connections. `handleConn` reads one frame at a time and answers it before reading the next. `Shutdown` closes the listener and the connections in its copy of `s.conns`, then waits for `activeReqs` to reach 0.
  - The service registry (`src/core/rpc/registry/service.go`): `Register` scans a service's methods by reflection and keeps those of the form `func (ctx context.Context, args *A) (*R, error)`, exported. `GetMethod` finds a request's service and method, and `Call` invokes it with `context.Background()`.
- **Middleware pipeline** (`src/core/middleware/pipeline.go`):
  - `Pipeline.Execute` calls the handlers given to `Use` in order. It returns as soon as one leaves the context aborted, and it calls the terminal handler only when none did.
  - `RateLimiter(rate)` is a token bucket that every goroutine running the pipeline shares, under a mutex. On a request, if more than a second has passed since `lastRefill`, it resets `tokens` to `rate` and sets `lastRefill` to now. It then takes a token, or aborts with 429.
  - `CORS` aborts an `OPTIONS` request. `Recovery` and `RequestID` have no effect on control. Recovery's deferred `recover` covers only its own empty body.
  - `AsyncPipeline.Execute` runs its synchronous pipeline and, if the context is not aborted, hands each handler given to `UseAsync` to `workerCh` (capacity 256) as a task holding the context pointer. With the channel full it runs the handler inline. `NewAsyncPipeline` starts the worker goroutines, which run the tasks they receive. `Logger` and `Metrics` read the context's method and path.
  - Nothing in the engine calls the pipeline: it is a library for handlers.
- **Request parser** (`src/core/http/parser.go`, `ParseRequest`). `handleRead` reads into `readBuf[readOffset:]` and calls it on the whole buffer after every read:
  - The request line runs up to the first LF and is split at its first two spaces. The query after `?` is split on `&` and `=`.
  - The headers run up to the first CR LF CR LF after the request line, or else up to the first LF LF (and then are skipped unparsed). Everything after the terminator is the body; Content-Length is not consulted.
  - An error means "wait for more", unless the buffer is full (400 and close). A parsed request resets `readOffset` to 0.
- **Radix router** (`src/core/router/radix.go`). `Add` inserts a pattern of static, `:param` and `*catchAll` segments into a compressed trie, splitting edges at the longest common prefix. `Find` walks it without backtracking. It is filled before `Run` and only read afterwards.
- **Responses** (`processRequest` and `sendError` in part_007, `src/core/http/context_fd.go`). A route miss is answered by `sendError`: a status line and an empty line, no headers, in one `syscall.Write` whose result is ignored. A hit calls the handler, whose writer (`String`, `JSON`, `Bytes`, `Data`, `Error` or `Success`) builds the status line, Content-Type, Content-Length (`appendInt`) and body in `responseBuf`; `JSON` answers a value `json.Marshal` refuses with `Error(500, ...)`, itself JSON. `writeResponse` then writes it in partial writes, spinning on EAGAIN. `checkKeepAlive` follows either way.
- **SSE broker** (`src/unnamed/part_014`, `part_013`). A library that nothing in the server imports:
  - One `run` goroutine selects over three buffered channels: `newClients`, `deadClients` and `messages`. It alone stores and deletes clients in a `sync.Map` keyed by client ID, closes clients, and broadcasts messages.
  - A `keepalive` goroutine broadcasts on a ticker over the same map.
  - `Client.Send` checks `IsClosed` and then sends without blocking. `Stream.Send` numbers an event and publishes it through `messages`; `Stream.SendTo` numbers one and sends it straight to one client.
- **Compiled router** (`src/core/router/compiled.go`). A second router, with the same route syntax. `Add` puts a pattern into one of three tables: without wildcards into a map from method and path, with a `*` into a list of prefixes, with a `:` into a tree of segments in which each node has 128 static children, indexed by a segment's first byte, and one param child. `Find` tries, in order, a cache keyed by method and path, the static map, the tree, and the prefix list. It stores a hit of the first two in the cache, and no `Add` clears it.
- **Around them** (not modelled yet; see the plan below): the SSE rooms.

## Modules

| Module | Models | Source |
|---|---|---|
| `Engine` | event loop, acceptor, idle reaper, epoll interest set, connection table, connection pool, the kernel's fd allocation, clients | part_007, epoll.go, part_003 |
| `MC_Engine` | Engine for TLC: fds {3,4}, records {c1,c2,c3}, symmetry over records | |
| `TaskBag` | abstract promise of the worker pool: accepted tasks are run once and eventually | spec 4.5 |
| `WorkerPool` | Submit, worker.run, trySteal, Close, Stats; refines `TaskBag` | worker_pool.go |
| `MC_WorkerPool` | WorkerPool for TLC: tasks {t1,t2,t3} | |
| `Hub` | run, Register, the pumps, Broadcast, SendTo, Client.Close, one room | hub.go |
| `MC_Hub` | Hub for TLC: clients {a,b}, symmetry over clients; the frame codec's assumptions on bounded inputs | |
| `WsFrame` | WriteFrame, readFrame and ReadMessage as operators over byte sequences, and what RFC 6455 asks of them | conn.go |
| `Rpc` | RPC client and server over one connection, Shutdown | client.go, server.go |
| `RpcProtocol` | The RPC server's pure parts as operators: the registry's Register, GetMethod and Call's argument check; the wire format's NewFrame, Encode, DecodeHeader, Decode, GetFrameSize and the connection read loop, over byte streams | service.go, part_016, server.go, client.go |
| `MC_Rpc` | Rpc for TLC: callers {p1,p2}, service Arith with four methods, what each caller calls | |
| `Middleware` | Pipeline.Execute over a chain of RateLimiter, CORS and plain handlers, run by concurrent goroutines on a clock; AsyncPipeline's dispatch, inline fallback and workers | pipeline.go |
| `MC_Middleware` | Middleware for TLC: goroutines {g1,g2}, worker {w1}, the chains, Logger as the async handler, a time horizon | |
| `Router` | NewRadixRouter, Add (addRoute, insertChild, findWildcard), and getValue/Find as operators over the tree | radix.go |
| `RoutePatterns` | what both routers share: patterns and paths as byte sequences, `SegmentLen`, and the reference matcher `Matches` of spec §4.7 | radix.go |
| `CompiledRouter` | NewCompiledRouter, Add with its three tables, Find with its cache; the tables' lookups as operators | compiled.go |
| `MC_CompiledRouter` | CompiledRouter for TLC: six patterns over '/', 'a', 'b', ':' and '*', the paths they are checked on | |
| `MC_Router` | Router for TLC: patterns over '/', 'a', 'b', ':' and '*', every path of up to four bytes | |
| `HttpParser` | ParseRequest, parseHeaders, parseQuery and Request.SetHeader as operators over token sequences; what a client sends (`Render`) and the fields spec §4.6 expects of it (`Expected`) | parser.go, part_004 |
| `FDContext` | appendInt, statusText, FDContext's six writers and Engine.sendError as operators building responses; a client's framing of responses by Content-Length | parser.go, context_fd.go, part_007 |
| `RequestReader` | handleRead, processRequest, writeResponse and checkKeepAlive on one connection, with a client and TCP segmentation both ways | part_007, context_fd.go |
| `MC_RequestReader` | RequestReader for TLC: the request kinds of each cfg, the routes | |
| `Broker` | the SSE broker's run and keepalive goroutines, Register, Unregister, Publish, PublishToClient, Client.Send/Close, Stream.Subscribe/Unsubscribe/Send/SendTo, with subscribers, publishers and SSE writers | part_014, part_013 |
| `MC_Broker` | Broker for TLC: clients {c1,c2}, one publisher | |

### Engine

**State.**
- `fdOpen` is the kernel's open descriptors. `Accept` always takes the lowest free number, as the kernel does, so numbers are reused.
- `registered` is the epoll interest set, and `table` is `e.connections`.
- `pool` and `rec` are the connection pool and the fields of each record: `fd`, `state`, unparsed buffer `rbuf`, `request`, whether it holds a read buffer (`buf`), and `expired`.
- `expired` abstracts `lastActive` against the idle timeout: it is set by the environment action `TimePasses` and cleared wherever the code refreshes `lastActive`.
- `loop` and `reaper` are the program counters of the two goroutines; the reaper's also holds its `toClose` snapshot.

**Data abstractions.**
- A request is `[keep, hit]`: whether it keeps the connection alive, and whether the router finds a handler.
- `Frag` is bytes that do not parse yet. `Bad` is the 400 reply.
- Clients (`Connect`, `Send`, `Hangup`) write chunks into `sock[fd]`.
- The replies each client session receives are recorded in `resp`.

**Actions.** Each action covers a whole handler up to the point where the other goroutine can interleave:
- `Accept`: one accepted socket, including the `poller.Add` failure path.
- `HandleEvent(fd)`: lookup, read, parse and the 400/close/wait branches.
- `Dispatch`: router lookup, then the 404 or handler response.
- `Finish`: checkKeepAlive after the handler.
- `ReaperScan`: the RLock snapshot.
- `ReaperCloseBegin`: closeConnection up to the unlock.
- `ReaperCloseEnd`: the rest of closeConnection.

A nil `conn.request` dereference is `Crash`: the goroutine panics, nothing recovers it, and the process exits.

### WorkerPool

**State.**
- The channels are `queue` and `chClosed`; `closed` is the atomic flag.
- `submitted` and `completed` are the counters. They are uint64 in the code and are kept modulo `2^UintBits` here.
- Each submit call and each worker has a program counter.

**Actions.**
- `Submit` is two steps: `SubmitCheck` (the `closed` load) and `SubmitSend` (the counter, then the two non-blocking sends). `SubmitInline` runs the task inline when both sends fail.
- Each worker is `WorkerPoll`, `WorkerSteal`, `WorkerBlock` and `WorkerRun`.
- `Close` is `CloseBegin` (the CAS) followed by one `CloseQueue` per channel.
- `Stats` is two loads.

**Refinement.** `TaskBag` is the abstract specification and `WorkerPool` is checked against it with `INSTANCE TaskBag WITH pending <- Pending, done <- Done`:
- A task is pending while it sits in a channel, is held by a worker, or is being run inline.
- A task is done once it has run.

### Hub

**State.**
- `regQ`, `unregQ` and `bcastQ` are the three channels, kept as sequences with their capacities.
- `clients` is `h.clients`. `members` and `roomLive` are the one room and whether it is still in `h.rooms`.
- `send[c]` counts the payloads buffered in `c.Send`, and `sendClosed` holds the clients `Client.Close` has closed.
- `connUp` is the network connection, and `PeerDrop` breaks it.
- `reg`, `rp`, `wp`, `hub` and `sendTo` are the program counters of Register, the pumps, `run` and a SendTo caller.
- A panic, from a send on a closed channel, is `crashed`.

**Actions.**
- `run`'s cases are `HubRegister`, `HubUnregister` and `HubBroadcast`.
- A broadcast to the room is `RoomBroadcast` (Room.Broadcast), taken inside `HubBroadcast` in one step: a non-blocking send to each member with no closed check. `Join`, `Leave` and `DeleteRoom` are the room operations.
- The Range of a broadcast to everyone is `HubBcastStep`, one client at a time, followed by `HubBcastDone`. Its self-send is `HubSelfUnregister`, which waits for room in `unregQ`.
- Register is `RegisterCount`, then `RegisterSend`. A rejected client's connection is closed, as `HandleConnection` does in part_008.
- `SendTo` is `SendToLoad`, then `SendToSend`.

### WsFrame

A byte is a number in 0..255 and a stream a sequence of bytes. `EncodeFrame` is WriteFrame (`LengthField` picks the length form, `BigEndian` is `PutUint16`/`PutUint64`). `readFrame(s, maxSize)` returns the frame and the rest of the stream, or an error record. `ReadHeader` follows the `int64` conversion: a 64-bit length with the top bit set is negative (kept as -1), one with another of its top 32 bits set is over the limit, and the rest are read by `BytesValue`. `Assemble` is ReadMessage's loop, with one CASE arm per `switch` case, and returns the outcome with the pongs written on the way.

The module has no variables: the connection's framing is a pure function of the bytes. MC_Hub checks four assumptions before its first state, so the hub run fails if any is false:
- `FrameRoundTrip`: every frame of every opcode, FIN or not, with payloads of 0 to 2 bytes, is read back whole, and the bytes after it are left.
- `LengthRoundTrip`: lengths 0, 125, 126, 127, 65535, 65536 and 1 MiB are read back with the header's length, and 1 MiB + 1 is rejected.
- `MaskedRoundTrip`: a client's masked frame is unmasked to its payload.
- `MessageAssembly`: a message of one to three fragments, with pings and pongs before any fragment, is read as its opcode and the concatenated payload, and the pongs answer the pings in order.

### Router

**State.** `root` is the tree, a nested record per node: `path`, `indices`, `children`, `nType` and `handlers` (one per method). `added` is the set of (method, pattern) pairs whose Add returned, `panicked` records a panic of Add, and `calls` counts the calls.

**Operators.** A pattern or path is a sequence of bytes. `addRoute` returns `[ok, node]`, with `ok = FALSE` for a panic:
- `Walk` is the loop of addRoute: the edge `Split` at the longest common prefix, then descent through a param child, through `indices`, or to a new child by `insertChild`.
- `insertChild` and `findWildcard` place the param and catch-all nodes.
- `getValue` is the lookup. `SegmentLen` is the end of a param value, and `Handle` is the handler test at a node.
- `Matches(pattern, path)` is the reference of spec §4.7: the parameter bindings under which the path is an expansion of the pattern, parameters nonempty.

**Actions.** `Add(m, p)` is one call of `RadixRouter.Add`. After a panic no call follows: the process is gone.

`Router` takes `Matches`, `SegmentLen` and the sequence helpers from `RoutePatterns`, which `CompiledRouter` extends too.

### CompiledRouter

**State.**
- `staticRoutes` is the map from (method, path) to a handler. A handler is its own pattern.
- `paramRoutes` is the segment tree, a function from addresses to nodes. An address is the sequence of child keys from the root: a segment's first byte for a static child, `ParamKey` for the param child. A node has `segment`, `paramName` and `handlers`.
- `wildcardRoutes` is the list of records (prefix, paramKey, method, handler), in insertion order.
- `cache` is the `sync.Map` from (method, path) to a stored result.
- `added` is the set of (method, pattern) pairs registered. `adds` and `finds` count the calls, and `crashed` records a panic of Find.

**Operators.**
- `addStaticRoute`, `addParamRoute` and `addWildcardRoute` are the three Add paths. `Descend` is one segment of addParamRoute: it creates a child only where none is.
- `MatchSegment` is one step of findParamRoute's loop: a static child whose segment is the whole segment, else the param child, else a miss. A byte at or above 0x80 indexes past the 128 entries and panics, and so does the empty path at `path[1:]`.
- `Cacheable` is the static map, then the tree. `Answer` is what Find returns: the cache, else `Cacheable`, else the first matching wildcard.

**Actions.**
- `Add(m, p)` picks the table by the pattern's wildcards, as `Add` does, and leaves the cache alone.
- `Find(m, path)` returns a cached result without touching anything else. Otherwise it computes the lookup and stores a hit of the static map or tree. Concurrent Finds only read the tables and do one `Store` each, so one step per Find is exact.
- With `Phased = TRUE` every Add precedes the first Find, as spec §5 says a router is filled before `Run`. With `Phased = FALSE` they interleave.

### HttpParser and RequestReader

**Data abstraction.** A buffer is a sequence of tokens. SP, CR, LF, `:`, `?`, `&` and `=` are tokens of their own, and any other run of bytes (a method, a path, a header name or value, a body byte) is one token. The searches of the parser (`bytes.IndexByte`, `bytes.Index`, `bytes.Split`, `bytes.TrimSpace`) are operators over these sequences with the same results. A request's fields are token sequences. The header table is a function from names to values, which is what `SetHeader`'s predefined fields and `ExtraHeaders` together hold.

**HttpParser.**
- `ParseRequest(data)` returns `Parsed(r)`, `Invalid` (`ErrInvalidRequest`), or `Crash`, which is the index panic of `line[len(line)-1]` on an empty request line.
- `Render(r)` is the byte stream a client sends for a request record `[lead, method, path, query, proto, header, body, eol]`: an optional empty line first, lines ended by CR LF or by LF alone. `Expected(r)` is the request spec §4.6 says the parser produces from it.

**FDContext.** A response is a token sequence too, except that a number is one token per digit, as `appendInt` writes it, and a body is a sequence of byte tokens, so that its length is its Content-Length.
- `appendInt` counts the digits and fills them in from the right. `AppendIntDecimal` checks it against `Decimal`, a fold over the digits, for every value of `Ints`. It mentions no variable, so `MC_RequestReader` states it as an `ASSUME`, which TLC checks before the first state of every RequestReader run.
- `Data(code, contentType, data)` is `FDContext.Data`'s `responseBuf`; `String` and `Bytes` are Data with a fixed Content-Type. `JSON(code, v)` takes json.Marshal's outcome `v = [ok, json]` and, when `ok` is false, builds `Error(500, "Failed to marshal JSON")`; `Error` and `Success` are JSON of the map they build (`ErrorJSON`, with Marshal's sorted keys). `Handle(h)` is a handler calling one writer.
- `WritersFramed(hs)`: every writer's buffer is read by a client as exactly one response, with the handler's status (500 for an unencodable JSON or Success value) and the writer's Content-Type. `MC_RequestReader` assumes it of `MC_Handlers` (every writer, body lengths 0, 1, 2 and 10, unencodable values), so TLC checks it before each RequestReader run. `sendError(code)` is the engine's error response, with no headers.
- `NewFDContext`, `SetParam`, `Param` and `Reset` are the context's parameter store (four inline slots, then the overflow map) and its reset for reuse; `BindParams(c, params)` is processRequest's Reset of a pooled context followed by one SetParam per router parameter, in the order Go's map range gives.
- `ParamsBound(Keys, Olds)`: after BindParams, Param returns, for every key, the value bound for this request and "" for a key not bound, whatever an earlier request left in the pooled context and in every order. `MC_RequestReader` assumes it for five keys (one past the inline slots) and earlier bindings of none, four or five keys. A Reset that kept the overflow map would make the assumption false.
- `Frames(s)` is how a client reads responses: a status line, headers up to the empty line, then exactly Content-Length body tokens. A response without Content-Length never completes.

**RequestReader state.**
- `sent` is what the client wrote, `wire` the tokens in flight, and `buf` is `readBuf[:readOffset]`.
- `served` holds the requests handleRead passed on.
- `pending` is `responseBuf[written:]` while `writeResponse` runs.
- `out` is the socket's send buffer (at most `SndCap` tokens), and `rcvd` is what the client has read.
- `conn` is open, closed, or crashed when the parser panicked.

**Actions.**
- `Send(r)` is the client writing a request, once it has framed the previous answers unless `Pipelined`.
- `Read(n)` is one `handleRead`, with `processRequest`. The read returns `n` tokens, at most `Room(buf)`, and the whole buffer is parsed. On an error it waits, or closes after a `sendError(400)` when the buffer is `Full`. On success the buffer is reset (`ParsedRest`) and the request routed. `Routes` maps a method and path to its handler; the routed `GET /a` sends `JSON(200, ...)`. A miss gets `sendError(404)` and `checkKeepAlive` at once (`KeepAliveEnds`). `WriteOnce` keeps only what fits in the send buffer, as sendError's unchecked write does.
- `WriteStep(k)` is one write of `writeResponse`'s loop, taking `k` tokens the send buffer has room for. EAGAIN changes nothing, so it is no step at all. The last write runs `checkKeepAlive`. `Read` waits while a response is pending, since the loop runs on the event loop.
- `ClientRecv(k)` is the client reading `k` response tokens.

### Broker

**State.**
- `newQ`, `deadQ` and `msgQ` are the broker's channels, with capacities `NewCap`, `DeadCap` and `MsgCap`.
- `stored` is the `sync.Map` from ID to client.
- `chan` and `closed` are each client's Channel and whether `Client.Close` has run. `seen` is the highest event number its SSE writer has read.
- `sub`, `pc`/`ev`/`tgt` and `kaPc`/`kaTodo`/`kaTgt`/`kaTmp` are where the subscribers, the publishers and the keepalive goroutine are.
- `dropped` is `droppedCount`, and `drops` counts the sends that failed.
- `crashed` records a send on a closed channel.

**Actions.**
- run's three select cases are `RunNew`, `RunDead` and `RunMsg`. run alone changes the map and closes clients, so its broadcast is one step: no other goroutine can change what it reads between its check and its send.
- The keepalive broadcast is split at every point another goroutine can act: `KaTick` (the Range begins with the IDs present), `KaVisit(i)` (load and IsClosed), `KaSend` (the select), and `KaDropLoad`/`KaDropStore` (`droppedCount++`).
- `RegisterCount` and `RegisterSend` are Register's count and its send.
- `StreamSend` and `Publish` are Send's `eventID.Add` and its channel send. `SendToLoad` and `SendToSend` are SendTo's numbering, load and IsClosed, and then its select.

### Rpc

**State.**
- The connection is two FIFO sequences of frames, `c2s` and `s2c`, plus `connOpen`.
- A frame is `[id, kind, from, meta]`; `meta` is a request's service and method. `from` is the caller whose request the frame answers. It is a history field used only by the properties.
- Server: `srv` (handleConn's program counter and current request), `tracked` (in `s.conns`), `listening`, `active` (`activeReqs`) and `sd` (Shutdown's program counter and snapshot).
- Client: `reqID`, `pending` (id to caller), `closed`, `closer` (Close's Range: the ids it has left and the entry it has loaded), `call` (each caller's program counter, kind, id, target and what it returned), `callErr` (each call's `Error` field, nil or not: which error it is does not matter to any property), `doneCh` (the one-slot `Done` channel, holding the frame whose `done()` filled it) and `recv` (receive's program counter and a frame read but not yet handled).

**Actions.**
- Server:
  - `ServeAccept` and `ServeTrack` are Serve.
  - `ServeRead` and `ServeRespond` are handleConn: a ping is answered at once, and a request through handleRequest. handleRequest looks the method up in the registry built by `Registry(Services)`: a missing service or method is an error frame; a method whose context parameter is a concrete type makes `Call` panic, and since handleConn has no recover the server process dies (`srv.pc = "crashed"`, the connection and listener gone); otherwise the method's reply or error is written.
  - `ServeExit` is the deferred close.
  - `ShutdownBegin`, `ShutdownSnapshot`, `ShutdownClose` and `ShutdownWait` are Shutdown.
- Client:
  - `GoCheck`, `GoRegister` and `GoSend` are Go and Ping up to the write.
  - `CallReturn` and `CallTimeout` are the caller's select; `CallReturn` returns `call.Error` as it is when the caller reads it.
  - `RecvFrame` is one pass of receive's loop: read a frame and run `handleFrame` on it. The read touches only the incoming bytes, so it is taken together with the handling, except when Close comes between them: `CloseBegin` may take the frame receive has just read, and `HandleFrame` handles it after the close. Nothing in receive or handleFrame looks at `c.closed`.
  - `RecvExit` is receive's error exit, which calls Close.
  - `CloseBegin`, `CloseVisit`, `CloseCallback` and `CloseEnd` are Close's `closeOnce` and `Range`. `CloseVisit` is Range loading an entry; `CloseCallback` sets `call.Error`, calls `done()` and deletes the entry. Between the two, handleFrame can LoadAndDelete the same entry and complete the call first.
- `ConnFail` is the network, or the server's read deadline.

### RpcProtocol: the wire format

- A byte stream is a sequence of runs `[n, b]` (n copies of byte b), so that a 64 KiB payload is one element; headers are written and read as explicit bytes with big-endian `PutUint16`/`PutUint32`.
- `Encode(f)` is Frame.Encode: the header with `uint16(len)` lengths, then metadata and payload. `DecodeHeader`, `GetFrameSize` and `Decode` read them back; `ReadFrames(st)` is handleConn's loop (and receive's): ReadFull of the header, DecodeHeader, GetFrameSize, ReadFull of the rest, Decode, until EOF or the first error, which closes the connection.
- `FramesRoundTrip`: any two frames written back to back are read back as written, then EOF. `MC_Rpc` assumes it for a request with metadata, replies of payload 1 and 65535, an error frame and a ping, with ids 0 and 2^31-1. A second assumption records what a 65536-byte reply becomes (below).

### Middleware

**State.**
- `now` is a clock of ticks, `K` to the second, counted from the call to `RateLimiter`.
- The limiter: `tokens` and `lastRefill`.
- Each goroutine has `pc` (0 when idle, the position of the handler it runs next, or `Final` for the terminal handler), `method` (the request's method), `aborted` (`ctx.IsAborted()`) and `ran` (the positions its request has invoked).
- `answers[g]` counts the responses written for g's request: RateLimiter's 429 JSON and the terminal handler's response. CORS's `SetHeader` and `Status(204)` only set context fields that no writer reads (`responseHeaders`, `statusCode`), so they write nothing.
- History: `admits` holds the limiter's admissions per elapsed tick, and `cur` those of the current tick. `arrived` counts the requests started in the current tick.

**Actions.**
- `Arrive` is a call of Execute, including its fast path when the chain is empty.
- `Step` runs one handler and makes the `IsAborted` check. `Handler` selects `Limit`, `Cors` or `Plain`, and `Continue` is the loop's return-or-go-on.
- `Limit` is the limiter's whole critical section under `mu`: `Refill`, then take a token or abort.
- `Terminal` is the terminal handler, called behind the final `IsAborted` check.
- `Tick` advances the clock once the tick's requests are served. Handlers run in far less than a tick.
- With `Period > 0`, exactly one request arrives every `Period` ticks: this is the uniform load of spec §8.

**AsyncPipeline.** With `Async` nonempty the chain is the synchronous part of an AsyncPipeline:
- State: `workerCh` holds the queued tasks (handler, ctx, and as a ghost the request the task was queued for), and `wtask` what each worker has received. `reqOf[g]` is the parity of the number of the request in goroutine g's ctx: `Arrive` flips it, because the ctx is reused for the goroutine's next request, as the engine pools a context once the pipeline returns.
- Ghosts: `owed[g][j]` counts the runs of async handler j owed to g's requests whose chain completed. `stray` counts runs that found nothing owed, and `misread` records a handler that read a ctx holding another request.
- Actions: `Terminal` and an aborting `Step` end with `Return`, the `!ctx.IsAborted()` check. `Dispatch` is one iteration of the async loop: the non-blocking send, or with the channel full `RunTask` inline. `WorkerRecv` and `WorkerRun` are the worker's range loop and its call of the handler.

## Runs

| Run | Expect | What it shows |
|---|---|---|
| engine | pass | `PollerMatchesTable`, `LiveRecordsIntact`, `ReaperTargetIntact` and `NoReplyAfterClose` hold across every interleaving of the loop, the reaper and the clients, with fd reuse. `ConnectionsEventuallyClosed`: every published connection is eventually closed. |
| engine_nil_request | violation | The reaper closes a connection the loop is dispatching, and the loop dereferences the nil request. |
| workerpool | pass | `TaskBagSafety`: every step is a step of the abstract task bag. `DrainedOnExit`: no worker exits leaving tasks in its channel. `AcceptedTasksRun`: every accepted task is run, unless the process died. All with Close racing submitters. |
| hub | pass | `ClosedClientsUnregistered`: `h.clients` never holds a closed client. `SlowClientsEventuallyDropped`: a client a broadcast found full is eventually closed, provided `h.unregister` has room. Before the first state, the frame codec's four assumptions (see WsFrame) hold. |
| rpc | pass | `AnswersMatchRequests`: a Call or Ping that returns nil was completed by the reply (or pong) to its own request. This covers the race in which Close's Range and handleFrame complete the same call. `CallsReturn`: every started Call or Ping returns, whatever Close, Shutdown and the network do. `RepliesOnlyForDocumentedMethods`: a caller gets a reply frame only from a method of the documented signature (`RpcProtocol`'s Register filter against spec's form). |
| middleware | pass | `AbortSkipsRest`: an abort ends Execute, and the terminal handler never runs for an aborted request. `AdmissionUpperBound`: no window of T seconds sees more than `Rate*T + Rate` admissions, for any arrivals on two goroutines. `AsyncExactlyOnce`: Logger, given to UseAsync, runs exactly once for every request whose chain completed, on the worker or inline, and never for an aborted one. |
| middleware_rate_drift | violation | Under one request every 0.4 s, `RateLimiter(2)` refills every 1.2 s. A 7 s window gets 11 admissions, below spec §8's `Rate*T - Rate = 12`. |
| router | pass | `StaticExact`: after any three Adds, in any order, a route without wildcards is answered only for exactly its own path, with no parameters. |
| compiled_router | pass | `StaticRoutesExact`: a route without wildcards always answers its own path, with no parameters, whatever was added before or after it. With every Add before the first Find the tables never change under the cache, so cache coherence is not checked here; `MC_CompiledRouter_stale.cfg` checks it with Adds after Finds and finds it violated (below). |
| router_route_law | violation | GET `/` then GET `/*a`: the catch-all insertion cuts the root's path to nothing, and `Find(GET, /)` answers the catch-all with `a = /`. |
| requestreader | pass | `NoSynthesizedRequest`: every request handleRead passes on is, field by field, the one sent in that position, however TCP cuts the bytes. `ResponsesByteExact`: every response the client frames is, byte for byte, the buffer the handler of the request it answers builds, across partial writes. One request is in flight at a time, so this is not about order; the pipelined case is `MC_RequestReader_pipelined.cfg`, which fails (below). `RequestsAnswered`: every request sent is answered with a response the client can frame, or the connection closes. |
| broker | pass | `PublishesComplete`: a publisher inside `Stream.Send` always returns, because run's broadcast never waits on a client. `UnsubscribedClientsClosed`: a client whose stream unsubscribed is eventually closed (or a send panicked). Both under every interleaving of run, keepalive, two subscribers and a publisher. |

Every property of a passing run has a mutant in `PROJECT.json`. A mutant is a plausible bug in the mapped code, and TLC finds the property violated once the mutant is substituted.

### Findings

1. **Reaper vs. dispatch (code bug, part_007:457).** The reaper decides under RLock and closes later without re-checking. A request read in between is nil'd under the handler, and the server panics. This contradicts spec §5 and §7.
2. **Rate limiter drift (spec divergence, pipeline.go:215).** The refill needs `elapsed > time.Second` and restarts the second at the request that found it over. Each period is therefore a second plus the gap to the next request, and under uniform load the limiter admits less than spec §8's lower bound.
3. **Catch-all empties its parent (code bug, radix.go:202).** After `/` and `/*a`, every path is routed to the catch-all, and `/` no longer reaches its own handler.

The models reach more defects that are not kept as standing runs. Each, except the CORS preflight (a plain omission a unit test reaches as easily), is a hazard in `PROJECT.json` whose note names the cfg that shows it. Every one of those cfgs makes TLC report the property violated:
- `MC_RequestReader_pipelined.cfg`, `NoSynthesizedRequest` (part_007:354). Spec scenario 4 sends two `GET /` without waiting. One read returns the first request and part of the second. The parser makes those bytes the first request's body, and `readOffset = 0` drops them. `MC_Engine_pipeline.cfg` shows the same loss at Engine's level of abstraction.
- `MC_RequestReader_body.cfg`, `NoSynthesizedRequest` (parser.go:79). A segment that ends inside a POST body yields a request with a truncated body, because Content-Length is ignored. This contradicts spec §4.6 and §6.
- `MC_RequestReader_bare.cfg`, `RequestsAnswered` (parser.go:64). `GET / HTTP/1.0` with no header lines never parses: the terminator is searched for after the request line's LF, where only one CR LF is left.
- `MC_RequestReader_lead.cfg`, `NoParserPanic` (parser.go:31). An empty line before the request line makes `line[len(line)-1]` panic, and with no recover on the event loop the process exits. This contradicts spec §7.
- `MC_RequestReader_notfound.cfg`, `RequestsAnswered` (part_007:387). A 404 from `sendError` has no Content-Length. On a kept-alive connection the client cannot tell where it ends, and waits for it forever.
- `MC_WorkerPool_closerace.cfg`, `NoSendOnClosedChannel` (worker_pool.go:88). Submit passes the closed check, Close closes the channel, and the send panics. Spec §4.5 says Submit returns false after shutdown.
- `MC_Broker_panic.cfg`, `NoPanic` (part_014:59). `Client.Send` checks `IsClosed` and then sends. run closes the client in between, and the send on the closed channel panics. Keepalive and SendTo both reach it.
- `MC_Broker_zombie.cfg`, `NoClosedClientStored` (part_014:112). A Subscribe's registration is taken after its Unsubscribe's, so run stores a closed client and keeps it.
- `MC_Broker_limit.cfg`, `ClientLimit` (part_014:152). Two Registers both pass the count before either is stored, and the map exceeds `maxClients`.
- `MC_Broker_sameid.cfg`, `StoredWhileSubscribed` (part_014:113). Two clients with one ID: the second Store replaces the first, which stays subscribed and open but is out of the map, so it gets no broadcast.
- `MC_Broker_order.cfg`, `EventsInIdOrder` (part_013:61). `Stream.Send` numbers an event and queues it, and a later `SendTo` is numbered after it and delivered first: a client reads IDs out of order.
- `MC_Broker_dropped.cfg`, `DroppedCounted` (part_014:144). `droppedCount++` in keepalive races the one in run's broadcast, and one drop is lost.
- `MC_Engine_reuse.cfg`, `ReaperClosesOnlyIdleSessions` (part_007:467). The reaper closes fds by number, and a number closed and reused by a new client in between makes it close a fresh connection.
- `MC_Rpc_shutdown.cfg`, `ShutdownClosesConnections` (server.go:253). A connection between Accept and trackConn survives Shutdown and is served after it returns.
- `MC_Rpc_panic.cfg`, `ServerNeverPanics` (service.go:78). Register checks only that the first parameter implements `context.Context`. A method taking a concrete context type is registered, and `Call` passes `context.Background()` to it: reflect panics and, with no recover in handleConn, the whole server exits.
- `MC_Rpc.tla`, the `Oversized` assumption (part_016:103). Encode writes `uint16(payloadLen)` and `ErrFrameTooLarge` is never used: a 65536-byte reply goes out with length 0. The client completes the call with an empty payload, parses the payload's first 16 bytes as the next header, finds no magic and closes the connection, failing every other pending call. TLC checks the assumption that states exactly this outcome on every Rpc run.
- `MC_Hub_zombie.cfg`, `DisconnectedClientsRemoved` (hub.go:117). `run` takes a dead client's unregister before its register, ignores it, and keeps the client forever.
- `MC_CompiledRouter_law.cfg`, `FindSound` (compiled.go:112). After `GET /:x` and `GET /aa/:y`, `Find(GET, /aa)` descends into the static child `aa`, which has no GET handler, and misses, though `/:x` matches. findParamRoute does not backtrack to the param child.
- `MC_CompiledRouter_stale.cfg`, `CacheCoherent` (compiled.go:144). A Find caches a route, and a later Add of a more specific static route is never seen on that path: the cache answers the older one. Only the filled-before-Run discipline keeps the cache right.
- `MC_CompiledRouter_byte.cfg`, `NoFindPanic` (compiled.go:185). The empty path panics at `path[1:]`, and a segment starting with a byte at or above 0x80 indexes past `staticChildren`.
- `MC_Middleware_preflight.cfg`, `EveryRequestAnswered` (pipeline.go:195). CORS aborts an `OPTIONS` request and calls `Status(204)`, but `statusCode` is never written out, so the preflight gets no response at all; on a kept-alive connection the client waits for it. Spec §4.8 says CORS aborts with status 204. The headers CORS and RequestID set are likewise never sent, because no writer reads `responseHeaders` (spec §4.9 puts user-set headers in every response).
- `MC_Middleware_ctx.cfg`, `AsyncReadsOwnRequest` (pipeline.go:147). AsyncPipeline queues a task holding the ctx pointer and returns. The goroutine's next request arrives in that ctx before the worker runs Logger, which then logs the new request's method and path.
- Further reached defects, listed as hazards with notes:
  - `run` blocks on its own full `h.unregister` (hub.go:93).
  - `Room.Broadcast` and SendTo send on a closed client channel (hub.go:273, one hazard for both).
  - A Call that timed out has its late answer decoded into its Reply after it returned (client.go:89).
  - `Add` panics on a catch-all registered first (radix.go:215), which a unit test reaches with one call.
- The frame codec's defects, which `WsFrame` models but no run keeps, since its checks are assumptions that must hold for the hub run to start:
  - A 64-bit length with the top bit set is negative as an `int64`, passes the size check, and no payload is read: the payload's bytes are then parsed as frames (conn.go:152, a hazard).
  - A continuation frame with FIN and no start frame is returned as a message with opcode 0 (conn.go:92).
  - `maxMessageSize` bounds each frame, not the message: fragments add up without limit (conn.go:155).
  - `Close` sets `closed` before it calls `WriteFrame`, which returns EOF when closed, so the close frame is never sent (conn.go:252).
- Hub's `RegisterCount` and `RegisterSend` also let concurrent Registers exceed `maxClients` (hub.go:107), a soft capacity guard nothing else depends on. The broker's hazard part_014:152 is the same race.

## Bounds and why they suffice

**Engine.**
- Two fds: with more sessions than fds, the kernel must reuse a number.
- Three records: two can be live while the reaper still holds a third.
- `MaxSessions = 2` in the `engine` run, which also checks liveness without symmetry, and 3 in the violation runs.
- `MaxSends = 2` chunks: two chunks are what pipelining, a fragment followed by a request, and a full buffer each need.
- `BufCap = 2` chunks: a buffer can hold a fragment and still fill up.

The `engine` run explores about 370k distinct states in under two minutes.

**WorkerPool.**
- Two workers: a victim to steal from, and a next queue to fall back to.
- Three tasks and `QCap = 1`: both queues fill, so the inline path is reached.
- `UintBits = 4`: the counters cannot wrap from submissions alone, so a wrap comes only from the Stats race.
- No symmetry: the run checks liveness, and TLC's symmetry reduction is unsound for it. It explores about 108k distinct states in under a minute.

**Hub.**
- Two clients: one can be slow, or closed, while the other is served.
- `SendCap = 1`: a single payload fills a channel.
- `MaxMsgs = 1` broadcast and `MaxDirect = 1` SendTo.
- `UnregCap = 6`: every pump's unregister plus one per slow client. `run` therefore cannot block on itself, which is the condition under which `SlowClientsEventuallyDropped` is claimed.
- `MaxClients = 1`: the rejection path runs, and two Registers can still both pass the count.

**WsFrame** (assumptions of MC_Hub).
- Payloads `<<>>`, `<<0>>`, `<<255>>` and `<<1, 128>>`: empty (no payload read), bytes with and without the top bit, and two bytes so that the key's second byte is used.
- Every opcode, including the control ones, with FIN set and clear; a tail that is another frame's header, so an over-read or under-read of the payload shows.
- Lengths on each side of 126 and 65536 and of the 1 MiB limit; the header alone is encoded, never a megabyte of payload.
- Keys of zeros and of mixed bytes; up to three fragments, the middle one empty, with nothing, a ping, or a pong and a ping before each.

**Rpc.**
- Two callers: p1 Calls Add, and p2 Pings or Calls mul or WithCtx (`Targets`, chosen in `Init`). One call can be answered while the other is in flight, pending during Close, or timed out. Two callers are enough for one's answer to reach the other if ids were not fresh, and for a Close to find two pending entries. The run explores about 650k distinct states in a little over two minutes.
- Ids are `1..2`.
- One service, Arith, with one valid method (Add), an unexported one (mul), one with a non-pointer reply (Quo) and one with a concrete context parameter (WithCtx). p1 calls Add; p2 calls mul or WithCtx, so both the lookup-error and the panic paths are taken, or pings.

**Middleware.**
- Two goroutines, a chain of RateLimiter(1), CORS and a plain handler, and `GET` and `OPTIONS` requests. Each handler aborts in some request, and the limiter both admits and rejects.
- `K = 2` ticks to the second, up to two requests a tick (four a second, above the rate), and 4 s of clock. A window can then span several refills.
- One async handler (Logger), one worker and `WorkerCap = 1`: one queued task fills the channel, so a second completed request runs Logger inline, and a goroutine can start its next request while its task waits. The `middleware` run explores about 720k distinct states in about a minute; 5 s of clock take over five minutes.
- `reqOf` is a parity, not a serial number, so that the run stays finite in its data. A changed parity always means another request, so `misread` never reports a false reuse.
- The ctx cfg uses a single plain handler and 1 s of clock: two requests on one goroutine are all it needs.
- The drift run uses `RateLimiter(2)` with `K = 5`, so 0.4 s is exactly two ticks, and 12 s of clock. Its schedule has no requests on the boundary of a second, so the drift is not a rounding effect of the clock. It has no async handlers.

**Router.**
- Eleven patterns: the static ones `/`, `/a`, `/a/b`, `/b`, `/a/`, the params `/:a`, `/:b`, `/:a/b`, `/a/:b`, and the catch-alls `/a/*b`, `/*a`. Between them they share prefixes, split edges, and put a static child and a param child under one node.
- Two methods and `MaxRoutes = 3` calls in the `router` run, in every order: enough for an edge split followed by a descent into each kind of child. Four calls take about a minute.
- Every path of up to four bytes over `/`, `a` and `b`, so every pattern has expansions and near misses.
- The `router_route_law` run needs only two calls.

**CompiledRouter.**
- Six patterns: `/a`, `/ab` (static), `/:x`, `/aa/:y`, `/ab/:x` (tree) and `/a/*r` (wildcard). Two static segments under one node share a first byte, and a static child sits beside a param child.
- Every path of up to three bytes over `/`, `a` and `b`, and `/aa/b`, `/ab/b`: each pattern has expansions and near misses. The byte cfg adds the empty path and a segment starting at 0x80.
- Two methods, `MaxAdds = 4` and `MaxFinds = 3`: enough for a Find to cache before a later Add, and for both tables and the cache to answer. The `compiled_router` run explores about 315k distinct states in under a minute.

**RequestReader.**
- `BufCap = 24` tokens, the stand-in for the 8 KiB read buffer. The first two request kinds fit (19 and 21 tokens), and the third (27) does not, so both the wait and the 400 path are taken.
- `MaxRequests = 2`: a second request on a kept-alive connection, after a reset buffer.
- `Read(n)` takes every `n` up to the room left, so TCP cuts every request at every token, and at none.
- `SndCap = 8`: a 200 response is over 20 tokens, so every response takes several partial writes with EAGAIN in between, and a 400 or 404 is cut by `WriteOnce`.
- One route, `GET /a`, with a two-byte body: the request kinds both hit it and miss it.
- `Ints = 0..999` for `AppendIntDecimal`: every digit count a status code or a small Content-Length has, and every zero digit position.
- The violation cfgs use one request kind each, which is all their cases need.

**Broker.**
- Two clients: one can be closed by run while the other is still served, and two Registers can race the count.
- One publisher, making `MaxEvents = 2` Sends or SendTos: a Send and a later SendTo are what reorders IDs.
- All channel capacities 1, and a client channel of 1: one event fills it, so every "drop" path runs.
- `MaxTicks = 1` keepalive broadcast, split into its per-client steps.
- No symmetry, because the runs check liveness. The `broker` run explores about 150k distinct states in 30 s.

## Fairness

**Engine.**
- `HandleEvent` is weakly fair per fd, and `Accept`, `Dispatch` and `Finish` are weakly fair. epoll is level-triggered and Run handles every fd each Wait returns, so a ready fd is not starved.
- The reaper is weakly fair (a 1 s ticker).
- `TimePasses` is weakly fair: time advances.
- Clients owe nothing.

**WorkerPool.**
- Every started goroutine step is weakly fair: submitters inside Submit, the workers, the closer's loop, and Stats' second load.
- Callers are not obliged to call Submit, Close or Stats.

**Hub.**
- `run`, the started pumps, a Register that has passed its count, and a loaded SendTo are weakly fair.
- Callers and peers owe nothing.

**Rpc.**
- The server's accept loop and handleConn, Shutdown's steps once it has begun, a caller inside Call or Ping, the receive loop, and a Close in progress are weakly fair.
- Starting a call, Shutdown, Close, timeouts and network failures are not.

**RequestReader.**
- Reading is weakly fair: epoll is level-triggered, and the loop reads a readable fd on every pass. The fairness is written as `WF_vars(ReadAny)` with its enabling condition spelled out: a read takes at least one token and the parse assigns every primed variable, so `ENABLED <<ReadAny>>_vars` is exactly `Readable`. TLC evaluates the spelled-out form without running the parser under ENABLED.
- `writeResponse` and the client's reads are weakly fair: the write loop spins until done, and a client reads its responses.
- The client owes nothing, and its requests are bounded by `MaxRequests`. The cfgs set `CHECK_DEADLOCK FALSE` because a connection whose client has stopped sending really does wait.

**Broker.**
- run's dead-client and message cases are weakly fair: run loops on its select forever.
- A publisher blocked in `Stream.Send`'s channel send is strongly fair. Go serves blocked senders in order, and the channel's room comes and goes as run takes messages, so only strong fairness matches that.
- The new-client case, keepalive, subscribers and SSE writers need no fairness for the properties checked, so none is assumed. The cfg sets `CHECK_DEADLOCK FALSE`: with every event published and every client gone, the broker really does just wait.

Router and CompiledRouter have no fairness, and their cfgs set `CHECK_DEADLOCK FALSE`: registration and lookup are calls the program makes or not, and it may stop making them at any point.

Middleware checks only safety and assumes no fairness. Its cfgs bound the clock with the state constraint `TimeBound`, not with a stop, so deadlock stays checked.

The Hub and Rpc cfgs set `CHECK_DEADLOCK FALSE`. An idle hub is every goroutine blocked on a channel, waiting for a caller that may never come, so the real system does stop there. An idle RPC client and server likewise block on reads.

Neither Engine nor WorkerPool sets `CHECK_DEADLOCK FALSE`. Instead, a `Stopped`/`Terminated` stutter step covers the states where the real system really has stopped: the process has exited, or every client has come and gone.

## Not modelled

- **Engine details.** The request double-release window inside checkKeepAlive/closeConnection is not represented, because each is one step. Neither is the byte-pool lease lost when `poller.Add` fails. `StateWriting`/`StateKeepalive` are never assigned in the code, so their branch of `handleConnectionEvent` is dead.
- **RequestReader** leaves out a read error and EOF (Engine has them). The router is abstracted to `Routes`, its answer, and a handler to the writer it calls. json.Marshal is abstracted to its outcome. `Data` copies its contentType unchecked, so a CR LF in it would inject header lines; the handlers pass constants, so no model feeds it one. `ServeFile` and `Bind` are stubs.
- **Broker.** Rooms (`Room`, `JoinRoom`, `BroadcastToRoom`), `FormatEvent`'s text, `Stats` and `GetClient`. An event is a model value, and a Channel holds only its ID.
- **Router.** The `priority` field is written and never read.
- **The rest of parser.go.** StandardContext, the net.Conn context, is not used by the engine; its parameter store and writers are copies of FDContext's, which are modelled.
- **Buffer pools** (`fast_pool.go`). `BufferPool` and the fast buffer pools are sync.Pool wrappers that nothing in the engine calls. Their `Put` routes a buffer by `cap <= tier`, where spec §4.2 routes by exact capacity and discards off-class buffers, so a buffer of capacity 3000 is pooled as a medium one and a later `Get(8000)` returns it. That is one Put and one Get against an arbitrary-choice pool, which a unit test shows as well as a model, and no run is kept for it. The hit counters count every Get, so `HitRate` is always 1. `PipelineHandler` and `HandlePipelinedConnection` are called by nothing.
- **AsyncPipeline.** The `sync.Pool` of task records, which only recycles memory (a task sent on the channel is copied and its pooled record is never put back), and `Compile`, which copies the handler slice.
- **CompiledRouter.** `ClearCache`, `Build` (which only logs) and `Stats`. The cache grows with every distinct path looked up, and the model bounds that only by `MaxFinds`.
- **WebSocket connection.** `Upgrade`'s handshake (HTTP header checks, SHA-1 and base64 of the key) is encoding and I/O. The connection's concurrent use (`writeMu`, `Close` racing a writer, the pong written from the reading goroutine) is not a model of its own: the hub abstracts a connection to `connUp`, and the close-frame defect above is deterministic.
- **Pure I/O and encodings.** SIMD helpers, observability counters, codecs, the JSON-RPC 2.0 types (used by nothing), the registry's `ListServices`/`ListMethods` (read-only listings) and Register called concurrently with serving (the registry is filled before Serve), the HTTP/2 adapter, GC tuning, the CLI and the kqueue/io_uring pollers.

## Plan for the next modules

1. Broker rooms. The room membership map and its broadcast, racing client removal.
