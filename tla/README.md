# RelayForge: models, checks and proofs

RelayForge is a traffic relay manager: a **panel** (`dotnet-backend`, C#, MySQL)
administers tunnels and forwards, and an **agent** (`go-gost`, Go, a fork of the
GOST proxy) on every node runs them. This directory holds TLA+ models of the
parts that carry the system's own logic, the TLC runs that check them on small
instances and the theorems TLAPS proves for every instance. `PROJECT.json` maps
every definition to the lines it models and lists the hazards the properties are
for.

## The system

| part | state it keeps | operations | talks to | model |
| --- | --- | --- | --- | --- |
| service manager of the agent (`x/socket/service.go`, `config.go`) | service registry, sockets, configuration in memory, `gost.json` | AddService, UpdateService, SyncService, DeleteService, PauseService, ResumeService, save, start | called by the command router | `AgentServices` |
| WebSocket reporter of the agent (`x/socket/websocket_reporter.go`) | connection, connected flag | connect, report every 2 s, receive, route a command, respond, reconnect | panel's node gateway | `AgentReporter` |
| traffic accounting of the agent (`x/service`, `x/observer/stats`) | byte counters, pending report | count, report every 5 s, reset what was reported | panel's flow upload | `TrafficReport` |
| node gateway of the panel (`Infrastructure/NodeGateway.cs`) | live session per node, pending requests, node status, admin tickets and browsers | accept, send with a timeout, read loop, close, broadcast | agents, browsers | `NodeGateway`, `RemoteCalls`, `AdminSessions` |
| forwards, flow and quota of the panel (`Application/ForwardOperations.cs`, `FlowOperations.cs`) | forwards, ports, status, counters | create, update, delete, pause, resume, replay, apply a report, reconcile | node gateway, database | `ForwardControl`, `ForwardLife` |
| self-update of the agent (`auto_update*.go`) | the binary on disk, its backup | check, download, verify, swap, exec | release server | `AutoUpdate` |
| diagnosis (`websocket_reporter.go`, `Api/RelayForgeApi.cs`) | probe listeners with reference counts | start, stop, expire, ping | two nodes, panel | `ProbeListeners` |
| login rate limiter (`Infrastructure/RateLimiting.cs`) | failures and lock per address | acquire, fail, succeed, clean up | login endpoint | `LoginRateLimiter` |
| Telegram notifier (`Infrastructure/TelegramNotifier.cs`) | settings cache, claimed quota notices | notify, claim, release, invalidate | database, Telegram | `TelegramSettings`, `TelegramClaims` |
| proxy of the agent: handlers (`x/handler`, sniffers) | a client's connection and what it opens | authenticate, check, dial, answer, relay, record | chains of nodes, targets | `FlowHttp`, `FlowSocks`, `FlowRelay`, `FlowTunnel`, `FlowWeb`, `FlowDns`, `FlowLocal`, `FlowNet`, `FlowSniffer` |
| proxy: connectors, dialers, listeners | connections to the next node, ports, sessions | connect, bind, dial, handshake, listen, accept | other nodes, clients | `FlowConnect`, `FlowDial`, `FlowListen`, `FlowListenMux` |
| proxy: shared state (`x/dialer/mtcp`, `x/handler/tunnel`, `x/internal/util/pht`) | cached sessions, pool of reverse tunnels, tokens and pipes | dial, handshake, bind, clean, drop, push, pull | | `MuxSessions`, `TunnelPool`, `PhtTunnel` |
| REST API, chains, limiters and configuration of the agent (`x/api`, `x/socket/chain.go`, `limiter.go`, `x/config`) | registries, configuration, ports | create, update, delete of sixteen kinds of objects, batches, save, reload | operators, panel | `FlowApi` |
| port rules (`Domain/Domain.cs`) | none | parse a port range | forwards | no |

How they interact: an API call on a forward writes MySQL rows and sends commands
through the node gateway (`SendAsync`, 10 s timeout) to the agent, whose reader
goroutine executes them on the service manager and answers. Each running service
reports its bytes to the panel over HTTP; a report may make the panel pause the
forward or all forwards of the tunnel. Whenever an agent connects, the panel
replays all tunnels of the node to it.

What is hard in it:

* **partial failure**: commands name several services and fail in the middle; a
  creation touches a row and one or two nodes and is rolled back by hand;
* **interleaving**: handlers of overlapping sessions of a node, requests on the
  same forward, two reader goroutines of the agent, counters read and stored in
  two steps;
* **unreliable delivery and timeouts**: answers that come late, through another
  session, or never; reports applied by the panel and given up by the agent;
* **crash and restart**: `gost.json` is truncated and then written; the next start
  depends on what it holds;
* **stale state**: statuses and rows read before an await and acted on after it;
  settings that a slow load stores after a save emptied the cache;
* **many returns**: a proxy function holds two connections, a counter, a lock and a
  deadline, and leaves through any of a dozen error returns.

## The modules

### AgentServices (`x/socket/service.go`, `config.go`, `program.go`, loader)

`registry`, `listeners`, `config` and `file` are the service registry, the sockets,
the configuration in memory and `gost.json`. A command arrives (`Receive`), passes
its check phase, handles its names one per step, commits, saves and answers; the
phases are the loops of the Go functions. Parsing a service binds its endpoint, so it
fails when another service or process has it (`OtherProcess`), or for other
reasons if `ParseFaults`. `Crash` loses everything but the file; `Start` is
`program.Start`, which needs a file it can load. `Finalize` is the Go runtime
closing a socket nothing refers to. Entries of one name are a sequence because
failed commands can make them accumulate. `failed` and `before` are history.
One command runs at a time; `AgentReporter` shows that after a reconnection two
goroutines may read commands, which this module does not follow.

### AgentReporter (`x/socket/websocket_reporter.go`)

The goroutine `run` (`pc`) checks, dials and serves connections; every connection
it serves starts a goroutine `receiveMessages` (`reader[c]`). They share `conn` and
`connected`. A goroutine executing a command continues with whatever connection is
current then, and notes a read error in two steps (`ReadFails`, `Fail`), the
second of which may come late.

### NodeGateway (`Infrastructure/NodeGateway.cs`)

The sessions of one node. `pc[s]` is the await at which the `AcceptAsync` handler of
session `s` stands: it closes the previous session, registers, writes status 1,
replays, waits for its read loop, and in its `finally` block looks the entry up,
removes it and writes status 0, in three steps. `SendAsync` is `Call`, `Sent`,
`SendFails`, `Timeout`; the read loop of any session may complete a call
(`Answer`). The agent answers through the connection it has when the command is
done. A read loop ends when its socket does (`ReadEnds`) or on a message it cannot
decrypt, with the socket still open (`ReadBreaks`); the handler that ends disposes the
socket. Completing a call and taking it out of `_pending` is one step (`Answer`,
`Timeout`): `TryRemove` decides between the two, and only the winner completes the call
anybody looks at.

### ForwardControl (`ForwardOperations.cs`, `FlowOperations.cs`, tunnel endpoints)

Rows of one tunnel (`status`, `port`, usage abstracted to "at or above the limit"),
the services of the node that carries them (`svc`, `bound`) and any number of
concurrent requests, each standing at one of its awaits: create with its port
check, insert, command and rollback; edit; delete; pause and resume; traffic
report with the pausing of one forward or of the whole tunnel; reconciliation;
edit of the tunnel and replay to a node. `Kind` says which services the node runs
for a forward and so which commands it accepts: the agent refuses a command that
names a service it does not have. The five kinds are the ones the panel can create: the
two nodes of a relay differ (`RelayForgeApi.cs:329`). A tunnel keeps its kind in a
behaviour, although `tunnel/update` can change its protocol (Limits). What a command does is summarised from
`AgentServices`: the services of a forward are a unit. That a failed AddService,
DeleteService or PauseService changes nothing, and that an acknowledged command has done
to all its names what it says, is `CommandEffect` there.

### ForwardLife: what the panel promises of a forward

The abstract specification of forwards as administrators see them: a forward has not
been made, is on, paused or over its quota, or is gone; requests ask for its creation,
pause, resumption or deletion and take effect or fail; a creation that has made its
forward ends confirmed or removes it; the quota alone moves a forward without being asked, and
only between on and over. It knows no nodes, ports or commands and assumes nothing about
how requests overlap. `ForwardControl!LifeKept` is this specification under the mapping
`LifeOf`, `WishOf` (`Life`), a property of the run `forward_control` and a theorem. A
request that overtook another shows where a promise had to be weaker than one would
like: a creation can be confirmed whose forward somebody has deleted meanwhile
(`Confirm`).

### TrafficReport (`x/service/service.go`, `x/observer/stats`, `traffic_reporter.go`)

The counter of one service, the handlers that add to it (the counter first, the
flag `updated` later), the goroutine that reads, reports, subtracts and stores, and
the panel that applies a report, perhaps after the agent has given it up.

### RemoteCalls: what the gateway promises

The abstract specification of a call: it ends once, answered or failed; its command
reaches the agent at most once, only while the call is under way, and may be
executed after the call was given up. It knows no sessions, timers or connections.
`NodeGateway!Implements` is this specification under the mapping `Outcome`
(`Contract`), a property of the run `node_gateway` and a theorem.

### ProbeListeners, AutoUpdate, TelegramSettings, TelegramClaims, AdminSessions, LoginRateLimiter

One module for each of the smaller concurrent components. Listeners are objects
with a timer each, so that the timer of one can meet the next one on the same port;
calls the panel gave up on are still executed. A file of the updater is a version,
`Partial` or absent, and every rename may fail or be the last thing the process
does; the Windows script is a process of its own. Entries of the login limiter are
objects with an identity because the code locks them after it took them from the
dictionary; every method works with a clock it read earlier. Claims of notices are
rows that one report inserts and any report deletes by key; each statement of a report
may fail (`StatementFails`) and the panel may stop. A broadcast to browsers
is part of the read loop of a node and waits for each browser in turn.

### MuxSessions, TunnelPool, PhtTunnel

Where connections of the proxy share state. A multiplexing dialer takes its lock
for `Dial` and again for `Handshake`; a route between the two may find its session
replaced. The pool of reverse tunnels is changed by binds, by the goroutine of each
connector, of each tunnel and of the pool. A PHT connection is a stream over lossy
requests: a push is not repeated, a pull that broke off ends the connection. A failed push
leaves the connection open; its `Write` returned an error, after which the relay loops of
the proxy write no more and close.

### Control, ProxyFlow and the Flow modules

Most of the agent is code that opens and closes things. `Control` is a notation for
it: a function is a sequence of instructions such as `Open("cc")`,
`DeferClose("cc")`, `Or("bypass", "", Reply \o Fail)`, built by operators that nest
as Go statements do. `ProxyFlow` gives them their meaning: a stack of calls with
their deferred actions, the open resources and their deadlines, the checks the
current request has passed, whether its client was answered, counters and locks.
An operation that can fail does both. The Flow modules hold one definition per Go
function, preceded by the lines it stands for; conditions on data are `test`
instructions that go either way, so every path of the code is a path of the model
(and some paths of the model, which combine conditions that exclude each other, are
no paths of the code: what holds for all of them holds for the code's). `MCProxy`
lists the entry functions with what the runtime gives each, what it returns to its caller
when it succeeds, what its caller still owns when it fails (the connection a connector was
given, for instance) and which checks a dial of the client's choice needs. No function is
exempt from a property. Where the code does not do what a property says, the one
instruction is marked: `Leak` gives up the last reference to something open, `Unchecked`
goes on to a dial without a lookup, `Silent` leaves a client without an answer. "Limits"
lists all of them; everywhere else the properties hold on every path. A resource is a
name, which stands for everything a loop opens under it.

The sniffer's functions take what differs between their callers as parameters
(`SniffingHTTP(look, dial, serve)`): inside a tunnel that is already open they connect
through it, in the SNI and redirect handlers they dial what the client names, after a
lookup of it. A dial to a target the client names is `Dial`, whatever the connection is
called, and `Guarded` looks at all of them.

`FlowApi` is the REST API in the same notation: objects of the registries, ports,
the lock of the configuration and answers. Every registry operation is a step, and
another request may have taken or freed the name in between.

### Guards, Runtime

They put components that share nothing side by side in one specification; `Init` picks
the one that moves. Each property is the component's own, and every constant of a
component is a constant here, so that what is proved of `Guards` and `Runtime` is
proved for all of them.

## Runs

| run | instance | what it checks | distinct states |
| --- | --- | --- | --- |
| `agent_services` | 2 names, 2 endpoints, both contended, parse faults, crashes; symmetry | `RegisteredHasConfig`, `CleanAgreement`, `FileCurrent`, `CommandEffect`: what the panel may conclude from an answer | 311 307 |
| `agent_services_live` | 2 names, 1 endpoint, parse and disk faults | `CommandsEnd`: every command is answered or lost with the process | 25 812 |
| `node_gateway` | 2 overlapping sessions, 2 calls, database faults | `Implements` (refinement of `RemoteCalls`), `PendingExact`, `AnsweredExecuted`, `TableOwned`, `OneOutcome`, `CallsEnd`, `HandlersEnd` | 255 333 |
| `node_online` | 2 sessions, 1 call, no faults | `ConnectedIsOnline` **is violated** | |
| `forward_control` | 1 forward of a reverse QUIC tunnel, 3 concurrent requests, lost commands and answers, replays, restarts | `RowsAreAcked`, `ManualPauseSticks`, `LifeKept` (refinement of `ForwardLife`) | 1 032 286 |
| `forward_race` | 2 forwards, 2 ports, 2 concurrent requests, direct tunnel, restarts, no lost command | `OnIsServed`: what is on runs, each on its own port, although two creations can pass the check of one port | 349 029 |
| `forward_quota` | direct tunnel, one request at a time, no faults | `OverIsStopped` **is violated** | |
| `traffic_report` | 2 connections, 4 bytes in chunks of 1 or 2, 3 reports, all faults | `NoUnderflow`, `NeverOverbilled`, `Reported` | 186 838 |
| `agent_reporter` | 3 connections | `NotDeaf`, `Reconnects` | 18 627 |
| `guards` | 2 or 3 diagnoses, listeners, loads, reports, browsers, nodes; 3 versions; 1 reset, 1 stop of the panel or failed statement | `ProbesHeld`, `UpdateSafe`, `ClaimIsOneNotice`, `AgentRecovers`, `SettlesOnStored`, `ToldInTheEnd`, `NodesReadOn` | 32 633 |
| `runtime` | 2 login requests, limit 2, 5 time steps; 2 routes, 3 connections; 3 chunks each way; 2 connectors, 2 tunnels | `LoginLimited`, `LockKept`, `NoOrphan`, `InOrder`, `Reachable`, `Settles` | 517 242 |
| `proxy` | 319 entry functions, every outcome of every operation | `Released`, `Guarded`, `Answered`, `NoStaleDeadline` | 25 143 |

Why the bounds are enough: two names and two endpoints allow a service to move, to
swap and to meet another one on its endpoint, and a command to fail on its second
name; two entries per name are one more than the code intends. Two sessions give
every race of a new session with the handler of the one before. Three requests on a forward are a
pause, a report and a reconciliation in any order (a reverse QUIC tunnel is one in which the
node accepts pauses); two forwards and two requests are two creations, or two edits, that
want one port. Three reports allow one applied
late, one given up and one answered. Three connections let a goroutine of the first
meet the third. Two listeners on a port are the one a timer belongs to and the one
it must not close; two entries of a key, of which one has left the dictionary; three
connections of a multiplexing dialer, of which two are in the hands of routes and one
is the session. Three chunks allow one to be lost between two that arrive. In `proxy`
nothing is bounded but the values of conditions: recursion and loops return to
states already seen. `CHECK_DEADLOCK FALSE` is used where the bounds on sessions, calls,
ids, bytes or reports end a behaviour, or where the agent really stops: it cannot
start from a truncated `gost.json`.

### What the violated runs show

* `node_online`: an agent that reconnects before the panel has noticed the loss can
  stay offline in the panel while it is connected, because the old handler compares
  and removes the table entry, and writes the status, in separate steps.
* `forward_quota`: an automatic pause names `_tcp`, `_udp` and `_tls` for every kind of
  tunnel and ignores the answer; in every kind of tunnel that can be created the agent
  refuses the command, and the forward is shown as over its quota while it keeps running. Manual
  pauses and reconciliations name what the node has only in reverse tunnels over QUIC or
  anytls; in the others they fail too (visibly).

### Limits

What the models also show of the code, without a run of its own. The properties are
stated so that they hold beside these.

Panel and agent:

* "syncServices makes configuration replay idempotent" (`service.go:150`): a replay
  that fails to parse unregisters the service and keeps its entry; the next replay
  creates it and appends a second entry, with which the next start fails.
* Pushing a tunnel to a node starts paused forwards again. The answer of a pause can
  be lost: the node is paused and the row says on. A panel that stops between the
  INSERT and AddService leaves a row only the next replay makes true.
* Bytes added between the two halves of `ResetTraffic` are lost, as are those a
  paused or replaced service has not reported yet, and those of a report whose
  database update failed, for `/flow/upload` answers ok all the same.
* A failed AddService leaves the sockets it has bound to the garbage collector; a
  failed ResumeService does not restore the service it failed on; deleting a reverse forward names a service the inner node does not have, so
  the node refuses the whole command; a new port of a forward reaches the node only
  with the next replay; two edits at the same time can save one port in two rows, of which
  the next replay can serve only one; a delete that overlaps the creation of its forward
  can leave the service without a row. A tunnel whose protocol is changed to anytls keeps
  `_udp` services of its forwards that later deletes no longer name. A late read error can make the agent abandon a connection
  without closing it.
* The 10 second timer of a call starts after its frame was written: a peer that stops
  reading blocks the call before.
* A probe listener expires 30 s after its start however many diagnoses use it. A crash
  between the two renames of an update leaves no executable under its name.
* A traffic notice that could not be sent is tried again by the next report, which a
  forward paused at its limit, or without traffic, never makes; one whose claim could not
  be deleted, or whose panel stopped before it was sent, is lost until usage falls.
* `LoadSettingsAsync` can return null when the cache is emptied between its test and
  its use. A login failure that was overtaken by a cleanup is not counted.

Marked `Leak` in the REST API and the configuration (`FlowApi`): the parsed services of a
batch creation that is refused stay bound, although it is documented as "transactional:
all succeed or all fail" (`config_service.go:96`); an object or a service whose name was
taken between the test and `Register`, with its reload goroutine, also when a
configuration is loaded; the port of `ParseService` when the certificate, the handler or
the forwarder cannot be configured; the handle of the original network namespace. Beside
them: `updateServices` fetches the old service again and closes it without a test, so
that a concurrent delete makes it panic (gin answers 500); `registry.Unregister` is three
steps, so concurrent requests for one name can leave an object without an entry; a failed
update or resume of a service leaves its entry without a service.

Marked in the proxy:

* `Leak`: the port of a multiplexed SOCKS5 bind without a session and the peer of a plain
  one that is accepted meanwhile (`FlowSocks`), the pool of a tunnel handler whose entry
  point fails (`FlowTunnel`), the observer of the auto handler, a client of a closed file
  server (`FlowLocal`), a socket of the wrong type for TAP (`FlowNet`), the SSH agent's
  connection and the packet socket of an HTTP/3 dial (`FlowDial`), the packet sockets of
  ICMP, KCP and QUIC listeners that fail, a TUN or TAP device without an interface, a
  serial port nobody accepts (`FlowListen`, `FlowListenMux`);
* `Unchecked`: the streams of a connection that begins with the HTTP/2 preface are dialled
  by their host without the bypass lookup the other requests get, in the forwarder, the
  SNI and the redirect handler (`sniffer.go:235-249`, `forwarder/sniffer.go`,
  `sni/handler.go:135`, `redirect/tcp/handler.go:184`);
* `Silent`: a DNS query that could not be resolved, an HTTP upgrade to the wrong protocol
  or with a body that cannot be written (`HttpUpgrade`, `EntryUpgrade`,
  `ForwardUpgrade`), a response whose rewriting fails (`ForwardResponse`), a SOCKS4 BIND
  or unknown command, a SOCKS5 or relay UDP association without a socket, a probe
  resistance host that cannot be reached (`Http2Authenticate`), an HTTP/3 request without
  a target, an obfs-http handshake that ends early; and Shadowsocks, whose protocol has
  no answers.

Beside them:

* the sniffer of an open tunnel looks nothing up: the bypass was asked about the tunnel's
  target; the SNI and redirect handlers look up the first request's host only, whose
  connection also carries the later ones; the local forwarder calls the sniffer without
  a logger;
* `GetConnector` of a tunnel with one connector ignores the network; the router's
  `DelConnector` changes a slice under the read lock; the default DNS exchanger has a
  name no node selects; the TLS listener shakes hands inside `Accept`; the read
  deadline of a SOCKS5 UDP relay is set once; the deferred reset of the WebSocket
  dialer wipes its first keepalive deadline; obfs-tls reports a long first write as
  written after 16 KB;
* `PhtTunnel`: Close does not tell the server, whose token stays; a Read is not woken
  when the server closes. `MuxSessions`: two routes can replace each other's session
  for ever, and a node is marked as failed for it. `TunnelPool`: a bind that ends
  after the pool was closed leaves a tunnel with its goroutine, and a registration
  with the service discovery can outlive its connector.

### Fairness

* `AgentServices`: weak fairness of the goroutine that executes commands. It has no
  lock to wait for; a crash ends the command.
* `NodeGateway`: weak fairness of handlers, read loops, the timeout of a call
  (`Task.WhenAny` with a delay) and of the transport noticing a dead peer.
* `TrafficReport`: weak fairness of the reporting goroutine, of handlers between the
  two halves of `Stats.Add`, of the panel, and of a request ending with its answer
  or its 5 s timeout; an observer that refused events is offered them again until
  it takes them.
* `AgentReporter`: weak fairness of all goroutines (reads have a deadline) and of the
  finalizer; strong fairness of a successful dial, since the loop dials for ever and
  the panel is assumed to be reachable again and again.
* `ProbeListeners`, `TunnelPool`: weak fairness of timers, tickers and goroutines,
  strong fairness of a bind that waits for the pool's lock. `AutoUpdate`: the service
  manager restarts the agent and the script runs on.
* `TelegramSettings`, `TelegramClaims`: time passes, a save that has begun ends, a report
  under way is served. Nothing makes reports come (there are none without traffic), so
  `ToldInTheEnd` has it as a premise that they do; strong fairness of a successful delivery, for
  Telegram is assumed to be reachable again and again.
* `AdminSessions`: the read loops run, a semaphore that is released again and again is
  obtained, and the transport gives a silent connection up (TCP retransmission,
  keep-alive frames).
* `ProxyFlow`: none; its properties are about what has ended.

## Proofs

All for any sets and bounds, from the assumptions in the modules: the bounds are
naturals, the special values (`None`, `Partial`) differ from the names they are used
beside, what is counted is finite. The login limiter also needs that a lockout outlasts
a window and the time a request takes (`LimitsAssumption`; 15 minutes, 1 minute and
milliseconds in the code), and that there is memory for one entry more than there are
requests. In each case the invariant of the run is not inductive, and the work is in
what has to be added to it.

* `AgentServices_proofs`: `TypeCorrect`, `RegisteredHasConfigAlways`,
  `PauseIsAllOrNothing`, `FileCurrentAlways`, `CleanAgreementAlways`,
  `CommandEffectAlways`, `CommandsShrink`. Types need that
  the names of UpdateService, PauseService and ResumeService that passed the check stay
  registered while the command works on them (`ItemsRegistered`), since they are looked
  up again; the pause theorem needs that nothing has been touched before the check phase
  ends (`PauseUntouched`) and that it cannot fail later, which rests on
  `RegisteredHasConfig`. `FileCurrent` holds from the write of the file until the next
  command (`FileInv`). `CleanAgreement` is about the time between commands; `CleanItems`
  says of each name what a command that has done half of its work may have left of it:
  parsed and holding its endpoint but not registered, for instance.
  `CommandEffect` is an action property of the step that decides the answer.
  `CommandProgress` carries what it needs through the command: a name not yet handled is
  as it was when the command arrived (`Untouched`), a handled one is where the loop of its
  command leaves it (`Midway`), the two never overlap. Other processes, finalizers and the endpoints that
  another name of the same command has just bound are what makes it more than bookkeeping.
  `CommandsShrink` gives a measure (`Remaining`) that every step of the goroutine decreases
  and that no command starts above `MaxBatch + 5`: the part of `CommandsEnd` that is safety,
  for any sets of names (which must be finite, `FiniteAssumption`).
* `NodeGateway_proofs`: `TypeCorrect`, `PendingExactAlways`, `AnsweredExecutedAlways`,
  `TableOwnedAlways`, `OneOutcomeAlways`, `ImplementsAlways`. `PendingExact` and `TableOwned` are
  inductive with the types; `AnsweredExecuted` needs that every answer on its way is of an
  executed command (`RepliesExecuted`); `OneOutcome` follows from `PendingExact`,
  because a call that has ended is not in the table an answer looks into.
  `ImplementsAlways` is the refinement of `RemoteCalls`: every step of a session, a call
  or the agent is a step of the contract or a stutter (`ContractStep`, from `StepCases`
  and `OutcomeMoves`). It needs that the command of a call that has not been sent is
  nowhere at the agent (`Unsent`, kept by `UnsentKept`), or sending it would not be the
  first time.
* `ForwardControl_proofs`: `TypeCorrect`, `RowsAreAckedAlways`, `ManualPauseSticksAlways`
  for any number of concurrent requests, lost commands, replays and restarts. `TypeInv`
  says more than types: at each await a request has the row, the port and the list its
  next statement needs, and identifiers are not used again, so a creation that fails
  deletes its own row. `ManualPauseSticks` is an action property: every write of the
  status by a report or a reconciliation is conditional on the status it replaces.
  `LifeKeptAlways` is the refinement of `ForwardLife`, with nothing assumed about overlap,
  losses or restarts: `LifeStep` goes through the actions (`AskSteps`, `CreateLife`,
  `DeleteLife`, `ChangeStatusLife`, `QuotaLife`, `QuietSteps`), each of which moves one
  forward or one wish (`LifeMoves`, `WishMoves`) or neither. It rests on `TypeInv`: an
  identifier that was given and has no row is gone for good, and a creation past its
  INSERT cannot be aborted.
  `OnIsServedAlways` is for direct and relay tunnels, whose entry node binds the ports
  (the inner node of a reverse tunnel accepts a service whose port is taken elsewhere),
  without lost commands and replays, which can each part rows and services, and for any
  number of concurrent requests and restarts of the agent. The port check does not carry
  it, for any number of creations can pass it together; `ServeInv` says what does: the
  node refuses a port that is held and the creation then deletes its own row, nobody
  else's commands stop a service of such a tunnel (they name services it does not have),
  and services that are not running are not there at all, so that a restart finds no two
  of them on one port.
  `DeleteClearsAlways` is about a delete that has the tunnel to itself (`OneRequest`, since
  a creation that overlaps it can add the service after it), for every kind but "reverse",
  without lost commands and restarts of the agent. No run checks it.
* `TrafficReport_proofs`: `TypeCorrect`, `UnderflowNever`, `OverbilledNever`. The
  invariant is a balance: what is billed and what is in the counter never
  exceed what was carried, what is in doubt and, while a report that has been
  applied is not yet subtracted, that report.
* `AgentReporter_proofs`: `NotDeafAlways`, `ConnectedHasConnAlways`. `Serving` says how
  `conn`, `connected` and the position of the loop hang together; with it, a reader ends only when
  `connected` is, or gets, cleared.
* `Runtime_proofs` and `Guards_proofs`: one invariant per component, and `Steps`: a step
  of the composition is a step of the component or leaves it alone.
  * `NoOrphanAlways`: a route that dials holds the lock and there is no session it could
    overwrite (`MuxDialing`), and a session that is not multiplexed yet is in the hands
    of a route (`MuxYoung`), so the one that Dial drops is closed or will be.
  * `ReachableAlways`: inductive with the types.
  * `LockKeptAlways` needs only that the clock a request has read is not ahead of the
    clock. `LoginLimitedAlways` needs to count: `LoginInFlight` are the requests that may
    still add a failure to an entry without asking it, and beyond the limit every failure
    has used one of them up (`LoginBounded`); no request joins them, because the lockout
    outlasts the window (`LoginWindows`). `LoginOvertaken` follows an entry that left the
    dictionary while a request had it.
  * `InOrderAlways`: what the reader has, what waits for it and what is in the answer
    under way count on from each other (`PhtDown`), and at most the last push is one of
    which the client cannot know whether it was taken (`PhtUp`).
  * `ProbesHeldAlways`: the references cover the diagnoses that ping *and* those whose
    stop is on its way (`Holding`), or a stop would take another's. That needs that a
    diagnosis never has two commands on their way, nor one of an earlier call it could
    take for the answer to its own (`ProbeOrder`).
  * `UpdateSafeAlways`: what is on the disk at each place of an installation
    (`UpdInstalling`) and after a kill (`UpdStopped`: a file to start that is not older
    than any that ran, or the backup alone).
  * `ClaimIsOneNoticeAlways`: only a report that is about to send, or could not, owns a
    claim (`ClaimOwned`); each step moves the one claim between its owner, the notices
    sent and the orphans.

Only model-checked: the liveness properties (`CommandsEnd`, `CallsEnd`, `HandlersEnd`,
`Reported`, `Reconnects`, `AgentRecovers`, `SettlesOnStored`, `ToldInTheEnd`,
`NodesReadOn`, `Settles`), for liveness under fairness is out of the prover's reach; and
the four properties of `proxy`, which are about particular programs and have no
parameter to generalise: TLC visits all their states.

## Not modelled

Route and node selection, limiters, resolvers, recorders, plugins and matchers of the
proxy, its codecs and the parsing of command lines and configurations: functions on
strings, addresses and rates, whose results are choices in the models. What is
relayed, the statistics and the contents of requests. Database access and schema,
cryptography and authentication, XUI integration, speed limit rows, the empty
periodic worker, the web frontend, port ranges: no state machine of their own.
`PROJECT.json` gives the reason for each, and names what is left out of the parts that
are modelled partly.

## Plan

Done, in the order of importance: `AgentServices`, `NodeGateway`, `ForwardControl`,
`TrafficReport`, `AgentReporter` with their proofs; the guards and the shared state of the
proxy with theirs; the refinements of `RemoteCalls` and `ForwardLife`; the proxy's control
flow and the REST API. Every safety invariant and action property that a run finds to hold,
except those of `proxy`, is a theorem; `OnIsServed` has the hypotheses its run has. Left open:

1. `ForwardControl`: restarts of the panel between two statements of a request.
2. Concurrent requests for one name at the registries of the REST API.
3. Two goroutines of the agent that execute commands at the same time (`AgentReporter` shows
   when there are two), on the state of `AgentServices`.

## How to run

    tlc -workers 2 -config MCAgentServices.cfg MCAgentServices
    tlapm AgentServices_proofs.tla

`PROJECT.json` lists the module and configuration of every run. A definition
preceded by `\* Mutant:` is a plausible mistake in the definition that follows it;
replacing the body by it makes the named property fail.
