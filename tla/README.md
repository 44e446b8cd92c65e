# A TLA+ model of sni-spoof-gui

The program opens TCP connections through which a fake TLS ClientHello has been
sent before the first byte of application data. It captures its own handshakes
with WinDivert, injects one out-of-window record into each, keeps a pool of
connections prepared this way, and relays local clients over them.

This directory holds TLA+ modules of its stateful parts, TLC configurations
that check small instances, and proofs TLAPS checks for every instance. File
names below are relative to `src/`.

## 1. The system

| Part | Files | State | Operations |
|---|---|---|---|
| spoof engine | `internal/spoof/engine.go`, `dialer.go` | handle, flow table by source port, one flow object per dial attempt, port cursor, `ActiveFlows` | `Start`, `Close`, `DialToPort`/`dialOnce`, `captureLoop`/`dispatch`, `injectAfterDelay` |
| packet codec | `internal/spoof/packet.go`, `clienthello.go` | none | parse, marshal, checksum, build the record |
| tunnel | `internal/tunnel/tunnel.go` | running flag, listener, context, wait group, engine, pool | `Start`, `Stop`, `acceptLoop`, `handle`, the gated dial function |
| router | `internal/tunnel/router.go` | index, streak of failures, time of the last move | `current`, `success`, `failure` |
| pool | `internal/pool/pool.go` | channel of idle entries, one-slot fill signal, context | `New`, `Get`, `Close`, `fillLoop`, `reapLoop` |
| relay | `internal/relay/relay.go` | two copy goroutines per session | `Pipe` |
| embedded client | `internal/xray/*.go`, `app_client.go` | process-wide dialer slot, resolver cache, instance | `Install`/restore, `Dial`, `LookupIPv4`, `Forget`, `Start`, `Close` |
| application | `app.go`, `app_auto.go` | `cfg`, `tun`, `client`, `store`, last totals, log ring | `Start`, `Stop`, `shutdown`, `SaveConfig`, `snapshot` |
| system proxy | `app_sysproxy.go`, `internal/sysproxy` | `proxySet`, `proxyPrev`, the Windows setting | `SetSystemProxy`, `clearSystemProxy` |
| scans | `app_scan.go`, `internal/scanner` | the running scan's cancel function, engines of scans | `ScanIPs`, `ProbeSNIs`, `CancelScan` |
| settings, profiles | `internal/config`, `internal/profiles`, `app_profiles.go` | memory and file | load, save, add, remove, select, rename |
| share links | `internal/share` | none | `ParseLink`, `Validate`, `Outbound` |
| the rest | `netutil`, `autostart`, `tray.go`, `main.go`, `cmd/`, `frontend/` | none of interest | system calls, display |

How they interact. The tunnel builds a router, an engine and a pool. Both the
pool's filler and a handler that misses the pool call the same gated dial
function; it reads the router's route, calls the engine's `DialTo`, and reports
success or failure to the router. `DialTo` runs in the caller's goroutine, shares the flow table
with the capture goroutine, and waits for the flow to be resolved by the
capture goroutine, by the goroutine that injects the record, by `Close`, or by a
timer. The frontend calls the application's methods concurrently; they share
state under one mutex taken in short sections.

What is hard. Goroutines interleave at every lock and channel; packets are lost,
repeated, reordered and late; timers race answers; `Close` and `Stop` run in the
middle of everything; ports and slots run out. `PROJECT.json` lists the hazards
with the line where each bites and the properties that would catch it.

What makes each part correct:

- engine: a returned connection had its own record injected, once; a flow has one
  outcome; a port has one flow; nobody waits for ever; captured packets are
  passed on.
- router: a dead route is left, whenever it dies; a route is only blamed
  for its own failures.
- pool: every connection has one owner until it is closed; the pool fills up again.
- relay: nothing is cut off because the other direction ended.
- tunnel: the engine outlives its dials; every client is answered; `Stop` returns.
- application: everything opened has one owner who will close it, in order;
  one engine at a time in ordinary use.
- embedded client: no dial that should be spoofed goes out plain; no stale address.
- system proxy: the user's own setting comes back, and before the inbound goes.
- settings, profiles: the files stay readable and say what memory says;
  one list, with a selection that exists.
- scans: only proven edges are adopted; no source port is shared with the tunnel.
- share links: what the import warns about is what a connect refuses, and what passes is
  what xray runs.

## 2. The modules

| Module | Models | Notes |
|---|---|---|
| `SpoofEngine` | the engine with its environment | one action per dial step, capture handler, injection step, open and close step, and network event |
| `SpoofDial`, `SpoofDialRefinement` | abstract: what a caller of `Dial` is promised, and the mapping of the engine onto it | `ImplementsSpoofDial` |
| `Router` | `router.go` | |
| `Upstream` | the gate and the dial closure of `Tunnel.Start` | extends `Router` |
| `Pool` | `pool.go` | extends `Upstream`, which it calls |
| `Relay` | `relay.go` | |
| `Tunnel` | `tunnel.go`: Start, accept, handlers, Stop | composes `Pool` and `Relay` |
| `Handlers` | the constant `Upstream` and `Relay` share | |
| `Sessions` | what a connect builds: engine, tunnel or xray instance, xray's dialer slot | `app_client.go`, `xray/instance.go`, `xray/dialer.go` |
| `SystemProxy` | the Windows setting and what the application remembers of it | `app_sysproxy.go`, `sysproxy.go` |
| `App` | Start, Stop, SetSystemProxy, the scans as concurrent calls | composes the two above |
| `SafeFile` | saving through a temporary file | instantiated by the next two |
| `Settings` | `cfg` in memory and in `config.json` | `app.go`, `app_scan.go`, `app_auto.go`, `config.go` |
| `Profiles` | the list of configurations and its file | `store.go`, `app_profiles.go` |
| `Scanner` | ScanIPs and the choice of auto mode | `scanner.go`, `app_auto.go` |
| `ClientDial` | dials and lookups of the embedded client | `xray/dialer.go`, `resolver.go`, `doh.go` |
| `ShareLinks` | from a link to an outbound | `share/parse.go`, `outbound.go` |
| `Ports` | the port range and the window beside it | `app_scan.go`, `config.go` |
| `*Proofs` (8) | theorems and proofs | section 5 |
| `MC*` (6) | model values; two of them compose | below |

**SpoofEngine.** `pc[d]` is the position of a dial in `DialToPort`/`dialOnce`:
`ready` is the head of the retry loop, `register` follows `ports.take`, `connect`
is inside `DialContext`, `wait` is the `select` on the flow, and the `leave_*`
values stand before `unregister` (explicit or deferred). `register` and `unregister` are as many steps
as the code has: the table changes under `e.mu`, the counter after the unlock (`count`,
`uncount_*`), and the flow that was taken out (`removed[d]`) is finished last (`finish_*`). `flow[<<d, k>>]` is the flow object of attempt `k`;
its fields are the ones of the Go struct, `inj` is the goroutine `injectAfterDelay`.
`hand` is the packet between `dispatch` and its re-injection. A sequence number is represented
by the connection it belongs to, so "`ack == synSeq+1` and `seq == synAckSeq+1`"
is "both numbers are this connection's". The environment is the
Windows stack (`kernel`, KernelSYN, KernelReceive), the WinDivert
queue, the network (`wire`, a set: reordering is free, a repeated packet is a
repeated send) and the edges (`peer`). `Faults` selects what it may do:

| Fault | Meaning |
|---|---|
| loss | packets in flight may vanish |
| retransmit | SYN and SYN-ACK may be repeated |
| reset | the edge or a middlebox resets |
| cancel | the caller's context may end at any time |
| inuse | the bind or connect finds the port taken |
| send, recv | WinDivert calls may fail |
| early | timers may fire while packets are still moving |
| close | `Close` is called |

**Upstream, Pool, Tunnel.** `Conns` are names of open connections, reused after
they are closed; there are enough of them when there is one per handler, filler,
reaper and place in the pool. `conn[c] = "bad"` means that `entry.usable` would
return false. A dial in `Upstream` is the outcome of the engine's `DialTo`:
success on an edge in `Live` (or failure, if `Flaky`), failure elsewhere. A
dial whose context has ended may fail as well. `streak` records which
route each counted failure belongs to; the code has only its length. With
`transport.spoof` off there is no engine and the same dial function without it;
nothing else differs.

**Relay.** Per session the sources still being copied, what each peer did, and
whether it has data nobody read. A write that blocks because its reader is slow is not
modelled.

**Sessions, SystemProxy, App.** A member of `Callers` is a goroutine in which the window or the tray
makes one call after the other. `call[c].at` is its position, and one step is what it does between two
points where it gives up `a.mu` or waits, so that calls interleave exactly where the code lets
them. `call[c].run` is the session (engine and what is built on it) that the call has
in a local variable: between `Build` and `Publish`, or between taking it out of
`a.client` or `a.tun` and closing it. `Start` reads both and decides; everything
up to `Publish` happens without the lock, as in `app.go:192-260`. `address` is one value for the listener
and the two inbounds of the settings; `Build` reads it again after the search for a route, as the code
does. `PortsFree` is the bind of the listeners, which fails for the second of two sessions of one shape
and address. `slot` is xray's process-wide dialer;
`Restore` empties it whoever is in it, as the code does. `windows`, `proxySet`
and `proxyPrev` are the registry value and the two fields. `RegistryFails` selects
which of the registry calls may fail; that one call writes half of its three values is left out.
`Save` is what `SaveConfig` replaces of the settings read here: the shape of the next connect and
its ports, at any time. The rest of `SaveConfig` is `Settings`. Three variables are history: `moved` records that a save changed
the ports while a `Start` was under way, `crossed` that two calls have been under way at once, `tangled` that two have been
in the proxy's code at once.

**SafeFile, Settings, Profiles.** `SafeFile` has the three calls of a save, each of which
may fail, with Windows' rules for a file that another saver holds open, and the
death of the process between any two. `Settings` instantiates it for `config.json`
(two fields stand for all), `Profiles` for the list. Reading may fail too: a file that is there and cannot be read
leaves the defaults, or an empty list, in memory, as if there were none, and the next save
replaces it. `cfgUnread` and `listUnread` record that, until a save has replaced the file. A call on the list is `loadProfiles` (the file is read
without the lock, the first store kept), the change under the lock, and the save, which encodes
the list without the lock in two steps. The history variables `overlap` and `crossed` record that two changes
have been under way at once; the code guards against none of this, and the
properties that need calls in turn say so.

**Scanner.** `worker[c]` is the goroutine of candidate `c` in the phase `scan`;
a slot and the end of the context race as in its `select`. Latencies are small
numbers, so that ties, which `sort.Slice` may order at will, occur. A sort is the set of
orders it may leave (`Orders`, `ByProof`), not an algorithm.

**ClientDial.** The clock counts, and an address is the moment at which the name had it: `FreshAnswer`
can then say how old an answer is. `dial[d].at` runs through `Dial`, the
lookup with its two resolvers, `store`, and the engine or the ordinary dialer.

**ShareLinks, Ports.** Operators on the parameters that decide whether xray runs
an outbound, and on a port range, with the little state that uses them. `headerType` has the
values the code tells apart and one more (`srtp`), which the parser keeps like any other. An engine of a scan has the computed
window, that of `ProbeSNIs` the default range of `spoof.Config`.

**MCAppParts** is the disjoint union of the six last parts, which share no state, and of a `Relay` by itself: the
initial state chooses one (`part`), and only that one moves. **MCEngineCalm**
does the same for two configurations of the engine. The other MC modules declare model values.

## 3. The runs

Bounds: `Span` ports, `MaxAttempts` attempts, `MaxQueue` packets in the driver's queue,
`Slots` in the gate, `Size` places in the pool, `MaxTime` ticks of the resolver's clock. Nothing else is
bounded: the models are finite because names of connections and sessions are reused and
sequence numbers are identities.

| Run | Question | Bounds, and why they are enough |
|---|---|---|
| EngineCalm | Without faults, does every dial succeed in every interleaving, in fast mode with any edge and in safe mode with one? | 2 dials, 2 ports: capture, injection and both dialers overlap; a queue of 4, two packets per dial, the least the theorem asks for |
| EngineReuse | Do the table, its counter and the refinement survive reuse of a port, cancellation, collisions, Close? | 2 dials, 1 port, 2 attempts: every dial can meet the other's flow, also on its retry |
| EngineSafe | One record, one outcome, progress, under loss, retransmission, resets, failing sends, early timers, Close | 1 dial, 1 attempt: the properties are about one flow |
| TunnelQueue | Are connections owned, the engine closed last, clients served or turned away although they queue at the gate, does Stop finish? | 1 handler, 1 place, 1 slot: handler, filler, reaper and Stop all contend for the same place and slot, and each dial waits for the other's; dials fail, entries expire in the hands of `Get`, relays finish and break (what they carry is left to AppParts) |
| TunnelRoutes | Is a dead route left, whenever it dies, and the pool refilled? | 2 routes, both alive at first and dials of either outcome: a route dies when its dials succeed no more. 2 slots and a threshold of 2, so that the dials under way at a move are enough to move the route back, and successes of the old route to clear the streak. `PeerEvents` is empty: a client that is served keeps its connection, one that is not comes again |
| AppLifecycle | Is everything opened owned, used and closed in order? Until calls overlap: does the client dial through its own engine, is there one engine, is the proxy setting given back first? | 2 callers, so that any two calls overlap at any step; 3 sessions: one published and one in the hands of each caller; 2 addresses, which a save may change at any time; reading and writing the registry may fail |
| AppParts | The properties of the parts that share no state | Settings and list: 2 editors, 2 users, 2 links: two savers share a temporary file, two readers race; the program may die anywhere. Every file call may fail; for the list only reads and writes, since `SafeFile` is the same and `Settings` lets all of them fail. Scan: 4 candidates, 2 latencies, 2 slots, 3 verified, 2 kept, so that slots run out, ties occur, and each cut-off leaves somebody out. Client: 2 dials, a time to live of 2 within 3 ticks, so that lookups overtake each other and entries expire. All combinations of link parameters. 6 ports, 1 reserved, a window of 2: it fits above, only below, or not at all; a default range of 2. One relay with every event of its peers |
| EngineSafeAnyEdge | *violation* safe mode with more than one edge | |
| EnginePortReuse | *violation* late packets of an abandoned dial | |
| TunnelStop | *violation* Stop without the peers' help | |
| TunnelBlame | *violation* a late failure held against the new route | |
| AppDialer | *violation* a failing Start takes the dialer of a running client | |

The runs of `App` check for deadlock: a caller can always call again. The
other runs do not, for there the system may stop: dials have returned, the
tunnel is off, a scan is over.

`AppParts` permutes editors, users and links (`Symmetry`). Its one property under fairness, `SearchEnds`, is about the search,
in whose behaviours nothing is permuted.

Every property is also run against a mutant of the code, an operator that stands
just before the definition it replaces (`StopKeepsProxy` for `StopProxy`, and so on).

### Fairness

- Engine (`FairSpec`): the goroutines of each dial, the capture loop, the
  injecting goroutines and the end of `Close` run when they can; timers fire;
  what is on the wire arrives or is lost. The Go scheduler and the timers give this.
  Nothing is assumed of faults or of `Start`.
- Tunnel (`FairSpec`): the same for handlers, dials (each ends by its
  timeout), the two loops of the pool and the last steps of `Stop`; who waits at the gate is served
  some time (Go's channels queue their senders). Strong
  fairness only for the exits of the two loops: a `select` that finds `ctx.Done`
  ready again and again picks it at some time, since Go chooses at random.
- `PeersFairSpec` adds that the peers of a relay finish sooner or later. The code does not
  provide this; the run TunnelStop shows that `Stop` depends on it. TunnelQueue assumes it for `StopCompletes`;
  `EveryClientAnswered` does not need it, for no client waits for a relay.
- App: no fairness. That its calls return is not claimed: each of their waits is a call of another
  part, and one of them, `Tunnel.Stop`, may wait for ever (TunnelStop).
- Scan: the workers and the sorting go on (dials and handshakes have deadlines).
  `Cancel` is not fair: the search ends without it.

### Premises

Some properties hold only where the code's callers behave, and say so:

- `EntriesKeep` (`EveryClientAnswered`, `StopCompletes`): while a `Get` is at its loop for ever, warm entries do
  not go bad one after the other for ever. The loop does not
  look at its context; without the premise the model has a behaviour in which a
  handler meets only bad ones. Entries may expire and be discarded all the same. `EntriesExpire` (`DeadRouteLeft`,
  `PoolRefills`): no entry outlives its TTL. `Runs`: nobody calls `Stop`. `Dead(e)`: from some
  time on no dial to `e` succeeds.
- `Works(e)` (`PoolRefills`): from some time on no dial to `e` fails.
- `~moved` (`OneOwner`): no save changes the ports while a `Start` is between its check and its assignment. Only
  the ports keep two overlapping calls of `Start` apart: each looks at `a.tun` and `a.client` before the search and sets one
  of them at its end (`app.go:250`, `app_client.go:140`). When the user saves other ports in between, both get their
  server up, and the second replaces the first in `a.tun` or `a.client`: its engine and its listener stay open,
  and no `Stop` finds them. The model has these behaviours (it reaches a session that serves and that nothing refers to), and `OneOwner` excepts them.
- `~crossed` (`DialerKept`, `OneEngine`, `ProxyGoesFirst`): no two calls have overlapped. The
  window disables its own button while a call of it runs (`busy` in `frontend/src`); the tray's entries and the
  other pages know nothing of that. `OneOwner`, `EngineOutlivesUse` and `TypeOK` hold without it.
- `~tangled` (`ProxyGivenBack`): no two calls have been in the proxy's code at once, since `SetSystemProxy` captures
  the previous setting without the lock. The run does not let `Restore` fail: then the setting stays ours
  and `proxySet` is false, by `app_sysproxy.go:81-93`.
- `~overlap` (`FileReadable`, `SavedIsUsed`) and `~crossed` (`ListKept`): changes to one file
  do not overlap; two savers share one temporary name. `OneStore` and `SelectionExists` do not need it.
- `~cfgUnread` (`SavedIsUsed`), `~listUnread` (`ListKept`): the file could be read when it was taken into memory. When
  `ReadFile` fails on a good file (`config.go:250`, `app_profiles.go:62`), the program goes on with defaults or an empty
  list, and what was saved is lost with the next save.
- `OddDisguise` (`AccountsAgree`): a raw link with a headerType other than none and http is the exception. `Validate`, which is
  to report what would stop xray from starting, looks at `headerType` for mKCP only: such a link is imported without a word and
  accepted, and the outbound (`internal/share/outbound.go:266`) asks the raw transport for a header xray does not know.
- `~probing` (`NoSharedPort`): the scan computes a window. All do but `ProbeSNIs`, whose engines (`internal/scanner/scanner.go:336`)
  are given no range and take the defaults, 45000 to 54999, which are also those of the settings: a probe beside a tunnel with
  those captures its packets and hands out its ports. And the scan is compared with a connection begun with the same range.

## 4. Findings

1. **EngineSafeAnyEdge.** `buildFilter` (`internal/spoof/engine.go:139`) returns the
   AnyEdge expression, which matches SYN packets only, before it looks at the mode. With
   more than one edge (`internal/tunnel/tunnel.go:136`) or in the embedded client, safe
   mode never sees an acknowledgement and every dial ends in the 3 s timeout.
2. **EnginePortReuse.** `dispatch` knows a flow by its local port only. After a
   cancelled dial, its late SYN and SYN-ACK arm the next dial on that port with foreign
   numbers; `Dial` returns a connection that was not primed.
3. **TunnelStop.** The comment on `Stop` says relays are cut. Nothing cuts them: `Pipe` has
   no context, and `Stop` waits for the handlers with `t.mu` held, which also
   blocks `Running`.
4. **TunnelBlame.** The settle window is 2 s, a dial may take 15 s: a dial to the
   old route that fails after the window counts against the new route.
5. **AppDialer.** `Start` decides that nothing runs long before it publishes. When the window
   and the tray both start a client, the second core fails on the taken ports, and its
   restore function (`internal/xray/dialer.go:253`) empties the process-wide slot in which the
   first client's dialer is by now: that client goes on without spoofing.

Four more places where the code does less than one might expect are in the models and excepted by name, in the premises
above: sessions overwritten when ports move (`moved`), files that cannot be read (`cfgUnread`, `listUnread`), odd disguises
(`OddDisguise`), and the ports of `ProbeSNIs` (`probing`).

## 5. What is proved

Each theorem holds for every value of the constants, under the assumptions named in the
modules, which say no more than that names differ, sets of candidates are finite and numbers are in range; TLC
evaluates them on every run.

**SpoofEngineProofs**, for all numbers of dials, ports and attempts, both modes,
both filters, every set of faults (`DialsAssumption`, `NumbersAssumption`,
`ModeAssumption`, `FaultsAssumption`, `PacketsAssumption`).

- `TypeCorrect`: `TypeOK`.
- `OneRecordCorrect`, `OutcomeFixedCorrect`, `PrimedReturnCorrect` rest on
  `IInv` = `TypeOK /\ Attempting /\ FlowsOK /\ Returned`. `FlowsOK` relates the fields of one flow to each
  other: `sent` is at most 1 and positive only once the injecting goroutine has ended,
  `fake` is set from the moment it is armed, and a flow resolved well has both numbers and its record.
  `Returned` says a dial about to return successfully has such a flow, and
  `Attempting` that a working dial counts at least one attempt, so that its flow exists.
  Neither property is inductive: `OneRecord` needs to know that a second SYN-ACK finds `synack` set.
- `PortOwnershipCorrect`, `OrphansResolvedCorrect` rest on `PInv` = `TypeOK /\ Attempting /\ RemovedInUse /\
  PortOwnership /\ OrphansResolved`: `Unregister` deletes by port number, and only ownership says that the entry it
  deletes is its own. A flow that was taken out and is not finished yet is an orphan that its dial will resolve; `RemovedInUse` says
  which dials have one.
- `ActiveFlowsExactCorrect`: the counter equals the size of the table when no dial is between an unlock
  and the change that follows it. What is inductive is `CountInv`, which adds the dials that have yet to count up and those that have yet
  to count down; after `Close`, which empties the table without the counter, the counter only exceeds it.
- `NoDialFailsCorrect` assumes what the run EngineCalm instantiates (`Calm`): no faults, fast mode or an expression that
  passes acknowledgements, a port for every dial, and room in the driver's queue for two packets of each.
  Its invariant `CalmInv` follows the packets. Those of a dial form two threads, the
  handshake (SYN, SYN-ACK, ACK) and the record with its answer; of each thread there is at most one packet, in one
  place (`OneEach`), so the queue never overflows. `Placed` says
  what a packet in the queue, in the capture loop's hand or on the wire means for its dial, and
  `Stage` the converse: a dial that waits has a packet on its way that ends the wait. `PortsApart` says the
  cursor has not come round to a port in use: a port is younger than the number of dials begun.
- `EngineImplementsSpoofDial`: every step of the engine is a step of `SpoofDial` or a stutter.
  `RInv` adds that a dial that has not started has no injection under way on any of its flows.

**TunnelProofs**, for any handlers, edges, slots, connections and places
(`RouterAssumption`, `UpstreamAssumption`, `PoolAssumption`).

- `TypeCorrect`, `OneHolderCorrect`, `EngineOutlivesDialsCorrect` rest on `IInv` =
  `TypeOK /\ Coupled /\ Phased /\ Apart /\ Owned`. `OneHolder` counts the holders of a connection; what is
  inductive is that a connection is open exactly if it is somewhere (`Owned`), that no two places have the same
  (`Apart`, with the entries of the channel pairwise different), and `Coupled`: whether a
  goroutine has a connection in hand can be read off its position. `Phased` says what is left of the tunnel at each
  point of `Stop`, from which the theorem on the engine follows: when it is
  closed there is no place left.
- `NothingTruncatedCorrect` rests on `Passed`: a direction that has ended has
  passed on everything, unless a connection is broken.

**AppProofs**, for any finite set of callers, any sessions (`CallersAssumption`,
`SessionsAssumption`, `RegistryAssumption`).

- `TypeCorrect`, `EngineOutlivesUseCorrect` rest on `IInv`: what `a.tun`, `a.client` or a call refers to exists
  (`Reachable`), no two of them refer to the same session (`Apart`), `Shaped` says
  for each position what the session in hand is like, and no two sessions serve with one shape and address (`OnePerAddress`).
- `OneOwnerCorrect` adds `Unmoved`: as long as no save has moved the ports under a `Start`, no session is out of reach
  (`Lost` is empty), and while a `Start` is under way every session that is up or to be published has the address of the
  settings (`Settled`). So whatever `Publish` would replace serves with the same ports as the session to be published,
  which `OnePerAddress` excludes. One lemma for each action says that nothing but `Publish` loses a session (`Kept`).
- `DialerKeptCorrect`, `OneEngineCorrect` add `Turns`: until two calls overlap there is one at a time (`Alone`), and `InTurn` holds: as long as a call has a session in hand nothing is published, at most one of `a.tun` and `a.client`
  is ever set, and the slot belongs to the client that is published or about to be.
- `ProxyGivenBackCorrect`, `ProxyGoesFirstCorrect` assume besides that
  `Restore` does not fail; they rest on `ProxyInOrder` (where the setting is while one call handles it), which holds until `tangled` is set (`Handled`),
  and `FlagTaken` (a disconnect has taken the flag), which holds until `crossed` is (`Goes`).

**SettingsProofs** (`SettingsAssumption`): `FileReadableCorrect`, `SavedIsUsedCorrect` for any editors and failures, of reads too.
While changes take turns, whoever saves, saves what is in memory, and has the temporary file to itself (`InOrder`). What a start
that could not read the file leaves behind is excepted until a save replaces the file (`AllSaved`).

**ProfilesProofs** (`ProfilesAssumption`), for any users, links and failures.

- `OneStoreCorrect`, because `a.store` is set once.
- `SelectionExistsCorrect`: one lemma for each of `Add`, `Remove` and `Select` on any list; that `Remove`
  keeps it free of repetitions is a fact about `SubSeq` (`Without` cuts out the first match, as the Go slice expression
  does). The invariant says that every list is one without repetition, in memory, in the file and in a saver's hands.
- `ListKeptCorrect`: while calls take turns, at most one user is past the idle position or saving, whoever encodes
  the list has what is in memory, and one that has saved without error has left it in the file (`Kept`, unless the file
  could not be read). A step that makes two calls overlap sets `crossed`, after which nothing is claimed.

**ClientDialProofs** (`ClientDialAssumption`): `FreshAnswerCorrect`, because an entry expires a time to live after
the lookup began that brought it (`Ages`); `NeverQuietlyPlainCorrect`, because only a failed lookup leads to the ordinary dialer.

**ShareLinksProofs**: `AccountsAlwaysAgree`, from two lemmas on all links: the notes match `Validate`, and what
passes it gives an outbound xray runs, if a raw link's disguise is one that xray has.

**ScanProofs** (`ScannerAssumption`, `PortsAssumption`), for any finite set of candidates.

- `WorkersKeptCorrect`: by the cardinality of `Running`; a phase begins with no worker running, since `wg.Wait` ended the last.
- `AdoptsOnlyProvenCorrect`: the list is an order of what answered, without repetition and sorted; after `Rank` the
  verified come first (`ProvenFirst`), so the k-th proven place is place k, and there are as many as verified candidates.
- `NeverSharedPort`, from what `scanPortRange` returns for every valid range; it is about the scans that call it.

Every safety property and action property of a passing run is proved, and so is the refinement. Only
model-checked is liveness: `EveryDialReturns`, `CloseCompletes`, `CaptureServes`, `DeadRouteLeft`,
`PoolRefills`, `EveryClientAnswered`, `StopCompletes`, `SearchEnds`; they need ENABLED and
fairness, which the provers here do not handle.

## 6. Not modelled

- Packet codec (`packet.go`, `clienthello.go`): functions on bytes. The arithmetic modulo 2^32 on
  sequence numbers goes with it, for the model identifies numbers with connections.
- `ProbeSNIs` and `CheckDomain` beyond the engine they hold and its ports: a loop of independent
  handshakes, one engine after the other. The sampling of address ranges is random data.
- `snapshot`, the log ring and the counters: they feed the display and decide nothing.
- `Config.Validate` beyond the port range, and the xray configuration beyond what
  decides whether it starts: checks and data without state.
- A registry write that fails between two of its three values.
- Host integration (`netutil`, `autostart`, tray, elevation), the command line tools and the frontend:
  system calls and display without interleavings of their own.

## 7. What could follow

An abstract tunnel (a client is answered by a fresh prepared connection or turned away)
with the refinement;
overlapping saves with a temporary name of their own, as a design to compare with.
