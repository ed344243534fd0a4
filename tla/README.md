# TLA+ specifications of the overlay network's servers and client

The repository implements a WireGuard overlay network. Clients receive their
configuration from a *management* server, find each other through a *signal*
server and fall back to a *relay* server when no direct path exists. This
directory holds TLA+ models of the concurrent parts of that code, TLC
configurations that check them on small instances, and proofs that TLAPS checks
for every instance.

Run a model with `tlc -config X.cfg MCModule`, a proof module with
`tlapm ModuleProofs.tla`. `PROJECT.json` lists the runs, the source lines behind
every definition, the mutants that show that each property can fail, the
findings, the hazards and the theorems.

## Inventory

### Parts that are modelled

| Part | Sources | State | Operations | What is hard | Correct when |
|---|---|---|---|---|---|
| Relay server | `relay/server`, `relay/server/store` | sharded store of connections, listeners with interest maps and bounded event channels, five kinds of lock | Accept, Work, subscribe, unsubscribe, Shutdown | three goroutines per connection, events published under locks, a reconnect overtaking the teardown of the old connection | subscribers hear of every arrival and departure, one open connection per peer, Shutdown is complete |
| Signal server | `signal/peer`, `signal/server` | `sync.Map` of streams, metric, sends in flight | ConnectStream, Register, Deregister, Send | lock-free registration with retries, replaced streams, clients that do not read | the registry never falls back to an older stream, replaced handlers leave |
| Sync streams | `management/internals/shared/grpc/server.go`, `management/internals/controllers/network_map` (update channel, controller), `management/server/peer.go`, `token_mgr.go` | per peer: lock, update channel, stored session, refresh goroutine, ephemeral list entry; `syncSem` | Sync, HandleUpdates, cancelPeerRoutines, DisconnectPeers, pushes | streams that overlap, clocks that are equal or step back, error paths at every step, restart | a served stream has channel, refresh and session; nothing is left behind; updates arrive |
| Debounce of updates | `.../grpc/update_debouncer.go`, `peer_update_handler.go` | pending list, timer | ProcessUpdate, timer, Stop | coalescing without loss or reordering | the receiver sees the updates in order, except superseded maps |
| Remote jobs | `management/server/job` | job channels, pending map, stored status | CreatePeerJob, Job stream, HandleResponse | answer before the job is stored, channel closed while it is being sent to | every job is finished or failed in the end |
| Request buffer | `management/internals/shared/requestbuffer` | waiting callers per key | Get, flush | windows, fetches and replies of several batches overlap | nobody gets data older than its request |
| Ephemeral peers | `management/internals/modules/peers` | linked list with deadlines, timer, stored status | OnPeerConnected, OnPeerDisconnected, cleanup, DeletePeers | a timer stopped too late, a cleanup racing a connection, restart | inactive peers are deleted, active ones are not |
| Scheduler, expiration of peers | `management/server/scheduler.go`, `account.go`, `peer.go`, `user.go` | map of cancel channels, a goroutine per job, flag and age of peers, settings | Schedule, Cancel, the two expiration jobs, the requests that arm them | a job cancelled and scheduled again while it runs or ends; candidates listed without a lock | the map knows every job that will run, peers that wait to expire have a job, a fresh peer is not expired |
| ICE worker of the client | `client/internal/peer/worker_ice.go`, `ice/agent.go` | current agent, connecting flag, session id; per agent a dial goroutine and queued callbacks | OnNewOffer, Close, connect, closeAgent, state callback | a newer offer replaces the agent at any point of the older goroutine, workers outlive their Open | the worker says it negotiates exactly while it does |
| Peer connection of the client | `client/internal/peer` (`conn.go`, `endpoint.go`, `worker_relay.go`, `wg_watcher.go`, `handshaker.go`) | priority, statuses, proxies, endpoint, watcher, relayed connections | Open, Close, the callbacks of ICE, relay and watcher | late callbacks after Close or a reopen, two waits in Close, proxies that migrate | nothing is left after Close, the active transport has a path, no relayed connection leaks, Close returns |

### How they interact

A client's Sync stream (`SyncStream`) marks the peer connected, takes it off the
ephemeral list (`EphemeralManager`), creates its update channel and serves it
through the debouncer (`UpdateDebouncer`). Account changes are loaded through
the request buffer (`RequestBuffer`) and pushed into the channels. A second
stream of the same client carries jobs (`JobManager`). Offers and answers
between clients go through the signal server (`SignalServer`) and reach the
client's peer connection (`PeerConn`), which negotiates with its ICE worker
(`WorkerICE`); when ICE does not succeed the clients meet at a relay
(`RelayServer`), whose presence events tell them when the other side is there.
Every connect, disconnect and session extension arms the scheduler (`Scheduler`)
that expires the account's peers (`PeerExpiry`).

### Not modelled

| Part | Sources | Reason |
|---|---|---|
| Reconnection guard of the client | `client/internal/peer/guard` | decides when an offer is sent; `PeerConn` lets offers come at any time, which includes every choice of the guard, and sees its goroutine only where Close waits for it |
| Relay client, its manager, health check | `shared/relay` | the client half of `RelayServer`'s protocol; `PeerConn` sees it as relayed connections that open and are lost at any time |
| Login filter | `.../grpc/loginfilter.go` | not reached yet: counters and time windows per peer; each of its two functions is one critical section, but a login is checked and counted in separate calls |
| Lazy connections | `client/internal/lazyconn`, `conn_mgr.go` | not reached yet: activity, inactivity and configuration changes race on a peer's state; the calls it makes on a connection (Open, Close) are those of `PeerConn` |
| Reference counters of routes | `client/internal/routemanager/refcounter` | not reached yet: each operation is one critical section; what is of interest is the count against add and remove functions that fail |
| State file of the client | `client/internal/statemanager` | not reached yet: a periodic save with a time-out beside direct saves, and the cleanup after a crash |
| Reverse proxy | `proxy` | not reached yet: a separate program that receives mappings from management and reconciles them |
| Engine | `client/internal/engine.go` | not reached yet: it starts, stops and feeds the other client parts, mostly under one mutex, and has goroutines of its own |
| Network map computation | `.../network_map/controller`, `management/server/types` | a large pure function of the account; when it is computed and pushed is in `SyncStream` |
| Account operations, store | `management/server` | data handling inside transactions; the part that touches expiration is in `PeerExpiry` |
| HTTP API, identity providers, activity log, CLI, UI | | parsing and calls to other services |
| Routing, DNS, firewall of the client | `client/internal/routemanager`, `dns`, `client/firewall` | mostly sequential configuration of the operating system, by system calls that a model cannot check |
| Encryption, wire formats | `encryption`, `shared/relay/messages` | pure encodings; the models carry abstract messages |
| STUN, upload and combined servers | `stun`, `upload-server`, `combined` | stateless handlers and start-up |

The repository has some 340,000 lines outside its tests, and the definitions here
stand for only about 1.2% of them (4,232 lines). The modelled parts were chosen for their
concurrency. "Not reached yet" marks parts that could be modelled and are not: no
claim is made about them.

## Plan

Next, in this order:

1. `RelayClient` (OpenConn, subscriptions, early messages, reconnect) and a
   composition with an abstract relay that `RelayServer` implements.
2. The reconnection guard with its retry budget, composed with `PeerConn` on both
   sides of a signal channel that loses and delays.
3. Composition of `SyncStream` and `EphemeralManager` (overlapping streams
   acting on the list), for which the first now has only the flag `listed`.

## Modules

`X.tla` models a part, `MCX.tla` instantiates it for TLC, `XProofs.tla` holds
its theorems. Those of the request buffer and of the update handler are in
`ManagementProofs`; it and `JobManagerProofs` extend `MCManagement`, so that what is
proved is what the run checks. Operators whose comment begins with "Variant of" are plausible
mistakes in the code; replacing the original by one of them must break a
property.

Conventions: a goroutine is a program counter (`step`, `work`, `fwd`, ...) and an
action is what the code does between two points where another goroutine can
interfere. A critical section that does not block is one action; a lock held
over a blocking step is a guard of the others. Nanosecond tokens and clocks are
small numbers that may repeat or step back. Map keys that do not interact are
fixed to one (one peer in `SyncStream` and `JobManager`, one key in
`RequestBuffer`, one job id in `Scheduler`).

### RelayServer

`accept[c]`, `work[c]` and `lstep[c]` are the three goroutines of connection `c`:
the caller of `Relay.Accept`, `Peer.Work` followed by `DeletePeer` and
`PeerWentOffline`, and `Listener.listenForEvents`. `store` is the sharded map,
`listeners` the notifier's set, `intOnline`/`intOffline` the interest maps,
`eventChan` the bounded channel. `todo` and `holding` are the listeners a publisher
has to visit and the one it blocks on with `listenersMutex` held. `told` is what
the client was last told, and `withdrawn` a history variable: the ids a client has
unsubscribed from. Two properties need it. `RemoveInterestedPeer` takes the id out of
the interest maps and leaves its events in `eventChan`, so after subscribe and
unsubscribe an online event may be left in the channel that no offline event will
follow. A client that then subscribes again is told that a peer that left is online,
and nothing corrects it. NoPhantomOnline and DepartureReported are therefore about
ids the client has not withdrawn; without that condition NoPhantomOnline fails with
three requests per client, which the attempt to prove it showed. A single dial at a time per peer id is assumed of the
client (`DialAllowed`) except where `OverlapDials` is set.

### SignalServer

`step[s]` is the handler of stream `s`. Each operation on the `sync.Map` is a
step of its own, so `Register` is LoadOrStore, CompareAndSwap and the
cancellation of the old stream, with the retry. `fwd[m]` is a call of
`Server.Send`, `wr[m]` the goroutine that writes to the stream. A stream whose
`ListenForMessages` fails ends as `"failed"`: `ConnectStream` returns before it defers
`DeregisterPeer`, and the registry entry stays until a newer stream replaces it.

### SyncStream

`step[s]` is `Server.Sync` of stream `s` from the limit check to the last line of
`cancelPeerRoutines`; `LockedSteps` are those with the peer lock. `channel`,
`closed` and `queue` are `PeersUpdateManager`, `connected` and `session` the stored
status, `refresher` and `ticking` the credentials refresh, `listed` the entry in
the ephemeral list. `serial`, `netMap`, `sent`, `pushed` follow network maps by
serial. Statements under the context of an ended stream fail (`Canceled`), which
the cleanup of a served stream avoids and the error paths do not.

### UpdateDebouncer and UpdateDelivery

`UpdateDelivery` is what `HandleUpdates` promises: a queue whose last element may
be replaced while both are network maps, and that is emptied from the front.
`UpdateDebouncer` is the code: pending list, timer, immediate sends, Stop.
`ImplementsDelivery` is the refinement with `backlog <- sending \o pending`.
What the queue of `UpdateDelivery` means for a receiver is stated by its `InOrder`
(in the order of arrival, none twice) and `NothingLost` (sent or waiting, unless a
network map follows directly on a network map or the stream ended).

### JobManager

`creator[j]` is `CreatePeerJob` in its steps (check, `SendJob` reading the channel,
tracking the pending entry, `AddEvent`, storing), `handler[s]` a Job stream. The
stored status of each job and the pending map are separate, as in the code.

### RequestBuffer

A caller of `Get` and the flush of the window it opened are named alike.
`resource` counts writes, so data is fresh when it is not smaller than `asked`.

### EphemeralManager

There is no clock: deadlines and timers hold the time that is left and the last
sign of life of a peer its age; `Tick` lets a unit pass, and a due timer may fire
late. Timers have names because an old one whose cleanup has started runs beside
the new one. `DeletePeers` reads and deletes in two steps; with one connection
to the store (SQLite) nothing comes in between. The variable `server` says how
many connections there are and whether transactions fail and the server crashes;
it is chosen at the start, so one run covers all deployments. A stream is served
also when `MarkPeerConnected` failed, which `SyncAndMarkPeer` only logs; `unmarked`
holds the peers of such streams.

### Scheduler and PeerExpiry

`Scheduler` is `DefaultScheduler` for one job id: the entry of the map is the
number of the goroutine whose cancel channel it holds, and a goroutine is waiting
in its select, in `job()`, or on its way to the mutex after `job()` asked not to be
run again. `PeerExpiry` extends it with the two users of a scheduler, which have
one of their own each and share nothing: `mode` says which one a behaviour is about.
A request changes the store in one step and leaves in `todo` the steps that follow,
each read of the store and each call of the scheduler on its own. A job lists
candidates, reads the settings once and looks at each candidate again in the
transaction that flags it. Ages replace the clock. The goroutine in which
`schedulePeerLoginExpiration` calls Schedule may fall behind the next settings handler
of the same request (`ScheduleLater`). `armed` is a history variable: a request was
sure to arm the scheduler and none that only cancels came since. One that cannot read
the settings, or finds expiration switched off, does not count.

### WorkerICE and PeerConn

`WorkerICE` has the fields of a worker per Open, because goroutines of an earlier
Open go on, and per agent the step of its `connect` goroutine (`dial`), the state of
the pion agent and its queued callbacks. `connect` is split where it does not hold
`muxAgent`, so an agent can be replaced before the check after the dial, before the
commit and before the delivery. `PeerConn` extends it with `Conn`: a section under
`conn.mu` is one step, Close is three (up to `wg.Wait` with the mutex held, the
unlock, the wait for the watchers). `closing` is the set of the steps at which calls of
Close stand, since one may come while another waits for the watchers. A relayed
connection is a number with a state, and the proxy over it is named alike. `endpoint` is the WireGuard peer's address by
the transport it leads to; a responder's delayed update is `delayed`. Calls of the
WireGuard interface may fail: an update leaves the peer as it is, a removal of the
address, which removes the peer and adds it again, may leave the peer or lose it, and a
peer that Close could not remove is `"left"`. A watcher that has returned but is still `conn.wgWatcher` is `"ended"`; cancelled ones are in `stale`.

### MCManagement

The request buffer, the job manager and the update handler share no state, so their
instances are checked in one run: `part` names the one that a behaviour is about,
and the others keep their initial state, in which nothing owes progress.

## Runs

Passing runs, with the reason for their bounds:

| Run | Shows | Bounds |
|---|---|---|
| relay | no arrival is missed, no phantom peer stays online, one open connection per peer id, Shutdown complete; sessions of closed connections end, departures are reported | a subscriber and a peer with two connections, the smallest case with a reconnect that overtakes a teardown; two requests, of which the first subscribes and the second withdraws (`SubscribesThenWithdraws`); channel of 2, so that batches form and publishers find it full |
| signal | replaced streams are cancelled and leave, exact metric, only connected streams registered but for those the dispatcher refused, newer replaces older; Register and Send return, a stuck destination leaves | two streams of one id that replace one another, clock readings that are equal, increasing or reversed, a message whose destination may change or stop reading; the safety part is proved for any number of streams |
| sync_safety | registered channel open, a session is whole, nothing left behind, semaphore balanced | three streams (old, current, late one), two clock values, two refresh ticks, restart, a store that does not fail; all four are proved for any number of streams, the open channel and the semaphore also with a failing store |
| sync_live | handlers of ended streams return, changes made after the channel exists reach the stream | two streams, failing store, one change, channel with room for it |
| management | request buffer: fresh data, one batch per caller, callers return; jobs: none pending without a carrier, finished stays finished, creators return; updates: pending ones are sent once no more arrive, `UpdateDelivery` is implemented | two callers and two writes, so that a batch can be stale; two streams that replace one another, two jobs, channel of 1 as in the code, failing store; every sequence of six updates of two kinds |
| ephemeral | served peers are not listed and, with one store connection and if they could be marked, not deleted; a cleanup is scheduled; where nothing fails or crashes, inactive peers are deleted | one peer, three timers so that an old cleanup, the current timer and a new one coexist, life time of 3, one crash, all four deployments; the safety part is proved for any number of peers and timers |
| peerconn | the connecting flag is right, Close leaves nothing behind but a WireGuard peer that could not be removed, and returns, the active transport has a path, no relayed connection leaks | at most two opens, two agents and two relayed connections, three in all (`Bounded`): a reopen, a second agent or a second relayed connection beside one of the others; one session id besides none; controller and responder; the safety part is proved for any number |
| expiry | the scheduler's map knows every job that will run again, inactive peers have a job after a request that could read the settings, a fresh peer is not flagged | one peer, two requests at a time, two job goroutines so that an ending one meets its successor, ages to 2 |

`CHECK_DEADLOCK FALSE` is set for relay, signal, sync, management and peer_watch, where the
bounded behaviours end: all streams, jobs or callers of the instance are done, or
nobody is owed anything. The other runs check for deadlock.

Runs that find a disagreement between the code and what a comment says (details
and quotations under `findings` in `PROJECT.json`):

| Run | What happens |
|---|---|
| relay_deadlock | with a full event channel the subscribe handler, a publisher and the listener wait for one another |
| sync_replaced | the cleanup of a replaced stream closes the channel of the newer one |
| expiry_extend | a session extended while the last expiration job is ending gets no job, since the ending one is still in the scheduler's map |
| peer_watch | a WireGuard watcher that timed out on ICE is still `conn.wgWatcher`, so the relay that takes over is not watched |

The models show further disagreements that have no run of their own. Each is
reproduced by a small change of a configuration above:

| Property | Change | What happens, and the comment it contradicts |
|---|---|---|
| EventsInOrder | add it to `RelayServer.cfg` | a batch with offline(p), online(p) is written with online first (`relay/server/store/listener.go:28`) |
| ConnectedOnly | drop its alternative `step[registry[i]] = "failed"` | the registry entry stays when the dispatcher refuses the stream (`signal/peer/peer.go:58`) |
| NoUpdateMissed | add it to `SyncStreamLive.cfg` | a change between the computation of the map and the creation of the channel is lost (`management/internals/shared/grpc/server.go:234`) |
| SessionIsActive | add it to `SyncStream.cfg`, with `MayRestart = FALSE` | a client that leaves during the initial sync stays stored as connected: the cleanup runs under the cancelled context (`management/server/peer/peer.go:87`) |
| HandledIsFinished | define it in `MCManagement` as `JM!HandledIsFinished` and add it to `Management.cfg` | an answer that comes before the job is stored leaves it pending (`management/server/job/manager.go:93`) |
| FailedByItsStream | likewise | the end of a replaced Job stream fails the newer stream's jobs (`management/server/job/manager.go:142`) |
| ActiveStays | drop its condition `server.oneConnection` | with several store connections a peer is deleted between its connection and its service (`ephemeral.go:103`) |
| ActiveStays | drop `unmarked` | a peer whose stream failed to mark it as connected is deleted while it is served, by a cleanup that had taken it off the list before (`ephemeral.go:103`) |
| InactiveDeleted | drop its condition on `server.faulty`, with `MaxRestarts = 0` | a stream that fails early leaves an old deadline with a fresh LastSeen; the peer is dropped from the list and never deleted (`ephemeral.go:38`) |
| InactiveDeleted | put `restarts = 1 /\ p \in connected` in the place of its condition on `server.faulty` | a peer connected at a crash stays "connected" in the store and is never deleted (`ephemeral.go:38`) |
| NoPhantomOnline | `OverlapDials = TRUE` in `RelayServer.cfg` | when dials of one client overlap, the older accept may announce the peer after the newer connection came and went; the client dials once at a time |

Noticed while modelling, with neither a run nor a property; each is a reading of the
code that a maintainer may judge:

- `worker_ice.go:344`-`351`: after the commit of a dialled connection the lock is
  released before `onICEConnectionIsReady`, so a connection whose agent has been
  replaced meanwhile is still delivered; the comment there knows of it.
- `conn.go`: `onICEStateDisconnected` removes the endpoint also when the relay is
  already active; the branch commented "never should happen" (`conn.go:441`) can be
  reached; a responder's delayed endpoint update survives a direct removal;
  `onRelayDisconnected` does not say which relayed connection was lost; a failing
  `newProxy` leaves the relayed connection open; the wait for the watchers at the
  end of Close also waits for those of a reopen.
- `account.go`: inactivity expiration that is switched on without a new duration
  schedules no job; a new login duration while login expiration is off schedules
  one that has no effect; `expireAndUpdatePeers` uses settings that were read once.

## Fairness

Weak fairness of goroutines that can run (Go schedules them), of timers (they
fire) and of calls that carry a time-out. Nothing is assumed of clients, of the
operator or of account changes: they may never act. `SyncStream` uses strong
fairness for a handler that waits for the peer lock, because Go's mutexes hand
over to a waiter after a millisecond, and for the end of a stream in a `select`
that chooses at random among the ready cases. In `EphemeralManager` time passes.
In `RelayServer` only the server as a whole is fair, which is weaker than fairness
of each goroutine. In `PeerConn` the goroutines that Close waits for (Listen, the
guard, cancelled watchers) and Close itself are. `PeerExpiry` has safety only.

## Proofs

| Module | Theorem | Argument |
|---|---|---|
| RelayServerProofs | TypeCorrect | type invariant, one lemma per goroutine; a channel's length needs the guard `ChanFull` |
| | OldIsClosed | invariant over connections that passed AddPeer: the stored one is the last; a connection leaves the store only by its own DeletePeer or by replacement, which closes it |
| | ShutdownIsComplete | Shutdown waits for `closeMu`, so every accepted connection is in the store it walks |
| | SubscribersMissNobody | NeverMissed speaks of announced peers only; `Due` adds that until the announcement reaches a listener its interest is still registered, `Listening` that it will be visited |
| | NobodyKeepsAPhantom | for clients that dial once at a time. `NewsInv` follows the last news of a peer through reply, channel and batch: while anything that says "online" is told or on its way (`Rumour`) and the peer is not stored, the offline event comes after it (`OfflineLast`) or its publisher has still to visit the listener (`Departing`). `OneDial` and `ListenerIdle` say who can publish and that no batch is left over |
| SignalServerProofs | TypeCorrect, Superseded, NewerReplaces, RegistryHoldsConnected | `EntryOK` (an entry is a stream of its id that has not deregistered, or whose handler failed before it could) and `SeenIsOlder` (what Register saw before its compare-and-swap) make them inductive |
| | MetricIsExact | cardinality of registered ids against updates in flight, with FiniteSetTheorems |
| | MessagesGoToTheirPeer | `ForwardInv`: by `EntryOK` the second lookup of Send finds a stream of the destination that registered; a stream never goes back before its registration, and its end and its cancellation are final, so what a failed or timed-out send says of it stays true |
| ManagementProofs | CallersGetFreshData, CallersAreServedOnce | `FetchedIsFresh` (nobody joins a batch that is fetched) and `IdleIsFree` (who has not asked is in none), with `WaitingIsEmpty` for the channels |
| | NobodyIsForgotten | `WindowIsTimed` and `CallerIsHeld`, inductive with the facts above: each step hands a waiting caller on, from the window to a batch to its channel, and whoever finds the window empty starts its timer |
| | HandlerDelivers | `UpdateDebouncer` implements `UpdateDelivery`, step by step: `HandlerInv` says that updates are kept back only while the timer runs, so an immediate send finds an empty backlog, and that nothing is left after the return |
| | UpdatesInOrder | on the abstract specification, carried over by the refinement. `WellDelivered`: what was sent and what waits is increasing, and every update received is there, superseded or cut off by the end |
| | KeptBackIsTimed | from `HandlerInv`, with the values of the timer |
| | PartsBehave | the composition of `MCManagement` lets each part take its own steps or stutter |
| JobManagerProofs | PendingIsCarried | `ChannelInv`: the registered channel has a running handler, and a running handler whose channel is not the registered one finds it closed; `CarrierInv`: a pending job is being sent, being taken back, or with a running handler |
| | FinishedIsKept | `StoredOnce`: a job has no status before its creator is done, so storing it overwrites no answer |
| | JobIsInOnePlace | `PlaceInv`: what is in a channel was put there by a SendJob that chose this channel and is past AddEvent (`QueuedWell`), so two channels share no job and no job is added again; sendJobsLoop takes a job out before the peer has it |
| SyncStreamProofs | TypeCorrect | one step per action; a channel's length needs the guard `HasRoom` of SendUpdate |
| | ChannelIsOpen | `Unopened`: a stream that has not got to OnPeerConnected has no channel, so the channel it registers is neither closed nor the one that CreateChannel closes |
| | SemaphoreIsExact | each step moves one stream into or out of `Counted` and `syncSem` by one, or neither, with FiniteSetTheorems; a restart empties both |
| | SessionIsWhole, NothingIsLeftBehind | for a store that does not fail. `WholeInv`: one stream at a time has the peer lock (`Exclusive`), a stream has its start time before it is marked (`TokenTaken`), a stored session is connected, and between marking, registering and the refresh only what the next step supplies is missing; `OwnedInv`: every channel, refresh goroutine and missing list entry belongs to a stream that will clean it up |
| | UpdatesReachUnlessDropped | for behaviours in which no push of a map finds the channel full (`[][PushFits]_vars`), for any capacity. `Reach`: a stream whose channel is older than the last change has the current map, or some push will bring it (`OnItsWay`: it has yet to load the account, or loaded the current one). `OwnChannel` says that a stream in service has the registered channel or a closed one, `Serials` that nothing is newer than the account |
| | EveryUpdateReaches | for a channel with room for everything that is pushed, `Cardinality(Updates) + MaxTicks <= ChanCap`. `Room`: a channel holds at most what was pushed, so every push fits |
| EphemeralManagerProofs | ActiveIsNotListed | `ListInv`: the list names a peer at most once, so that taking it off once takes it off |
| | CleanupIsScheduled | `TimerInv`: while the list is not empty there is a current timer, and a current timer is armed or its cleanup about to run, whatever older cleanups do |
| | ActivePeerStays | for one store connection. `StatusInv`: a peer whose stream has marked it, and is not in `unmarked`, is stored as connected, and no connected peer is among those a running deletion has chosen |
| | InactiveIsAwaited | for a server that nothing has failed on. `InactiveInv`: a peer is put on the list after its last sign of life, so its age in the store and what is left to its deadline on the list make up the life time (`Held`), and a cleanup that takes it off finds it old enough; `ListingCovers` that a listing after the start leaves no stored peer out |
| PeerExpiryProofs | EntryIsTheJobHolds | `SchedulerInv`: EntryIsTheJob with the types, and cancelled goroutines are still there; every step of `PeerExpiry` is one of the scheduler or leaves it alone |
| | FreshStaysHolds | `LimitInv`: limits, also those that a job has read, are above zero, and the age of a fresh peer is zero |
| | InactiveHaveJob | `HasJob`: when the scheduler was armed and peers wait, some request has yet to cancel and schedule, or the job in the map will go on, or the map is empty and some request will schedule. `TodoOK` and `ArmedOK` name what a request may have left to do and exclude a cancel that no schedule follows |
| PeerConnProofs | ConnectingIsRealHolds | `ICEInv` over workers and agents; `NextIsICE` reduces a step of the connection to one of the worker |
| | ClosedIsCleanHolds | `CleanInv` with `OpenInv`: every handler that sets one of the fields looks at the context first, or needs one that is set; `"left"` comes only from a failed removal in Close |
| | ActiveHasPathHolds | `PathInv`: an active relay has a proxy, a proxy has the relay's status, active ICE has its status |
| | NoRelayLeakHolds | `HeldInv`: an open relayed connection waits for its callback, or is that of the current or of a retired proxy |

All are for every value of the constants under the named assumptions of the
modules (`RelayAssumption`, `SignalAssumption`, `BufferAssumption`,
`SyncAssumption`, `EphemeralAssumption`, `SchedulerAssumption`,
`ExpiryAssumption`, `WorkerAssumption`, `ConnAssumption`): finite sets of
connections or streams, bounds that are natural numbers, a capacity above zero, a
model value outside the sets. NobodyKeepsAPhantom also assumes that dials do not overlap
(`~OverlapDials`; the table of disagreements says what happens when they do);
EveryUpdateReaches that the set of updates is finite and the channel has room for
them and for the refreshed credentials. A full channel drops the newest update by
design, so without that condition UpdatesReachStream is false; UpdatesReachUnlessDropped
says that such a drop is all that can break it. TLC evaluates the
assumptions in the runs, and `PartsAssumption` of `MCManagement` likewise.

The inductive invariants `PhantomInv`, `ReachInv`, `InactivityInv`, `ChannelInv` with
`CarrierInv`, `StoredOnce`, `PlaceInv`, `HandlerInv`, `DeliveryInv`, `CallerIsHeld` with
`WindowIsTimed`, `InactiveInv` and `ForwardInv` also hold in TLC: on the instance of the
run, the first with three requests in any order, the second with two updates and
restarts, InactiveInv with two peers and three timers, ForwardInv with two messages.

Each proof module names once, at the top, the provers a leaf is tried with, in turn.

Every invariant and action property of a passing run, and the refinement, is thus
proved. Only model-checked: liveness, since fairness and ENABLED are outside the
prover's reach (TeardownCompletes, DepartureReported, RegisterReturns, SupersededLeaves,
ForwardReturns, StuckStreamLeaves, StreamsLeave, CallersReturn, SendersReturn,
PendingIsSent, InactiveDeleted, CloseReturns). What some of them rest on is a state
property, and that half is proved for all constants: that whoever waits is held by
something that will go on. NobodyIsForgotten is this half of CallersReturn,
KeptBackIsTimed of PendingIsSent, InactiveIsAwaited with CleanupIsScheduled of
InactiveDeleted, MessagesGoToTheirPeer (the timeout) of StuckStreamLeaves and Superseded
of SupersededLeaves. That the steps which remain are taken is what TLC adds.

## Abstractions to keep in mind

- Messages, network maps, jobs and payloads carry only their identity or serial.
- Database statements are atomic; transactions are split where the code reads
  without a lock and writes later (`EphemeralManager`).
- In `EphemeralManager` a peer has one stream at a time; overlapping streams are
  in `SyncStream`, where the list is a flag.
- A crash loses memory at any point between two actions and keeps the store.
- The relay's health check and the transports are the nondeterministic closing
  of a connection.
- The relay run orders a client's requests (`SubscribesThenWithdraws`) to keep the
  liveness check small; the four invariants also hold without that constraint.
  Neither liveness property says that subscribing is safe in general: a client that
  subscribes again while its channel is full can meet the deadlock of relay_deadlock
  (channel of 1), after which nothing completes. This instance has too few events for
  that to happen with a channel of 2.
- `Bounded` cuts behaviours of the peerconn run off after three opens, agents and
  relayed connections; CloseReturns is checked on what is left, and a Close adds to
  none of them.
- Open does not fail in `PeerConn`: `NewWorkerICE` returns an error only when there are
  no random numbers for its credentials, and is left out.
- PendingIsSent is about a quiet period, like the comments of the debouncer: every
  update resets the timer, so updates that never pause are never sent. The bound on
  updates makes every behaviour of the run quiet in the end.
- `PeerExpiry` leaves out the switch of a single peer, deletions and the Cancel that
  goes with them; the settings that an extension reads belong to its transaction.
- Conditions that are part of a property rather than of a bound: one store connection
  and a stored mark in ActiveStays, no failure or crash in InactiveDeleted. The section on
  disagreements says what happens without them.
