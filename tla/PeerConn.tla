-------------------------------- MODULE PeerConn --------------------------------
(***************************************************************************)
(* A peer connection of the client (Conn): the transport that carries the  *)
(* WireGuard traffic (ICE or relay), the WireGuard endpoint, the handshake *)
(* watcher, and opening and closing.  It extends the ICE worker, whose     *)
(* calls into the connection it gives their effect.                        *)
(*                                                                         *)
(* A section under conn.mu is one step, except Close: it holds conn.mu     *)
(* while it waits for the Listen and guard goroutines, and waits for the   *)
(* watchers after the unlock.  conn.ctx is live exactly while opened.      *)
(* Goroutines of an earlier Open go on and see the fields of the later one.*)
(* Calls of the WireGuard interface may fail.  Open does not: left out is  *)
(* that no credentials can be made for the ICE worker (no random numbers). *)
(***************************************************************************)
EXTENDS WorkerICE

CONSTANT MaxRelayed     \* bound: relayed connections opened

ASSUME ConnAssumption == MaxRelayed \in Nat

None == 0
Relay == 1
ICETurn == 2
ICEP2P == 3
Relayed == 1 .. MaxRelayed

VARIABLES
    isController,   \* this peer initiates the WireGuard handshakes
    opened,         \* conn.opened; conn.ctx is live
    gen,            \* the latest Open, whose workers are conn.workerICE and conn.workerRelay
    closing,        \* the steps at which calls of Close wait: "wg" (conn.mu is held), "watcher"
    goroutines,     \* goroutines that conn.wg counts
    currentConnPriority,
    statusICE,      \* connected?
    statusRelay,    \* connected?
    wgProxyICE,     \* conn.wgProxyICE is not nil
    wgProxyRelay,   \* conn.wgProxyRelay, named by its relayed connection; 0 is nil
    retired,        \* retiredRelayProxies
    relayState,     \* the relayed connections; "failed" is open without a proxy
    ready,          \* calls of onRelayConnectionIsReady that wait for conn.mu
    relayedConn,    \* conn.workerRelay.relayedConn
    wgWatcher,      \* conn.wgWatcher: "nil", or the step of its goroutine
    stale,          \* steps of watcher goroutines whose context is done
    endpoint,       \* the WireGuard peer: "none", "blank" (no address), the transport of its
                    \* address, or "left" by a Close that could not remove it
    delayed         \* EndpointUpdater's delayed update: "no" or the transport of its address

openVars == <<isController, opened, gen, closing, goroutines>>
transportVars == <<currentConnPriority, statusICE, statusRelay, wgProxyICE, wgProxyRelay, retired>>
relayVars == <<relayState, ready, relayedConn>>
watchVars == <<wgWatcher, stale>>
wgVars == <<endpoint, delayed>>
connVars == <<isController, opened, gen, closing, goroutines, currentConnPriority, statusICE, statusRelay,
              wgProxyICE, wgProxyRelay, retired, relayState, ready, relayedConn,
              wgWatcher, stale, endpoint, delayed>>
vars == <<iceVars, connVars>>

TypeOK ==
    /\ ICETypeOK
    /\ isController \in BOOLEAN /\ opened \in BOOLEAN /\ gen \in 0 .. MaxOpens
    /\ closing \subseteq {"wg", "watcher"}
    /\ goroutines \subseteq {"listen", "guard"}
    /\ currentConnPriority \in None .. ICEP2P
    /\ statusICE \in BOOLEAN /\ statusRelay \in BOOLEAN
    /\ wgProxyICE \in BOOLEAN /\ wgProxyRelay \in 0 .. MaxRelayed
    /\ retired \subseteq Relayed /\ ready \subseteq Relayed
    /\ relayState \in [Relayed -> {"none", "open", "failed", "closed"}]
    /\ relayedConn \in 0 .. MaxRelayed
    /\ wgWatcher \in {"nil", "run", "timeout", "ended"}
    /\ stale \subseteq {"run", "timeout"}
    /\ endpoint \in {"none", "blank", "ice", "relay", "left"}
    /\ delayed \in {"no", "ice", "relay"}

Init ==
    /\ ICEInit
    /\ isController \in BOOLEAN
    /\ opened = FALSE /\ gen = 0 /\ closing = {} /\ goroutines = {}
    /\ currentConnPriority = None /\ statusICE = FALSE /\ statusRelay = FALSE
    /\ wgProxyICE = FALSE /\ wgProxyRelay = 0 /\ retired = {}
    /\ relayState = [r \in Relayed |-> "none"] /\ ready = {} /\ relayedConn = 0
    /\ wgWatcher = "nil" /\ stale = {}
    /\ endpoint = "none" /\ delayed = "no"

MuFree == "wg" \notin closing

-----------------------------------------------------------------------------
(* Helpers under conn.mu. *)

\* Close of a relayed connection, or of the proxy over it, for the members of R.
CloseRelayed(R) ==
    relayState' = [r \in Relayed |-> IF r \in R /\ relayState[r] # "none" THEN "closed" ELSE relayState[r]]

\* A watcher that returned stays conn.wgWatcher until it is dropped.
enableWgWatcherIfNeeded ==
    /\ wgWatcher' = IF wgWatcher = "nil" THEN "run" ELSE wgWatcher
    /\ UNCHANGED stale

\* conn.wgWatcherCancel, and the fields reset.
DropWatcher ==
    /\ stale' = stale \cup ({wgWatcher} \cap {"run", "timeout"})
    /\ wgWatcher' = "nil"

\* Called after the priority has been set to p.
disableWgWatcherIfNeeded(p) ==
    IF p = None THEN DropWatcher ELSE UNCHANGED watchVars

\* EndpointUpdater: an initiator sets the address, a responder leaves it to a delayed update.
ConfigureWGEndpoint(transport) ==
    IF isController
    THEN endpoint' = transport /\ UNCHANGED delayed
    ELSE /\ endpoint' = IF endpoint = "none" THEN "blank" ELSE endpoint
         /\ delayed' = transport

\* UpdatePeer fails: a responder's delayed update is cancelled.
ConfigureWGEndpointFails == delayed' = "no" /\ UNCHANGED endpoint

\* What RemoveEndpointAddress of the interface can make of the peer: it removes it and
\* adds it again without its address, and either may fail.
WithoutAddress == {endpoint, "none"} \cup (IF endpoint = "none" THEN {} ELSE {"blank"})

\* WgInterface.RemoveEndpointAddress, not through the EndpointUpdater.
RemoveEndpointAddress == endpoint' \in WithoutAddress /\ UNCHANGED delayed

\* UpdatePeer may fail.
scheduleDelayedUpdate ==
    /\ delayed # "no"
    /\ endpoint' \in {delayed, endpoint} /\ delayed' = "no"
    /\ UNCHANGED <<iceVars, openVars, transportVars, relayVars, watchVars>>

-----------------------------------------------------------------------------
(* Open and Close. *)

Open ==
    /\ MuFree /\ ~opened /\ gen < MaxOpens
    /\ opened' = TRUE /\ gen' = gen + 1
    /\ goroutines' = {"listen", "guard"}
    /\ relayedConn' = 0
    /\ UNCHANGED <<iceVars, isController, closing, transportVars, relayState, ready, watchVars, wgVars>>

\* The delayed update is cancelled and waited for; RemovePeer may fail, which Close logs.
RemoveWgPeer ==
    /\ delayed' = "no"
    /\ endpoint' \in {"none", IF endpoint = "none" THEN "none" ELSE "left"}

\* Close up to wg.Wait.  An earlier call may still wait for the watchers.
Close ==
    /\ MuFree /\ opened
    /\ closing' = closing \cup {"wg"} /\ opened' = FALSE
    /\ DropWatcher
    /\ CloseWorker(gen)
    /\ CloseRelayed({relayedConn, wgProxyRelay} \cup retired)
    /\ wgProxyRelay' = 0 /\ retired' = {} /\ wgProxyICE' = FALSE
    /\ RemoveWgPeer
    /\ currentConnPriority' = None /\ statusICE' = FALSE /\ statusRelay' = FALSE
    /\ UNCHANGED <<isController, gen, goroutines, ready, relayedConn>>

OpenKeeps == UNCHANGED <<iceVars, isController, opened, gen, transportVars, relayVars, watchVars, wgVars>>

\* Close of a connection that is not open waits for the watchers, too.
CloseIgnored ==
    /\ MuFree /\ ~opened
    /\ closing' = closing \cup {"watcher"}
    /\ UNCHANGED goroutines /\ OpenKeeps

ListenStops ==
    /\ ~opened /\ "listen" \in goroutines
    /\ goroutines' = goroutines \ {"listen"}
    /\ UNCHANGED closing /\ OpenKeeps

\* The guard finishes its check, which reads the statuses without conn.mu, and returns.
GuardStops ==
    /\ ~opened /\ "guard" \in goroutines
    /\ goroutines' = goroutines \ {"guard"}
    /\ UNCHANGED closing /\ OpenKeeps

\* Variant of WgDone: the watchers are waited for before the unlock.
WgDoneLast ==
    /\ ~MuFree /\ goroutines = {} /\ stale = {}
    /\ closing' = {"watcher"}
    /\ UNCHANGED goroutines /\ OpenKeeps

\* wg.Wait returns, conn.mu is unlocked.
WgDone ==
    /\ ~MuFree /\ goroutines = {}
    /\ closing' = {"watcher"}
    /\ UNCHANGED goroutines /\ OpenKeeps

\* wgWatcherWg.Wait returns, in all calls that wait.
CloseReturn ==
    /\ "watcher" \in closing /\ stale = {} /\ wgWatcher \notin {"run", "timeout"}
    /\ closing' = closing \ {"watcher"}
    /\ UNCHANGED goroutines /\ OpenKeeps

-----------------------------------------------------------------------------
(* Handshaker.Listen: any offer or answer may be in its channels.  The relay *)
(* worker, which it notifies too, is asynchronous (RelayOpened).            *)

ListenICE(sid) ==
    /\ "listen" \in goroutines
    /\ OnNewOffer(gen, sid)
    /\ UNCHANGED connVars

\* updateRemoteICEState: no ICE credentials any more.
ListenNoICE ==
    /\ "listen" \in goroutines
    /\ CloseWorker(gen)
    /\ UNCHANGED connVars

-----------------------------------------------------------------------------
(* ICE. *)

\* Variant of Live: the context is not looked at again under conn.mu.
LiveAlways == gen # 0

\* conn.ctx.Err() = nil, read under conn.mu.
Live == opened

\* A connection of priority p is too late, or lower than the current one.
IceIgnored(p) ==
    /\ ~Live \/ currentConnPriority > p
    /\ statusICE' = (statusICE \/ Live)
    /\ UNCHANGED <<currentConnPriority, wgProxyICE, watchVars, wgVars>>

\* newProxy or ResolveUDPAddr fails.
IceNoEndpoint(p) ==
    /\ Live /\ currentConnPriority <= p
    /\ UNCHANGED <<statusICE, currentConnPriority, wgProxyICE, watchVars, wgVars>>

\* A connection over TURN is proxied if the relayed candidate is the local one.
IceNotConfigured(p) ==
    /\ Live /\ currentConnPriority <= p
    /\ wgProxyICE' \in {wgProxyICE, wgProxyICE \/ p = ICETurn}
    /\ enableWgWatcherIfNeeded
    /\ ConfigureWGEndpointFails
    /\ UNCHANGED <<statusICE, currentConnPriority>>

IceActive(p) ==
    /\ Live /\ currentConnPriority <= p
    /\ wgProxyICE' \in {wgProxyICE, wgProxyICE \/ p = ICETurn}
    /\ enableWgWatcherIfNeeded
    /\ ConfigureWGEndpoint("ice")
    /\ currentConnPriority' = p
    /\ statusICE' = TRUE

onICEConnectionIsReady(a) ==
    /\ MuFree
    /\ Deliver(a)
    /\ \E p \in {ICETurn, ICEP2P} : IceIgnored(p) \/ IceNoEndpoint(p) \/ IceNotConfigured(p) \/ IceActive(p)
    /\ UNCHANGED <<openVars, relayVars, statusRelay, wgProxyRelay, retired>>

\* Variant of isReadyToUpgrade: whether there is a relay is not asked.
isReadyAlways == currentConnPriority # Relay

isReadyToUpgrade == wgProxyRelay # 0 /\ currentConnPriority # Relay

\* SwitchWGEndpoint cancels the delayed update and may fail; before it, a controller
\* removes the address if the remote session has changed.
SwitchToRelay ==
    /\ Live /\ isReadyToUpgrade
    /\ delayed' = "no"
    /\ endpoint' \in {"relay", endpoint} \cup (IF isController THEN WithoutAddress ELSE {})
    /\ currentConnPriority' = Relay
    /\ UNCHANGED watchVars

DropICE ==
    /\ Live /\ ~isReadyToUpgrade
    /\ currentConnPriority' = None
    /\ RemoveEndpointAddress
    /\ disableWgWatcherIfNeeded(None)

onICEStateDisconnected(a) ==
    /\ MuFree
    /\ Notify(a)
    /\ \/ SwitchToRelay \/ DropICE
       \/ ~Live /\ UNCHANGED <<currentConnPriority, watchVars, wgVars>>
    /\ statusICE' = (statusICE /\ ~Live)
    /\ UNCHANGED <<openVars, relayVars, statusRelay, wgProxyICE, wgProxyRelay, retired>>

-----------------------------------------------------------------------------
(* Relay. *)

\* WorkerRelay.OnNewOffer of some Open: OpenConn succeeds; AddCloseListener may fail.
RelayOpened(g, r) ==
    /\ g <= gen
    /\ relayState[r] = "none" /\ \A q \in Relayed : q < r => relayState[q] # "none"
    /\ relayedConn' = IF g = gen THEN r ELSE relayedConn
    /\ \/ relayState' = [relayState EXCEPT ![r] = "open"] /\ ready' = ready \cup {r}
       \/ relayState' = [relayState EXCEPT ![r] = "closed"] /\ UNCHANGED ready
    /\ UNCHANGED <<iceVars, openVars, transportVars, watchVars, wgVars>>

isICEActive == currentConnPriority \in {ICETurn, ICEP2P} /\ statusICE

\* Variant of RelayTooLate: the relayed connection is not closed.
RelayTooLateKept(r) ==
    /\ ~Live
    /\ UNCHANGED <<transportVars, relayState, watchVars, wgVars>>

RelayTooLate(r) ==
    /\ ~Live
    /\ CloseRelayed({r})
    /\ UNCHANGED <<transportVars, watchVars, wgVars>>

\* newProxy fails: the relayed connection stays open.
RelayNoProxy(r) ==
    /\ Live
    /\ relayState' = [relayState EXCEPT ![r] = IF @ = "open" THEN "failed" ELSE @]
    /\ UNCHANGED <<transportVars, watchVars, wgVars>>

RelayStandby(r) ==
    /\ Live /\ isICEActive
    /\ CloseRelayed({wgProxyRelay})
    /\ wgProxyRelay' = r /\ statusRelay' = TRUE
    /\ UNCHANGED <<currentConnPriority, statusICE, wgProxyICE, retired, watchVars, wgVars>>

RelayNotConfigured(r) ==
    /\ Live /\ ~isICEActive
    /\ enableWgWatcherIfNeeded
    /\ ConfigureWGEndpointFails
    /\ CloseRelayed({r})
    /\ UNCHANGED transportVars

\* A proxy that carries the traffic is retired, not closed.
migrating == wgProxyRelay # 0 /\ currentConnPriority = Relay

RelayActive(r) ==
    /\ Live /\ ~isICEActive
    /\ enableWgWatcherIfNeeded
    /\ ConfigureWGEndpoint("relay")
    /\ retired' = IF migrating THEN retired \cup {wgProxyRelay} ELSE retired
    /\ CloseRelayed(IF migrating THEN {} ELSE {wgProxyRelay})
    /\ currentConnPriority' = Relay
    /\ statusRelay' = TRUE
    /\ wgProxyRelay' = r
    /\ UNCHANGED <<statusICE, wgProxyICE>>

onRelayConnectionIsReady(r) ==
    /\ MuFree /\ r \in ready
    /\ ready' = ready \ {r}
    /\ RelayTooLate(r) \/ RelayNoProxy(r) \/ RelayStandby(r) \/ RelayNotConfigured(r) \/ RelayActive(r)
    /\ UNCHANGED <<iceVars, openVars, relayedConn>>

\* also: a relayed connection that the caller closes first.
handleRelayDisconnected(also) ==
    LET p == IF currentConnPriority = Relay THEN None ELSE currentConnPriority
    IN /\ currentConnPriority' = p
       /\ IF currentConnPriority = Relay THEN RemoveEndpointAddress ELSE UNCHANGED wgVars
       /\ CloseRelayed({wgProxyRelay} \cup retired \cup also)
       /\ wgProxyRelay' = 0 /\ retired' = {}
       /\ statusRelay' = FALSE
       /\ disableWgWatcherIfNeeded(p)
       /\ UNCHANGED <<statusICE, wgProxyICE>>

\* Called when a proxy finds its connection closed and when a relay client loses its
\* server.  The call does not say which connection it is about and may come late.
onRelayDisconnected ==
    /\ MuFree /\ \E r \in Relayed : relayState[r] # "none"
    /\ Live
    /\ handleRelayDisconnected({})
    /\ UNCHANGED <<iceVars, openVars, ready, relayedConn>>

expireRetiredRelayProxy(r) ==
    /\ MuFree /\ r \in retired
    /\ retired' = retired \ {r}
    /\ CloseRelayed({r})
    /\ UNCHANGED <<iceVars, openVars, currentConnPriority, statusICE, statusRelay, wgProxyICE, wgProxyRelay,
                   ready, relayedConn, watchVars, wgVars>>

-----------------------------------------------------------------------------
(* The watcher goroutines. *)

\* The handshake is too old: onWGDisconnected is called.
WatchTimeout ==
    /\ wgWatcher = "run"
    /\ wgWatcher' = "timeout"
    /\ UNCHANGED <<iceVars, openVars, transportVars, relayVars, stale, wgVars>>

\* The handshake is fresh: onWGHandshakeSuccess, onWGCheckSuccess.  The watcher looks at
\* its context before the call, so it may be stale when it gets conn.mu.
onWGCheckSuccess ==
    /\ MuFree /\ (wgWatcher = "run" \/ "run" \in stale)
    /\ retired' = {}
    /\ CloseRelayed(retired)
    /\ UNCHANGED <<iceVars, openVars, currentConnPriority, statusICE, statusRelay, wgProxyICE, wgProxyRelay,
                   ready, relayedConn, watchVars, wgVars>>

\* A watcher whose context is done returns; one in onWGDisconnected needs conn.mu first.
StaleReturns(step) ==
    /\ step \in stale /\ (step = "timeout" => MuFree)
    /\ stale' = stale \ {step}
    /\ UNCHANGED <<iceVars, openVars, transportVars, relayVars, wgWatcher, wgVars>>

\* onWGDisconnected closes the active transport, and the watcher goroutine returns.
WGTimeoutRelay ==
    /\ currentConnPriority = Relay
    /\ handleRelayDisconnected({relayedConn})
    /\ UNCHANGED iceVars

WGTimeoutICE ==
    /\ currentConnPriority \in {ICETurn, ICEP2P}
    /\ CloseWorker(gen)
    /\ wgWatcher' = "ended"
    /\ UNCHANGED <<transportVars, relayState, stale, wgVars>>

WGTimeoutNone ==
    /\ currentConnPriority = None
    /\ wgWatcher' = "ended"
    /\ UNCHANGED <<iceVars, transportVars, relayState, stale, wgVars>>

onWGDisconnected ==
    /\ MuFree /\ Live /\ wgWatcher = "timeout"
    /\ WGTimeoutRelay \/ WGTimeoutICE \/ WGTimeoutNone
    /\ UNCHANGED <<openVars, ready, relayedConn>>

-----------------------------------------------------------------------------
AgentStep(a) ==
    /\ \/ DialSucceeds(a) \/ DialFails(a) \/ Commit(a)
       \/ PionConnects(a) \/ PionLoses(a)
       \/ OnConnected(a) \/ OnDisconnected(a)
    /\ UNCHANGED connVars

Next ==
    \/ Open \/ Close \/ CloseIgnored \/ ListenStops \/ GuardStops \/ WgDone \/ CloseReturn
    \/ ListenNoICE \/ \E sid \in Sessions \cup {NoSession} : ListenICE(sid)
    \/ \E a \in Agents : AgentStep(a) \/ onICEConnectionIsReady(a) \/ onICEStateDisconnected(a)
    \/ \E r \in Relayed : \/ \E g \in Workers : RelayOpened(g, r)
                          \/ onRelayConnectionIsReady(r) \/ expireRetiredRelayProxy(r)
    \/ onRelayDisconnected
    \/ WatchTimeout \/ onWGCheckSuccess \/ onWGDisconnected
    \/ \E step \in {"run", "timeout"} : StaleReturns(step)
    \/ scheduleDelayedUpdate

Safety == Init /\ [][Next]_vars

\* Listen, the guard and a watcher whose context is done return when they are
\* scheduled: their selects see the done context, and none of them waits for
\* anything but conn.mu, which sync.Mutex hands to every waiter in turn.
Fairness ==
    /\ WF_vars(ListenStops) /\ WF_vars(GuardStops) /\ WF_vars(WgDone) /\ WF_vars(CloseReturn)
    /\ \A step \in {"run", "timeout"} : WF_vars(StaleReturns(step))

Spec == Safety /\ Fairness

-----------------------------------------------------------------------------
\* Once Close has released conn.mu, and until the next Open, nothing of the
\* connection is left, and no late callback of ICE, relay or watcher brings it
\* back: no priority, no status, no proxy, no watcher, no delayed update that would
\* create a WireGuard peer, and no WireGuard peer but one that RemovePeer failed to
\* remove, which is as it was.
ClosedIsClean ==
    ~opened /\ MuFree =>
        /\ currentConnPriority = None /\ ~statusICE /\ ~statusRelay
        /\ ~wgProxyICE /\ wgProxyRelay = 0 /\ retired = {} /\ wgWatcher = "nil"
        /\ endpoint \in {"none", "left"} /\ delayed = "no"

\* The relay carries the traffic only while there is a proxy for it and its status is
\* connected; ICE only while its status is.
ActiveHasPath ==
    /\ currentConnPriority = Relay => wgProxyRelay # 0 /\ statusRelay
    /\ currentConnPriority \in {ICETurn, ICEP2P} => statusICE

\* While the connection is closed, a relayed connection is open only on its way to
\* onRelayConnectionIsReady, which closes it, or because newProxy failed for it.
NoRelayLeak ==
    \A r \in Relayed : ~opened /\ MuFree /\ relayState[r] = "open" => r \in ready

\* A call of Close returns, whatever the other goroutines are doing when it takes
\* conn.mu, unless the connection is opened again while it waits for the watchers.
CloseReturns == closing # {} ~> closing = {} \/ opened

\* What the comments of enableWgWatcherIfNeeded (a fresh watcher per connection
\* attempt) and of WGWatcher (run once, then discarded) say together: a relay that
\* carries the traffic is watched by a watcher that has not returned.
RelayIsWatched == currentConnPriority = Relay => wgWatcher \in {"run", "timeout"}
=============================================================================
