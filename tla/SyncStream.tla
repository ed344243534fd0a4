------------------------------ MODULE SyncStream ------------------------------
(***************************************************************************)
(* The management server's Sync streams of ONE peer (Server.Sync of the    *)
(* gRPC server, cancelPeerRoutines, PeerUpdateHandler.HandleUpdates), the  *)
(* update channels (PeersUpdateManager), the refresh of relay credentials  *)
(* (TimeBasedAuthSecretsManager) and the stored connection status          *)
(* (MarkPeerConnected, MarkPeerDisconnected).                              *)
(*                                                                         *)
(* step[s] is the handler of stream s.  The peer lock is held in the steps *)
(* LockedSteps; everything else (pushing an update, disconnecting a peer,  *)
(* the refresh) runs beside it.  Peers share only syncSem.                 *)
(*                                                                         *)
(* A stream creates at most one update channel, so a channel is named by   *)
(* the stream that created it.  An update carries the serial of the        *)
(* network map it was computed from; ControlConfig carries none.           *)
(***************************************************************************)
EXTENDS Integers, Sequences, FiniteSets

CONSTANTS
    Streams,        \* Sync calls of the peer
    NoStream,       \* no channel, no refresh
    Updates,        \* changes of the account, each pushed by a goroutine
    ChanCap,        \* channelBufferSize (100 in the code)
    SyncLim,        \* syncLim
    MaxClock,       \* bound: stream start times are readings 1..MaxClock
    MaxTicks,       \* bound: ticks of the credentials refresh
    StoreMayFail,   \* can reads and writes of the database fail?
    MayRestart      \* can the server stop and be started again?

ASSUME SyncAssumption ==
    /\ IsFiniteSet(Streams) /\ NoStream \notin Streams
    /\ ChanCap \in Nat \ {0}
    /\ SyncLim \in Nat
    /\ MaxClock \in Nat /\ MaxTicks \in Nat
    /\ StoreMayFail \in BOOLEAN /\ MayRestart \in BOOLEAN

ControlConfig == 0

VARIABLES
    step,      \* step of Server.Sync
    token,     \* syncStart of the stream
    ended,     \* srv.Context() is done
    syncSem,   \* syncSem
    channel,   \* peerChannels[peerID]
    closed,    \* channels that were closed
    queue,     \* contents of the channels
    connected, \* PeerStatus.Connected
    session,   \* PeerStatus.SessionStartedAt
    refresher, \* relayCancelMap[peerID]: the refresh goroutine that runs
    listed,    \* the peer is on the list of the ephemeral manager
    serial,    \* serial of the account's network map
    netMap,    \* serial of the map SyncAndMarkPeer computed
    sent,      \* greatest serial sent on the stream
    push,      \* step of the goroutine that pushes a change
    pushed,    \* serial of the map it computed
    ticking,   \* a refresh goroutine is making new credentials
    ticks,     \* ticks of the refresh goroutines so far (bound)
    opened     \* history: serial when the stream's channel was created

streamVars == <<step, token, ended>>
chanVars   == <<channel, closed, queue>>
statusVars == <<connected, session>>
mapVars    == <<serial, netMap, sent, ticking, ticks, opened>>
pushVars   == <<push, pushed>>
vars == <<step, token, ended, syncSem, channel, closed, queue, connected, session,
          refresher, listed, serial, netMap, sent, push, pushed, ticking, ticks, opened>>

\* Variant of LockedSteps: a handler that returns keeps the peer lock.
LockedNoUnlock ==
    {"sync", "mark", "initial", "connect", "refresh", "abort", "disconnect", "close",
     "cancel", "done"}

LockedSteps ==
    {"sync", "mark", "initial", "connect", "refresh", "abort", "disconnect", "close", "cancel"}
Steps == LockedSteps \cup {"idle", "admitted", "entered", "lock", "release", "serve", "relock", "done"}

TypeOK ==
    /\ step \in [Streams -> Steps]
    /\ token \in [Streams -> Nat]
    /\ ended \in [Streams -> BOOLEAN]
    /\ syncSem \in Int
    /\ channel \in Streams \cup {NoStream}
    /\ closed \subseteq Streams
    /\ queue \in [Streams -> Seq(Nat)]
    /\ \A s \in Streams : Len(queue[s]) <= ChanCap
    /\ connected \in BOOLEAN /\ session \in Nat
    /\ refresher \in Streams \cup {NoStream}
    /\ listed \in BOOLEAN
    /\ serial \in Nat
    /\ netMap \in [Streams -> Nat] /\ sent \in [Streams -> Nat]
    /\ push \in [Updates -> {"idle", "load", "check", "send", "done", "failed"}]
    /\ pushed \in [Updates -> Nat]
    /\ ticking \in BOOLEAN /\ ticks \in 0..MaxTicks
    /\ opened \in [Streams -> Nat]

Init ==
    /\ step = [s \in Streams |-> "idle"]
    /\ token = [s \in Streams |-> 0]
    /\ ended = [s \in Streams |-> FALSE]
    /\ syncSem = 0
    /\ channel = NoStream /\ closed = {}
    /\ queue = [s \in Streams |-> <<>>]
    /\ connected = FALSE /\ session = 0
    /\ refresher = NoStream
    /\ listed = TRUE
    /\ serial = 1
    /\ netMap = [s \in Streams |-> 0] /\ sent = [s \in Streams |-> 0]
    /\ push = [u \in Updates |-> "idle"]
    /\ pushed = [u \in Updates |-> 0]
    /\ ticking = FALSE /\ ticks = 0
    /\ opened = [s \in Streams |-> 0]

Goto(s, next) == step' = [step EXCEPT ![s] = next]

\* Variant of LockFree: no peer lock.
LockIgnored == TRUE

\* acquirePeerLockByUID.
LockFree == \A s \in Streams : step[s] \notin LockedSteps

-----------------------------------------------------------------------------
(* PeersUpdateManager. *)

\* Variant of CloseRegistered: the closed channel stays in the map.
CloseNoDelete ==
    IF channel = NoStream THEN UNCHANGED <<channel, closed>>
    ELSE channel' = channel /\ closed' = closed \cup {channel}

\* closeChannel.
CloseRegistered ==
    IF channel = NoStream THEN UNCHANGED <<channel, closed>>
    ELSE channel' = NoStream /\ closed' = closed \cup {channel}

\* Variant of CreateChannel: a channel that is already registered is kept.
CreateKeepsOld(s) ==
    /\ closed' = closed
    /\ channel' = IF channel = NoStream THEN s ELSE channel

\* CreateChannel: a channel that is already registered is closed.
CreateChannel(s) ==
    /\ closed' = IF channel = NoStream THEN closed ELSE closed \cup {channel}
    /\ channel' = s

HasRoom(s) == Len(queue[s]) < ChanCap

\* SendUpdate: without a channel, or when it is full, the update is dropped.
SendUpdate(update) ==
    queue' = IF channel # NoStream /\ HasRoom(channel)
             THEN [queue EXCEPT ![channel] = Append(@, update)] ELSE queue

-----------------------------------------------------------------------------
(* Server.Sync. *)

\* The limit on concurrent syncs is checked, then the call is counted.
CheckLimit(s) ==
    /\ step[s] = "idle"
    /\ Goto(s, IF syncSem >= SyncLim THEN "done" ELSE "admitted")
    /\ UNCHANGED <<token, ended, syncSem, chanVars, statusVars, refresher, listed, mapVars, pushVars>>

Sync(s, now) ==
    /\ step[s] = "admitted"
    /\ syncSem' = syncSem + 1
    /\ token' = [token EXCEPT ![s] = now]
    /\ Goto(s, "entered")
    /\ UNCHANGED <<ended, chanVars, statusVars, refresher, listed, mapVars, pushVars>>

\* Up to the peer lock: the request is parsed, the login filter asked and the
\* account looked up; each may end the call.
Validate(s) ==
    /\ step[s] = "entered"
    /\ \/ Goto(s, "lock") /\ syncSem' = syncSem
       \/ Goto(s, "done") /\ syncSem' = syncSem - 1
    /\ UNCHANGED <<token, ended, chanVars, statusVars, refresher, listed, mapVars, pushVars>>

LockPeer(s) ==
    /\ step[s] = "lock" /\ LockFree
    /\ Goto(s, "sync")
    /\ UNCHANGED <<token, ended, syncSem, chanVars, statusVars, refresher, listed, mapVars, pushVars>>

\* Variant of SyncPeer: a failure forgets the semaphore.
SyncPeerKeepsSem(s) ==
    /\ step[s] = "sync"
    /\ \/ Goto(s, "mark") /\ netMap' = [netMap EXCEPT ![s] = serial]
       \/ Goto(s, "done") /\ netMap' = netMap
    /\ UNCHANGED <<token, ended, syncSem, chanVars, statusVars, refresher, listed, serial, sent, ticking, ticks, opened, pushVars>>

\* SyncPeer computes the network map; a failure ends the call.
SyncPeer(s) ==
    /\ step[s] = "sync"
    /\ \/ /\ Goto(s, "mark") /\ syncSem' = syncSem
          /\ netMap' = [netMap EXCEPT ![s] = serial]
       \/ Goto(s, "done") /\ syncSem' = syncSem - 1 /\ netMap' = netMap
    /\ UNCHANGED <<token, ended, chanVars, statusVars, refresher, listed, serial, sent, ticking, ticks, opened, pushVars>>

\* An UPDATE of the store under the context of a stream that is over fails.
\* cancelPeerRoutines detaches the context (WithoutCancel), Sync does not.
Canceled(s) == ended[s] /\ step[s] # "disconnect"

\* MarkPeerConnectedIfNewerSession; its failure is only logged.
MarkPeerConnected(s) ==
    /\ step[s] = "mark"
    /\ \/ /\ session < token[s] /\ ~Canceled(s)
          /\ connected' = TRUE /\ session' = token[s]
       \/ /\ session >= token[s] \/ Canceled(s) \/ StoreMayFail
          /\ UNCHANGED statusVars
    /\ Goto(s, "initial")
    /\ UNCHANGED <<token, ended, syncSem, chanVars, refresher, listed, mapVars, pushVars>>

\* sendInitialSync; a failure cleans up with the lock held and with the context
\* of the stream.
SendInitialSync(s) ==
    /\ step[s] = "initial"
    /\ \/ /\ Goto(s, "connect") /\ syncSem' = syncSem
          /\ sent' = [sent EXCEPT ![s] = netMap[s]]
       \/ Goto(s, "abort") /\ syncSem' = syncSem - 1 /\ sent' = sent
    /\ UNCHANGED <<token, ended, chanVars, statusVars, refresher, listed, serial, netMap, ticking, ticks, opened, pushVars>>

\* Controller.OnPeerConnected.
OnPeerConnected(s) ==
    /\ step[s] = "connect"
    /\ \/ /\ listed' = FALSE
          /\ CreateChannel(s)
          /\ opened' = [opened EXCEPT ![s] = serial]
          /\ Goto(s, "refresh") /\ syncSem' = syncSem
       \/ /\ StoreMayFail
          /\ Goto(s, "abort") /\ syncSem' = syncSem - 1
          /\ UNCHANGED <<listed, channel, closed, opened>>
    /\ UNCHANGED <<token, ended, queue, statusVars, refresher, serial, netMap, sent, ticking, ticks, pushVars>>

\* SetupRefresh replaces the refresh goroutine; the peer lock is released.
SetupRefresh(s) ==
    /\ step[s] = "refresh"
    /\ refresher' = s
    /\ Goto(s, "release")
    /\ UNCHANGED <<token, ended, syncSem, chanVars, statusVars, listed, mapVars, pushVars>>

Release(s) ==
    /\ step[s] = "release"
    /\ syncSem' = syncSem - 1
    /\ Goto(s, "serve")
    /\ UNCHANGED <<token, ended, chanVars, statusVars, refresher, listed, mapVars, pushVars>>

-----------------------------------------------------------------------------
(* PeerUpdateHandler.HandleUpdates: the select and its three cases. *)

\* An update is received and sent (at once, or after the debounce interval:
\* UpdateDebouncer); when the send fails the handler cleans up.
HandleUpdate(s) ==
    /\ step[s] = "serve" /\ queue[s] # <<>>
    /\ queue' = [queue EXCEPT ![s] = Tail(@)]
    /\ \/ /\ sent' = [sent EXCEPT ![s] = IF Head(queue[s]) > @ THEN Head(queue[s]) ELSE @]
          /\ step' = step
       \/ Goto(s, "relock") /\ sent' = sent
    /\ UNCHANGED <<token, ended, syncSem, channel, closed, statusVars, refresher, listed, serial, netMap, ticking, ticks, opened, pushVars>>

\* Variant of ChannelClosed: the handler returns without the cleanup.
ChannelClosedReturns(s) ==
    /\ step[s] = "serve" /\ s \in closed /\ queue[s] = <<>>
    /\ Goto(s, "done")
    /\ UNCHANGED <<token, ended, syncSem, chanVars, statusVars, refresher, listed, mapVars, pushVars>>

ChannelClosed(s) ==
    /\ step[s] = "serve" /\ s \in closed /\ queue[s] = <<>>
    /\ Goto(s, "relock")
    /\ UNCHANGED <<token, ended, syncSem, chanVars, statusVars, refresher, listed, mapVars, pushVars>>

StreamEnded(s) ==
    /\ step[s] = "serve" /\ ended[s]
    /\ Goto(s, "relock")
    /\ UNCHANGED <<token, ended, syncSem, chanVars, statusVars, refresher, listed, mapVars, pushVars>>

-----------------------------------------------------------------------------
(* cancelPeerRoutines. *)

CancelPeerRoutines(s) ==
    /\ step[s] = "relock" /\ LockFree
    /\ Goto(s, "disconnect")
    /\ UNCHANGED <<token, ended, syncSem, chanVars, statusVars, refresher, listed, mapVars, pushVars>>

OwnsSession(s) == session = token[s]

\* MarkPeerDisconnectedIfSameSession; its failure is only logged.
MarkPeerDisconnected(s) ==
    /\ step[s] \in {"abort", "disconnect"}
    /\ \/ /\ OwnsSession(s) /\ ~Canceled(s)
          /\ connected' = FALSE /\ session' = 0
       \/ /\ ~OwnsSession(s) \/ Canceled(s) \/ StoreMayFail
          /\ UNCHANGED statusVars
    /\ Goto(s, "close")
    /\ UNCHANGED <<token, ended, syncSem, chanVars, refresher, listed, mapVars, pushVars>>

\* Controller.OnPeerDisconnected: CloseChannel, then the ephemeral list.
OnPeerDisconnected(s) ==
    /\ step[s] = "close"
    /\ CloseRegistered
    /\ \/ listed' = TRUE
       \/ StoreMayFail /\ listed' = listed
    /\ Goto(s, "cancel")
    /\ UNCHANGED <<token, ended, syncSem, queue, statusVars, refresher, mapVars, pushVars>>

CancelRefresh(s) ==
    /\ step[s] = "cancel"
    /\ refresher' = NoStream
    /\ Goto(s, "done")
    /\ UNCHANGED <<token, ended, syncSem, chanVars, statusVars, listed, mapVars, pushVars>>

-----------------------------------------------------------------------------
(* What runs beside the streams. *)

ClientLeaves(s) ==
    /\ step[s] \notin {"idle", "done"} /\ ~ended[s]
    /\ ended' = [ended EXCEPT ![s] = TRUE]
    /\ UNCHANGED <<step, token, syncSem, chanVars, statusVars, refresher, listed, mapVars, pushVars>>

\* Controller.DisconnectPeers: the channel is closed without the peer lock.
DisconnectPeers ==
    /\ channel # NoStream
    /\ CloseRegistered
    /\ UNCHANGED <<streamVars, syncSem, queue, statusVars, refresher, listed, mapVars, pushVars>>

\* The ticker of the refresh goroutine fires ...
RefreshTick ==
    /\ refresher # NoStream /\ ~ticking
    /\ ticks < MaxTicks
    /\ ticking' = TRUE /\ ticks' = ticks + 1
    /\ UNCHANGED <<streamVars, syncSem, chanVars, statusVars, refresher, listed,
                   serial, netMap, sent, opened, pushVars>>

\* ... and the new credentials are pushed, whether or not the refresh has been
\* cancelled meanwhile.
PushNewRelayTokens ==
    /\ ticking
    /\ ticking' = FALSE
    /\ SendUpdate(ControlConfig)
    /\ UNCHANGED <<streamVars, syncSem, channel, closed, statusVars, refresher, listed,
                   serial, netMap, sent, ticks, opened, pushVars>>

\* The account changes; UpdateAccountPeers is started for it.
AccountChanges(u) ==
    /\ push[u] = "idle"
    /\ serial' = serial + 1
    /\ push' = [push EXCEPT ![u] = "load"]
    /\ UNCHANGED <<streamVars, syncSem, chanVars, statusVars, refresher, listed, netMap, sent, ticking, ticks, opened, pushed>>

\* sendUpdateAccountPeers loads the account; if that fails nobody is told ...
LoadAccount(u) ==
    /\ push[u] = "load"
    /\ \/ push' = [push EXCEPT ![u] = "check"]
       \/ StoreMayFail /\ push' = [push EXCEPT ![u] = "failed"]
    /\ pushed' = [pushed EXCEPT ![u] = serial]
    /\ UNCHANGED <<streamVars, syncSem, chanVars, statusVars, refresher, listed, mapVars>>

\* ... computes the map of every peer that has a channel ...
ComputeMap(u) ==
    /\ push[u] = "check"
    /\ push' = [push EXCEPT ![u] = IF channel = NoStream THEN "done" ELSE "send"]
    /\ UNCHANGED <<streamVars, syncSem, chanVars, statusVars, refresher, listed, mapVars, pushed>>

\* ... and sends it.
PushUpdate(u) ==
    /\ push[u] = "send"
    /\ SendUpdate(pushed[u])
    /\ push' = [push EXCEPT ![u] = "done"]
    /\ UNCHANGED <<streamVars, syncSem, channel, closed, statusVars, refresher, listed, mapVars, pushed>>

\* The server stops and is started again: what it keeps in memory is gone, the
\* stored status stays, and the ephemeral peers are loaded from the store.
Restart ==
    /\ MayRestart
    /\ \E s \in Streams : step[s] \notin {"idle", "done"}
    /\ step' = [s \in Streams |-> IF step[s] = "idle" THEN "idle" ELSE "done"]
    /\ push' = [u \in Updates |-> IF push[u] = "idle" THEN "idle" ELSE "done"]
    /\ syncSem' = 0
    /\ channel' = NoStream
    /\ refresher' = NoStream /\ ticking' = FALSE
    /\ listed' = TRUE
    /\ UNCHANGED <<token, ended, closed, queue, statusVars, serial, netMap, sent, pushed, ticks, opened>>

-----------------------------------------------------------------------------
HandlerStep(s) ==
    \/ \E now \in 1..MaxClock : Sync(s, now)
    \/ Validate(s) \/ LockPeer(s) \/ SyncPeer(s) \/ MarkPeerConnected(s)
    \/ SendInitialSync(s) \/ OnPeerConnected(s) \/ SetupRefresh(s) \/ Release(s)
    \/ HandleUpdate(s) \/ ChannelClosed(s) \/ StreamEnded(s)
    \/ CancelPeerRoutines(s) \/ MarkPeerDisconnected(s) \/ OnPeerDisconnected(s)
    \/ CancelRefresh(s)

PushStep(u) == LoadAccount(u) \/ ComputeMap(u) \/ PushUpdate(u)

Environment ==
    \/ DisconnectPeers \/ RefreshTick \/ PushNewRelayTokens \/ Restart
    \/ \E s \in Streams : CheckLimit(s) \/ ClientLeaves(s)
    \/ \E u \in Updates : AccountChanges(u)

Next ==
    \/ Environment
    \/ \E s \in Streams : HandlerStep(s)
    \/ \E u \in Updates : PushStep(u)

\* Handlers and pushing goroutines go on.  The peer lock is a sync.RWMutex,
\* which hands itself to a waiter that waited for 1 ms: a waiter gets it.  The
\* select of HandleUpdates chooses at random, so it does not pass over the end
\* of the stream for ever.
Fairness ==
    /\ \A s \in Streams : SF_vars(HandlerStep(s)) /\ SF_vars(StreamEnded(s))
    /\ \A u \in Updates : WF_vars(PushStep(u))

Spec == Init /\ [][Next]_vars /\ Fairness

-----------------------------------------------------------------------------
(* Properties. *)

\* NeverClosed: the registered channel is open, so SendUpdate never sends on a
\* closed channel and no channel is closed twice; both would panic.
NeverClosed == channel \notin closed

\* WholeSession: while nobody holds the peer lock, a peer with a registered
\* channel of a stream that is not over is stored as connected, has its
\* credentials refreshed and is not on the list of ephemeral peers to delete.
WholeSession ==
    (/\ \A s \in Streams : step[s] \notin LockedSteps
     /\ channel # NoStream /\ ~ended[channel])
    => connected /\ refresher # NoStream /\ ~listed

Handled(s) == step[s] \notin {"idle", "admitted", "entered", "lock", "done"}

\* NothingLeftBehind: when no stream of the peer is being handled any more it
\* has neither channel nor refresh goroutine and is on the list of ephemeral
\* peers, whatever streams came, failed and overlapped before.
NothingLeftBehind ==
    (\A s \in Streams : ~Handled(s)) => channel = NoStream /\ refresher = NoStream /\ listed

\* SessionIsActive: when no stream of the peer is being handled any more, the
\* store has it as disconnected, without a session.  The comment on
\* PeerStatus.SessionStartedAt: it "records when the currently-active sync
\* stream began"; "Zero means "no active session"".  It does not hold.
SessionIsActive ==
    (\A s \in Streams : ~Handled(s)) => ~connected /\ session = 0

\* SemBalanced: syncSem counts the calls that were admitted and have not got to
\* serving, on every error path.
Counted == {s \in Streams : step[s] \in {"entered", "lock", "sync", "mark", "initial", "connect", "refresh", "release"}}

SemBalanced == syncSem = Cardinality(Counted)

PushesOver == \A u \in Updates : push[u] \in {"idle", "done"}

\* The current map was sent on s or is on its way.
UpToDate(s) == sent[s] = serial \/ \E i \in DOMAIN queue[s] : queue[s][i] = serial

\* UpdatesReachStream: once the pushes of all changes are over, a stream that is
\* being served has sent, or has in its channel, the current network map if the
\* account changed after the channel was created, its push could load the account
\* and the channel had room, although streams replace one another meanwhile.
UpdatesReachStream ==
    PushesOver =>
        \A s \in Streams :
            (step[s] = "serve" /\ s \notin closed /\ serial > opened[s]) => UpToDate(s)

\* StreamsLeave: the handler of a stream whose client left or whose channel was
\* closed returns.
StreamsLeave ==
    \A s \in Streams : (Handled(s) /\ (ended[s] \/ s \in closed)) ~> (step[s] = "done")

\* ReplacedIsIgnored: the disconnect of a stream whose session a newer stream
\* has taken over changes nothing.  The comment on OnPeerDisconnected: "A
\* mismatch means a newer stream has already replaced us, so the disconnect is
\* dropped."
ReplacedIsIgnored ==
    [][\A s \in Streams :
        (step[s] = "close" /\ step'[s] # "close" /\ session > token[s]) => channel' = channel]_vars

\* NoUpdateMissed: once the pushes of all changes are over, a stream that is
\* being served has sent the current network map or has it in its channel.  The
\* comment on Sync: it "sends an initial state (all available for the connecting
\* peers) and notifies the connected peer of any updates".  It does not hold.
NoUpdateMissed ==
    PushesOver => \A s \in Streams : (step[s] = "serve" /\ s \notin closed) => UpToDate(s)
===============================================================================
