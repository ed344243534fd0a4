--------------------------- MODULE EphemeralManager ---------------------------
(***************************************************************************)
(* The management server's ephemeral manager: peers that were registered   *)
(* as ephemeral are put on a list when they disconnect and are deleted     *)
(* LifeTime later, by a cleanup that a timer starts.  With it, what of the *)
(* store and of the Sync handler it depends on: the stored status of the   *)
(* peers, the order in which a stream marks the status and tells the       *)
(* manager, and managerImpl.DeletePeers.                                   *)
(*                                                                         *)
(* There is no clock: deadlines and timers are kept as the time that is    *)
(* left, the last sign of life of a peer as its age.  Tick lets one unit   *)
(* pass.  A timer that is due may fire late.                               *)
(***************************************************************************)
EXTENDS Integers, Sequences, SequencesExt, FiniteSets

CONSTANTS
    Peers,          \* ephemeral peers of one account
    Timers,         \* names for AfterFunc timers and the cleanups they start
    NoTimer,
    LifeTime,       \* lifeTime (10 minutes)
    CleanupWindow,  \* cleanupWindow (1 minute)
    Slack,          \* the 10 seconds DeletePeers subtracts from the life time
    MaxRestarts     \* bound: crashes of the server

ASSUME EphemeralAssumption ==
    /\ IsFiniteSet(Peers) /\ NoTimer \notin Timers
    /\ LifeTime \in Nat /\ CleanupWindow \in Nat /\ Slack \in 0..LifeTime
    /\ MaxRestarts \in Nat

VARIABLES
    server,    \* how the server is deployed; see Deployment
    exists,    \* peers in the store
    connected, \* peers whose stored status is connected
    age,       \* time since LastSeen, up to LifeTime
    stream,    \* step of the Sync handler of a peer
    unmarked,  \* peers with a stream whose session MarkPeerConnected did not store
    list,      \* headPeer ..: ids of the linked list
    left,      \* time to the deadline of a peer on the list
    timer,     \* timer
    state,     \* of a timer: free, armed, fired (its cleanup waits), deleting
    delay,     \* time to the moment an armed timer is due
    batch,     \* peers a cleanup has taken off the list
    doomed,    \* the peer whose transaction found that it may be deleted
    restarts   \* crashes so far (bound)

\* Can calls of the store fail, a stream fail after its peer was marked connected
\* and the server crash?  Has the store a single connection (SQLite)?
Deployment == [faulty : BOOLEAN, oneConnection : BOOLEAN]

storeVars == <<server, exists, connected, age>>
listVars  == <<list, left>>
timerVars == <<timer, state, delay, batch, doomed, restarts>>
vars ==
    <<server, exists, connected, age, stream, unmarked, list, left, timer, state, delay, batch, doomed, restarts>>

TypeOK ==
    /\ server \in Deployment
    /\ exists \subseteq Peers /\ connected \subseteq Peers
    /\ age \in [Peers -> 0..LifeTime]
    /\ stream \in [Peers -> {"off", "mark", "connect", "on", "disconnect"}]
    /\ unmarked \subseteq Peers
    /\ list \in Seq(Peers) /\ IsInjective(list)
    /\ left \in [Peers -> 0..LifeTime]
    /\ timer \in Timers \cup {NoTimer}
    /\ state \in [Timers -> {"free", "armed", "fired", "deleting"}]
    /\ delay \in [Timers -> 0..(LifeTime + CleanupWindow)]
    /\ batch \in [Timers -> SUBSET Peers] /\ doomed \in [Timers -> SUBSET Peers]
    /\ restarts \in 0..MaxRestarts

\* The lists of the peers of a set, in any order.
Listings(set) == Injection(1..Cardinality(set), set)

\* The server starts with peers in the store; LoadInitialPeers lists them all.
Init ==
    /\ server \in Deployment
    /\ exists = Peers /\ connected = {}
    /\ age = [p \in Peers |-> LifeTime]
    /\ stream = [p \in Peers |-> "off"] /\ unmarked = {}
    /\ list \in Listings(Peers)
    /\ left = [p \in Peers |-> LifeTime]
    /\ timer \in Timers
    /\ state = [t \in Timers |-> IF t = timer THEN "armed" ELSE "free"]
    /\ delay = [t \in Timers |-> IF t = timer THEN LifeTime ELSE 0]
    /\ batch = [t \in Timers |-> {}] /\ doomed = [t \in Timers |-> {}]
    /\ restarts = 0

\* The store can be used: with a single connection a transaction excludes all others.
StoreFree == server.oneConnection => \A t \in Timers : doomed[t] = {}

OnList(p) == p \in Range(list)

\* time.AfterFunc: the timer is a fresh one.
AfterFunc(t, d) ==
    /\ timer' = t
    /\ state' = [state EXCEPT ![t] = "armed"]
    /\ delay' = [delay EXCEPT ![t] = d]

\* timer.Stop: too late for a timer whose cleanup has started.
StopTimer ==
    /\ timer' = NoTimer
    /\ state' = [state EXCEPT ![timer] = IF @ = "armed" THEN "free" ELSE @]
    /\ delay' = delay

Goto(p, step) == stream' = [stream EXCEPT ![p] = step]

-----------------------------------------------------------------------------
(* The Sync handler of a peer: its status is marked, then the manager told. *)

\* SyncPeer finds the peer.
SyncPeer(p) ==
    /\ stream[p] = "off" /\ p \in exists /\ StoreFree
    /\ Goto(p, "mark")
    /\ UNCHANGED <<storeVars, unmarked, listVars, timerVars>>

\* The session and the status are stored; when that fails SyncAndMarkPeer logs the
\* error and the stream goes on.
MarkPeerConnected(p) ==
    /\ stream[p] = "mark" /\ StoreFree
    /\ \/ /\ p \in exists
          /\ connected' = connected \cup {p} /\ age' = [age EXCEPT ![p] = 0]
          /\ unmarked' = unmarked \ {p}
       \/ /\ server.faulty \/ p \notin exists
          /\ unmarked' = unmarked \cup {p}
          /\ UNCHANGED <<connected, age>>
    /\ Goto(p, "connect")
    /\ UNCHANGED <<server, exists, listVars, timerVars>>

removePeer(p) ==
    IF OnList(p)
    THEN \E i \in DOMAIN list : list[i] = p /\ list' = RemoveAt(list, i)
    ELSE list' = list

\* Variant of OnPeerConnected: the peer is not taken off the list.
ConnectedKeepsEntry(p) ==
    /\ stream[p] = "connect" /\ p \in exists /\ StoreFree
    /\ Goto(p, "on")
    /\ UNCHANGED <<storeVars, unmarked, listVars, timerVars>>

\* Controller.OnPeerConnected: the peer is looked up again, then taken off the
\* list; a timer nobody needs is stopped.
OnPeerConnected(p) ==
    /\ stream[p] = "connect" /\ p \in exists /\ StoreFree
    /\ removePeer(p)
    /\ IF list' = <<>> /\ timer # NoTimer THEN StopTimer ELSE UNCHANGED <<timer, state, delay>>
    /\ Goto(p, "on")
    /\ UNCHANGED <<storeVars, unmarked, left, batch, doomed, restarts>>

\* The handler cleans up: its stream is over, the initial sync could not be sent
\* (before OnPeerConnected), or the peer is gone.  The status is that of another
\* session when this one was not stored; an error is logged and the handler goes on.
MarkPeerDisconnected(p) ==
    /\ \/ stream[p] = "on"
       \/ stream[p] = "connect" /\ (server.faulty \/ p \notin exists)
    /\ StoreFree
    /\ \/ /\ p \notin unmarked
          /\ connected' = connected \ {p}
          /\ age' = IF p \in exists THEN [age EXCEPT ![p] = 0] ELSE age
       \/ /\ server.faulty \/ p \in unmarked
          /\ UNCHANGED <<connected, age>>
    /\ unmarked' = unmarked \ {p}
    /\ Goto(p, "disconnect")
    /\ UNCHANGED <<server, exists, listVars, timerVars>>

\* Variant of AddPeer: no timer is started.
AddPeerOnly(p) ==
    /\ list' = Append(list, p)
    /\ left' = [left EXCEPT ![p] = LifeTime]
    /\ UNCHANGED <<timer, state, delay>>

\* addPeer, and the timer unless there is one.
AddPeer(p) ==
    /\ list' = Append(list, p)
    /\ left' = [left EXCEPT ![p] = LifeTime]
    /\ IF timer = NoTimer
       THEN \E t \in Timers : state[t] = "free" /\ AfterFunc(t, left'[Head(list')] + CleanupWindow)
       ELSE UNCHANGED <<timer, state, delay>>

\* Variant of IsTracked: a peer that a cleanup has taken off counts as listed.
IsTrackedOrTaken(p) == p \notin exists \/ OnList(p) \/ \E t \in Timers : p \in batch[t]

\* Nothing to do: the peer is not in the store any more, or on the list.
IsTracked(p) == p \notin exists \/ OnList(p)

\* Controller.OnPeerDisconnected: the peer is looked up, which may fail, and put on
\* the list.
OnPeerDisconnected(p) ==
    /\ stream[p] = "disconnect" /\ StoreFree
    /\ \/ ~IsTracked(p) /\ AddPeer(p)
       \/ /\ server.faulty \/ IsTracked(p)
          /\ UNCHANGED <<listVars, timer, state, delay>>
    /\ Goto(p, "off")
    /\ UNCHANGED <<storeVars, unmarked, batch, doomed, restarts>>

\* A peer registers; it is tracked before the transaction that adds it commits.
\* The name of a peer is free again when nothing refers to the one that had it.
TrackEphemeralPeer(p) ==
    /\ p \notin exists /\ stream[p] = "off" /\ StoreFree
    /\ ~OnList(p) /\ \A t \in Timers : p \notin batch[t] \cup doomed[t]
    /\ AddPeer(p)
    /\ \/ /\ exists' = exists \cup {p} /\ connected' = connected \ {p}
          /\ age' = [age EXCEPT ![p] = 0]
       \/ server.faulty /\ UNCHANGED <<exists, connected, age>>
    /\ UNCHANGED <<server, stream, unmarked, batch, doomed, restarts>>

-----------------------------------------------------------------------------
(* The cleanup. *)

TimerFires(t) ==
    /\ state[t] = "armed" /\ delay[t] = 0
    /\ state' = [state EXCEPT ![t] = "fired"]
    /\ UNCHANGED <<storeVars, stream, unmarked, listVars, timer, delay, batch, doomed, restarts>>

\* The first n entries are those at the head of the list whose deadline has passed.
Expired(n) ==
    /\ \A i \in 1..n : left[list[i]] = 0
    /\ n < Len(list) => left[list[n + 1]] > 0

\* The next cleanup is scheduled for the new head of the list.
Rearm(t) ==
    IF list' = <<>>
    THEN /\ timer' = NoTimer
         /\ state' = [state EXCEPT ![t] = "deleting"]
         /\ delay' = delay
    ELSE \E u \in Timers :
         /\ state[u] = "free"
         /\ timer' = u
         /\ state' = [state EXCEPT ![t] = "deleting", ![u] = "armed"]
         /\ delay' = [delay EXCEPT ![u] = left[Head(list')] + CleanupWindow]

\* cleanup, under the lock.
Cleanup(t) ==
    /\ state[t] = "fired"
    /\ \E n \in 0..Len(list) :
         /\ Expired(n)
         /\ batch' = [batch EXCEPT ![t] = {list[i] : i \in 1..n}]
         /\ list' = SubSeq(list, n + 1, Len(list))
    /\ Rearm(t)
    /\ UNCHANGED <<storeVars, stream, unmarked, left, doomed, restarts>>

\* Variant of MayDelete: the status is not looked at again.
MayDeleteListed(p) == p \in exists

\* DeletePeers skips a peer that is connected or was seen lately.
MayDelete(p) == p \in exists /\ p \notin connected /\ age[p] >= LifeTime - Slack

\* DeletePeers, one transaction per peer, without the lock of the manager: the
\* peer is read and its status looked at ...
CheckPeer(t, p) ==
    /\ state[t] = "deleting" /\ p \in batch[t] /\ doomed[t] = {} /\ StoreFree
    /\ batch' = [batch EXCEPT ![t] = @ \ {p}]
    /\ doomed' = IF MayDelete(p) THEN [doomed EXCEPT ![t] = {p}] ELSE doomed
    /\ UNCHANGED <<storeVars, stream, unmarked, listVars, timer, state, delay, restarts>>

\* ... and it is deleted.
DeletePeer(t) ==
    /\ doomed[t] # {}
    /\ \/ exists' = exists \ doomed[t]
       \/ server.faulty /\ exists' = exists
    /\ doomed' = [doomed EXCEPT ![t] = {}]
    /\ UNCHANGED <<server, connected, age, stream, unmarked, listVars, timer, state, delay, batch, restarts>>

CleanupEnds(t) ==
    /\ state[t] = "deleting" /\ batch[t] = {} /\ doomed[t] = {}
    /\ state' = [state EXCEPT ![t] = "free"]
    /\ UNCHANGED <<storeVars, stream, unmarked, listVars, timer, delay, batch, doomed, restarts>>

-----------------------------------------------------------------------------
Less(n) == IF n = 0 THEN 0 ELSE n - 1

Tick ==
    /\ age' = [p \in Peers |-> IF age[p] < LifeTime THEN age[p] + 1 ELSE age[p]]
    /\ left' = [p \in Peers |-> Less(left[p])]
    /\ delay' = [t \in Timers |-> Less(delay[t])]
    /\ UNCHANGED <<server, exists, connected, stream, unmarked, list, timer, state, batch, doomed, restarts>>

\* The server crashes and is started again: the store is as it was, and
\* LoadInitialPeers lists every peer in it.
Restart ==
    /\ server.faulty /\ restarts < MaxRestarts /\ restarts' = restarts + 1
    /\ stream' = [p \in Peers |-> "off"] /\ unmarked' = {}
    /\ list' \in Listings(exists)
    /\ left' = [p \in Peers |-> LifeTime]
    /\ batch' = [t \in Timers |-> {}] /\ doomed' = [t \in Timers |-> {}]
    /\ IF exists = {}
       THEN /\ timer' = NoTimer
            /\ state' = [t \in Timers |-> "free"] /\ delay' = [t \in Timers |-> 0]
       ELSE \E u \in Timers :
            /\ timer' = u
            /\ state' = [t \in Timers |-> IF t = u THEN "armed" ELSE "free"]
            /\ delay' = [t \in Timers |-> IF t = u THEN LifeTime ELSE 0]
    /\ UNCHANGED storeVars

CleanupStep(t) ==
    \/ TimerFires(t) \/ Cleanup(t) \/ DeletePeer(t) \/ CleanupEnds(t)
    \/ \E p \in Peers : CheckPeer(t, p)

StreamGoesOn(p) ==
    \/ MarkPeerConnected(p) \/ OnPeerConnected(p) \/ OnPeerDisconnected(p)
    \/ stream[p] = "connect" /\ MarkPeerDisconnected(p)

Next ==
    \/ \E p \in Peers : SyncPeer(p) \/ StreamGoesOn(p) \/ MarkPeerDisconnected(p) \/ TrackEphemeralPeer(p)
    \/ \E t \in Timers : CleanupStep(t)
    \/ Tick \/ Restart

\* Time passes, handlers and cleanups that started go on, due timers fire.
Fairness ==
    /\ WF_vars(Tick)
    /\ \A p \in Peers : WF_vars(StreamGoesOn(p))
    /\ \A t \in Timers : WF_vars(CleanupStep(t))

Spec == Init /\ [][Next]_vars /\ Fairness

-----------------------------------------------------------------------------
(* Properties. *)

\* ActiveStays: a peer with a stream that is served has not been deleted by a
\* cleanup that had taken it off the list before it connected.  The comment on
\* OnPeerConnected: "Because it has been called when the peer is active the manager
\* will not delete it while it is active."  With several connections to the store
\* the status is read, unlocked, before the deletion, and it does not hold.  Nor does
\* it for a peer whose MarkPeerConnected failed: it is served, but the store has it
\* as disconnected.
ActiveStays ==
    server.oneConnection => \A p \in Peers : stream[p] = "on" => p \in exists \cup unmarked

\* ActiveNotListed: nor is it on the list, where the next cleanup would take it.
ActiveNotListed == \A p \in Peers : stream[p] = "on" => ~OnList(p)

\* CleanupScheduled: while peers wait on the list a timer is armed or a cleanup is
\* about to run, also after a cleanup that was already started when its timer
\* was stopped.
CleanupScheduled == list # <<>> => \E t \in Timers : state[t] \in {"armed", "fired"}

\* InactiveDeleted: a peer that is not connected and does not come back is
\* deleted.  The comment on EphemeralManager: "After EphemeralLifeTime inactivity
\* the peer will be deleted automatically.  Inactivity means the peer disconnected
\* from the Management server."
InactiveDeleted ==
    \A p \in Peers :
        (~server.faulty /\ stream[p] = "off" /\ p \in exists)
        ~> (stream[p] # "off" \/ p \notin exists)
===============================================================================
