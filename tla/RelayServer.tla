----------------------------- MODULE RelayServer -----------------------------
(***************************************************************************)
(* The relay server's peer store and its peer-state notifications:         *)
(* relay/server/relay.go (Accept, Shutdown), relay/server/peer.go (Work,   *)
(* the subscribe and unsubscribe handlers, the two notification writers)   *)
(* and relay/server/store (Store, PeerNotifier, Listener).                 *)
(*                                                                         *)
(* Every connection c runs three threads of the code:                      *)
(*   accept[c]  the caller of Relay.Accept(conn);                          *)
(*   work[c]    the goroutine it starts: Peer.Work, DeletePeer and         *)
(*              PeerWentOffline;                                           *)
(*   lstep[c]   the goroutine Listener.listenForEvents of its listener.    *)
(* A thread that publishes an event (accept[c] = "online" or work[c] =     *)
(* "offline") holds notifier.listenersMutex for reading and visits the     *)
(* listeners one by one; when a listener's eventChan is full it blocks     *)
(* with that listener's mu held (holding[c]).                              *)
(*                                                                         *)
(* Locks.  A critical section in which the code cannot block is one        *)
(* action.  The locks that ARE held across steps appear as guards:         *)
(*   closeMu            read: AcceptRunning, write: shutdown = "closing"   *)
(*   listenersMutex     read: Publishing                                   *)
(*   Listener.mu        MuHolders                                          *)
(*   notificationMutex and all shard locks (read): work[c] = "subscribe";  *)
(*   notificationMutex alone: work[c] = "reply".                           *)
(* A write to a connection takes at most the transport's write timeout and *)
(* is one step; it reaches the client iff the connection is still open.    *)
(***************************************************************************)
EXTENDS Integers, Sequences, FiniteSets

CONSTANTS
    PeerIDs,       \* messages.PeerID
    Conns,         \* connection objects (*server.Peer), each accepted at most once
    ID,            \* the peer id the connection authenticates as
    Subscribers,   \* connections whose client sends subscribe / unsubscribe messages
    NoConn,        \* no map entry
    ChanCap,       \* capacity of Listener.eventChan (244 in the code)
    MaxReads,      \* bound: subscribe / unsubscribe messages per connection
    OverlapDials   \* may a client dial again before its last dial was answered?

ASSUME RelayAssumption ==
    /\ ID \in [Conns -> PeerIDs]
    /\ Subscribers \subseteq Conns
    /\ NoConn \notin Conns
    /\ ChanCap \in Nat \ {0}
    /\ MaxReads \in Nat
    /\ OverlapDials \in BOOLEAN

VARIABLES
    accept,     \* step of Relay.Accept
    work,       \* step of the session goroutine
    open,       \* the connection is usable: not closed, Peer.ctx not cancelled
    reads,      \* messages read so far (bound)
    store,      \* Store.shards: peer id -> connection
    listeners,  \* PeerNotifier.listeners
    removed,    \* listeners whose ctx was cancelled by RemoveListener
    eventChan,  \* Listener.eventChan
    intOnline,  \* Listener.interestedPeersForOnline
    intOffline, \* Listener.interestedPeersForOffline
    lstep,      \* step of listenForEvents
    batch,      \* events drained by listenForEvents, in the order they were sent
    todo,       \* listeners a publishing thread still has to visit
    holding,    \* listener whose mu a publisher holds while its send blocks
    reply,      \* online ids collected by GetOnlinePeersAndRegisterInterest
    shutdown,   \* step of Relay.Shutdown
    closing,    \* peers Shutdown has still to close
    told,       \* history: last state written to the client since it subscribed
    withdrawn   \* history: ids whose interest the client has withdrawn

sessionVars == <<accept, work, open, reads>>
listenVars  == <<listeners, removed, lstep, batch>>
interest    == <<intOnline, intOffline, withdrawn>>
pubVars     == <<todo, holding>>
stopVars    == <<shutdown, closing>>
vars == <<accept, work, open, reads, store, listeners, removed, eventChan,
          intOnline, intOffline, lstep, batch, todo, holding, reply,
          shutdown, closing, told, withdrawn>>

Event == [id : PeerIDs, online : BOOLEAN]

TypeOK ==
    /\ accept \in [Conns -> {"idle", "handshake", "added", "online", "done"}]
    /\ work \in [Conns -> {"none", "start", "read", "subscribe", "reply",
                           "delete", "deleted", "offline", "gone"}]
    /\ open \in [Conns -> BOOLEAN]
    /\ reads \in [Conns -> 0..MaxReads]
    /\ store \in [PeerIDs -> Conns \cup {NoConn}]
    /\ listeners \subseteq Conns
    /\ removed \subseteq Conns
    /\ eventChan \in [Conns -> Seq(Event)]
    /\ \A c \in Conns : Len(eventChan[c]) <= ChanCap
    /\ intOnline \in [Conns -> SUBSET PeerIDs]
    /\ intOffline \in [Conns -> SUBSET PeerIDs]
    /\ lstep \in [Conns -> {"none", "wait", "drain", "online", "offline", "exit"}]
    /\ batch \in [Conns -> Seq(Event)]
    /\ todo \in [Conns -> SUBSET Conns]
    /\ holding \in [Conns -> Conns \cup {NoConn}]
    /\ reply \in [Conns -> SUBSET PeerIDs]
    /\ shutdown \in {"no", "closing", "closed"}
    /\ closing \subseteq Conns
    /\ told \in [Conns -> [PeerIDs -> {"none", "online", "offline"}]]
    /\ withdrawn \in [Conns -> SUBSET PeerIDs]

Init ==
    /\ accept = [c \in Conns |-> "idle"]
    /\ work = [c \in Conns |-> "none"]
    /\ open = [c \in Conns |-> FALSE]
    /\ reads = [c \in Conns |-> 0]
    /\ store = [p \in PeerIDs |-> NoConn]
    /\ listeners = {} /\ removed = {}
    /\ eventChan = [c \in Conns |-> <<>>]
    /\ intOnline = [c \in Conns |-> {}]
    /\ intOffline = [c \in Conns |-> {}]
    /\ lstep = [c \in Conns |-> "none"]
    /\ batch = [c \in Conns |-> <<>>]
    /\ todo = [c \in Conns |-> {}]
    /\ holding = [c \in Conns |-> NoConn]
    /\ reply = [c \in Conns |-> {}]
    /\ shutdown = "no" /\ closing = {}
    /\ told = [c \in Conns |-> [p \in PeerIDs |-> "none"]]
    /\ withdrawn = [c \in Conns |-> {}]

\* The ids a message may name: a client never asks about itself.
Requests(c) == SUBSET (PeerIDs \ {ID[c]}) \ {{}}

-----------------------------------------------------------------------------
(* Locks held across steps. *)

\* Variants: Accept without closeMu; PeerWentOffline without RUnlock; the
\* notification writers without notificationMutex.
AcceptUnlocked(c)  == FALSE
PublishNoUnlock(c) == accept[c] = "online" \/ work[c] \in {"offline", "gone"}
NotifyUnlocked(c)  == FALSE

AcceptRunning(c) == accept[c] \notin {"idle", "done"}
Publishing(c)    == accept[c] = "online" \/ work[c] = "offline"
MuHolders(l)     == {c \in Conns : holding[c] = l}
ShardsHeld       == \E c \in Conns : work[c] = "subscribe"
NotifyHeld(c)    == work[c] \in {"subscribe", "reply"}

\* A client dials its next connection once the previous dial was answered.
DialAllowed(c) ==
    OverlapDials \/ \A d \in Conns : ID[d] = ID[c] => ~AcceptRunning(d)

-----------------------------------------------------------------------------
(* Relay.Accept. *)

\* closeMu.RLock, then the closed check; a refused connection stays "idle".
Accept(c) ==
    /\ accept[c] = "idle"
    /\ shutdown = "no"
    /\ DialAllowed(c)
    /\ accept' = [accept EXCEPT ![c] = "handshake"]
    /\ open' = [open EXCEPT ![c] = TRUE]
    /\ UNCHANGED <<work, reads, store, listenVars, eventChan, interest, pubVars, reply, stopVars, told>>

\* handshakeReceive returns an error (bad message, validation, or the 10 s
\* handshake timeout): the connection is closed.
HandshakeFails(c) ==
    /\ accept[c] = "handshake"
    /\ accept' = [accept EXCEPT ![c] = "done"]
    /\ open' = [open EXCEPT ![c] = FALSE]
    /\ UNCHANGED <<work, reads, store, listenVars, eventChan, interest, pubVars, reply, stopVars, told>>

\* handshakeReceive succeeds, then Store.AddPeer: a connection already stored
\* under the id is closed.
AddPeer(c) ==
    /\ accept[c] = "handshake"
    /\ ~ShardsHeld
    /\ LET old == store[ID[c]] IN
         open' = IF old = NoConn THEN open ELSE [open EXCEPT ![old] = FALSE]
    /\ store' = [store EXCEPT ![ID[c]] = c]
    /\ accept' = [accept EXCEPT ![c] = "added"]
    /\ UNCHANGED <<work, reads, listenVars, eventChan, interest, pubVars, reply, stopVars, told>>

\* PeerNotifier.PeerCameOnline takes listenersMutex for reading.  Visiting a
\* listener whose client never subscribes finds no interest and does nothing.
PeerCameOnline(c) ==
    /\ accept[c] = "added"
    /\ accept' = [accept EXCEPT ![c] = "online"]
    /\ todo' = [todo EXCEPT ![c] = listeners \cap Subscribers]
    /\ UNCHANGED <<work, open, reads, store, listenVars, eventChan, interest, holding, reply, stopVars, told>>

\* All listeners visited: start the session goroutine, then handshakeResponse;
\* when that write fails the peer is closed.
StartWork(c) ==
    /\ accept[c] = "online" /\ todo[c] = {} /\ holding[c] = NoConn
    /\ accept' = [accept EXCEPT ![c] = "done"]
    /\ work' = [work EXCEPT ![c] = "start"]
    /\ \/ open[c] /\ open' = open
       \/ open' = [open EXCEPT ![c] = FALSE]
    /\ UNCHANGED <<reads, store, listenVars, eventChan, interest, pubVars, reply, stopVars, told>>

-----------------------------------------------------------------------------
(* Listener.peerComeOnline and Listener.peerWentOffline, called by a thread *)
(* that publishes an event about ID[c].                                     *)

EventOf(c) == [id |-> ID[c], online |-> accept[c] = "online"]

\* Listener.mu: peerComeOnline takes it for writing, peerWentOffline for
\* reading.  Only publishers hold it across a step.
MuAvailable(c, l) ==
    IF EventOf(c).online
    THEN MuHolders(l) = {}
    ELSE \A d \in MuHolders(l) : ~EventOf(d).online

\* Variant of Interested: offline events look at the online interest.
InterestedOnlineMap(c, l) == ID[c] \in intOnline[l]

Interested(c, l) ==
    ID[c] \in (IF EventOf(c).online THEN intOnline[l] ELSE intOffline[l])

\* An online notification is delivered once: its interest is then deleted.
ForgetOnline(c, l) ==
    intOnline' = IF EventOf(c).online
                 THEN [intOnline EXCEPT ![l] = @ \ {ID[c]}] ELSE intOnline

ChanFull(l) == Len(eventChan[l]) >= ChanCap

SkipListener(c, l) ==
    /\ Publishing(c) /\ l \in todo[c] /\ holding[c] = NoConn
    /\ MuAvailable(c, l)
    /\ ~Interested(c, l)
    /\ todo' = [todo EXCEPT ![c] = @ \ {l}]
    /\ UNCHANGED <<sessionVars, store, listenVars, eventChan, interest, holding, reply, stopVars, told>>

SendEvent(c, l) ==
    /\ Publishing(c) /\ l \in todo[c] /\ holding[c] = NoConn
    /\ MuAvailable(c, l)
    /\ Interested(c, l)
    /\ ~ChanFull(l)
    /\ eventChan' = [eventChan EXCEPT ![l] = Append(@, EventOf(c))]
    /\ todo' = [todo EXCEPT ![c] = @ \ {l}]
    /\ ForgetOnline(c, l)
    /\ UNCHANGED <<sessionVars, store, listenVars, intOffline, withdrawn, holding, reply, stopVars, told>>

\* The channel is full: the send blocks with the listener's mu held.
BlockOnSend(c, l) ==
    /\ Publishing(c) /\ l \in todo[c] /\ holding[c] = NoConn
    /\ MuAvailable(c, l)
    /\ Interested(c, l)
    /\ ChanFull(l)
    /\ holding' = [holding EXCEPT ![c] = l]
    /\ todo' = [todo EXCEPT ![c] = @ \ {l}]
    /\ UNCHANGED <<sessionVars, store, listenVars, eventChan, interest, reply, stopVars, told>>

\* The blocked send is released by room in the channel.  l.ctx.Done() cannot
\* release it: RemoveListener waits for listenersMutex, which c holds.
UnblockSend(c) ==
    /\ holding[c] # NoConn
    /\ LET l == holding[c] IN
         /\ ~ChanFull(l)
         /\ eventChan' = [eventChan EXCEPT ![l] = Append(@, EventOf(c))]
         /\ ForgetOnline(c, l)
    /\ holding' = [holding EXCEPT ![c] = NoConn]
    /\ UNCHANGED <<sessionVars, store, listenVars, intOffline, withdrawn, todo, reply, stopVars, told>>

-----------------------------------------------------------------------------
(* Peer.Work. *)

\* PeerNotifier.NewListener: starts listenForEvents and registers it.
NewListener(c) ==
    /\ work[c] = "start"
    /\ \A d \in Conns : ~Publishing(d)
    /\ work' = [work EXCEPT ![c] = "read"]
    /\ listeners' = listeners \cup {c}
    /\ lstep' = [lstep EXCEPT ![c] = "wait"]
    /\ UNCHANGED <<accept, open, reads, store, removed, batch, eventChan, interest, pubVars, reply, stopVars, told>>

\* handleSubscribePeerState: notificationMutex, then every shard's read lock.
\* Nobody else keeps either of them across a step, so both are taken at once.
SubscribePeerState(c) ==
    /\ work[c] = "read" /\ open[c] /\ c \in Subscribers
    /\ reads[c] < MaxReads
    /\ reads' = [reads EXCEPT ![c] = @ + 1]
    /\ work' = [work EXCEPT ![c] = "subscribe"]
    /\ UNCHANGED <<accept, open, store, listenVars, eventChan, interest, pubVars, reply, stopVars, told>>

\* Variant of RegisterInterest: of the peers that are not online only the
\* offline interest is registered.
RegisterInterestOfOnline(c, ids) ==
    /\ work[c] = "subscribe"
    /\ MuHolders(c) = {}
    /\ intOnline' = [intOnline EXCEPT ![c] = @ \cup {p \in ids : store[p] # NoConn}]
    /\ intOffline' = [intOffline EXCEPT ![c] = @ \cup ids]
    /\ reply' = [reply EXCEPT ![c] = {p \in ids : store[p] # NoConn}]
    /\ work' = [work EXCEPT ![c] = IF reply'[c] = {} THEN "read" ELSE "reply"]
    /\ told' = [told EXCEPT ![c] = [p \in PeerIDs |-> IF p \in ids THEN "none" ELSE @[p]]]
    /\ UNCHANGED <<accept, open, reads, store, listenVars, eventChan, pubVars, stopVars, withdrawn>>

\* GetOnlinePeersAndRegisterInterest: AddInterestedPeers waits for the
\* listener's mu; then the online peers are collected and the shards released.
RegisterInterest(c, ids) ==
    /\ work[c] = "subscribe"
    /\ MuHolders(c) = {}
    /\ intOnline' = [intOnline EXCEPT ![c] = @ \cup ids]
    /\ intOffline' = [intOffline EXCEPT ![c] = @ \cup ids]
    /\ reply' = [reply EXCEPT ![c] = {p \in ids : store[p] # NoConn}]
    /\ work' = [work EXCEPT ![c] = IF reply'[c] = {} THEN "read" ELSE "reply"]
    /\ told' = [told EXCEPT ![c] = [p \in PeerIDs |-> IF p \in ids THEN "none" ELSE @[p]]]
    /\ UNCHANGED <<accept, open, reads, store, listenVars, eventChan, pubVars, stopVars, withdrawn>>

\* What the client has been told after a write of `state` about ids.
Write(c, ids, state) ==
    told' = IF open[c]
            THEN [told EXCEPT ![c] = [p \in PeerIDs |-> IF p \in ids THEN state ELSE @[p]]]
            ELSE told

\* sendPeersOnline with the collected ids; notificationMutex is released.
SubscribeReply(c) ==
    /\ work[c] = "reply"
    /\ Write(c, reply[c], "online")
    /\ reply' = [reply EXCEPT ![c] = {}]
    /\ work' = [work EXCEPT ![c] = "read"]
    /\ UNCHANGED <<accept, open, reads, store, listenVars, eventChan, interest, pubVars, stopVars>>

\* handleUnsubscribePeerState.
UnsubscribePeerState(c, ids) ==
    /\ work[c] = "read" /\ open[c] /\ c \in Subscribers
    /\ reads[c] < MaxReads
    /\ MuHolders(c) = {}
    /\ reads' = [reads EXCEPT ![c] = @ + 1]
    /\ intOnline' = [intOnline EXCEPT ![c] = @ \ ids]
    /\ intOffline' = [intOffline EXCEPT ![c] = @ \ ids]
    /\ withdrawn' = [withdrawn EXCEPT ![c] = @ \cup (ids \cap intOffline[c])]
    /\ UNCHANGED <<accept, work, open, store, listenVars, eventChan, pubVars, reply, stopVars, told>>

\* The client closes, the network fails, a write fails or the health check
\* times out: the connection is closed, whatever the session is doing.
ConnCloses(c) ==
    /\ accept[c] # "idle" /\ open[c]
    /\ open' = [open EXCEPT ![c] = FALSE]
    /\ UNCHANGED <<accept, work, reads, store, listenVars, eventChan, interest, pubVars, reply, stopVars, told>>

\* conn.Read fails: Work's deferred function cancels the context, removes the
\* listener (PeerNotifier.RemoveListener), closes the connection and waits for
\* the writer.  A listener goroutine that has nothing left to do exits.
RemoveListener(c) ==
    /\ work[c] = "read" /\ ~open[c]
    /\ \A d \in Conns : ~Publishing(d)
    /\ work' = [work EXCEPT ![c] = "delete"]
    /\ listeners' = listeners \ {c}
    /\ removed' = removed \cup {c}
    /\ lstep' = [lstep EXCEPT ![c] = IF @ = "wait" /\ eventChan[c] = <<>> THEN "exit" ELSE @]
    /\ UNCHANGED <<accept, open, reads, store, batch, eventChan, interest, pubVars, reply, stopVars, told>>

\* Variant of IsStored: DeletePeer does not compare the connection.
IDIsStored(c) == store[ID[c]] # NoConn

IsStored(c) == store[ID[c]] = c

\* Store.DeletePeer removes the entry only when it is this connection.
DeletePeer(c) ==
    /\ work[c] = "delete"
    /\ ~ShardsHeld
    /\ IF IsStored(c)
       THEN /\ store' = [store EXCEPT ![ID[c]] = NoConn]
            /\ work' = [work EXCEPT ![c] = "deleted"]
       ELSE /\ store' = store
            /\ work' = [work EXCEPT ![c] = "gone"]
    /\ UNCHANGED <<accept, open, reads, listenVars, eventChan, interest, pubVars, reply, stopVars, told>>

\* PeerNotifier.PeerWentOffline takes listenersMutex for reading.
PeerWentOffline(c) ==
    /\ work[c] = "deleted"
    /\ work' = [work EXCEPT ![c] = "offline"]
    /\ todo' = [todo EXCEPT ![c] = listeners \cap Subscribers]
    /\ UNCHANGED <<accept, open, reads, store, listenVars, eventChan, interest, holding, reply, stopVars, told>>

SessionEnds(c) ==
    /\ work[c] = "offline" /\ todo[c] = {} /\ holding[c] = NoConn
    /\ work' = [work EXCEPT ![c] = "gone"]
    /\ UNCHANGED <<accept, open, reads, store, listenVars, eventChan, interest, pubVars, reply, stopVars, told>>

-----------------------------------------------------------------------------
(* Listener.listenForEvents. *)

\* The first event and the drain loop: everything in the channel is taken.
TakeEvents(c) ==
    /\ lstep[c] \in {"wait", "drain"}
    /\ eventChan[c] # <<>>
    /\ batch' = [batch EXCEPT ![c] = @ \o eventChan[c]]
    /\ eventChan' = [eventChan EXCEPT ![c] = <<>>]
    /\ lstep' = [lstep EXCEPT ![c] = "drain"]
    /\ UNCHANGED <<sessionVars, store, listeners, removed, interest, pubVars, reply, stopVars, told>>

Drained(c) ==
    /\ lstep[c] = "drain" /\ eventChan[c] = <<>>
    /\ lstep' = [lstep EXCEPT ![c] = "online"]
    /\ UNCHANGED <<sessionVars, store, listeners, removed, batch, eventChan, interest, pubVars, reply, stopVars, told>>

BatchIDs(c, isOnline) ==
    {batch[c][i].id : i \in {j \in DOMAIN batch[c] : batch[c][j].online = isOnline}}

\* onPeersComeOnline is sendPeersOnline: one write, no mutex.
SendPeersOnline(c) ==
    /\ lstep[c] = "online"
    /\ Write(c, BatchIDs(c, TRUE), "online")
    /\ lstep' = [lstep EXCEPT ![c] = "offline"]
    /\ UNCHANGED <<sessionVars, store, listeners, removed, batch, eventChan, interest, pubVars, reply, stopVars>>

\* onPeersWentOffline is sendPeersWentOffline: it waits for notificationMutex,
\* unless the batch has no offline event.
SendPeersWentOffline(c) ==
    /\ lstep[c] = "offline"
    /\ BatchIDs(c, FALSE) # {} => ~NotifyHeld(c)
    /\ Write(c, BatchIDs(c, FALSE), "offline")
    /\ batch' = [batch EXCEPT ![c] = <<>>]
    /\ lstep' = [lstep EXCEPT ![c] = IF c \in removed /\ eventChan[c] = <<>> THEN "exit" ELSE "wait"]
    /\ UNCHANGED <<sessionVars, store, listeners, removed, eventChan, interest, pubVars, reply, stopVars>>

\* ctx.Done() and an event are both ready: select may choose to exit.
ListenerExits(c) ==
    /\ lstep[c] = "wait" /\ c \in removed /\ eventChan[c] # <<>>
    /\ lstep' = [lstep EXCEPT ![c] = "exit"]
    /\ UNCHANGED <<sessionVars, store, listeners, removed, batch, eventChan, interest, pubVars, reply, stopVars, told>>

-----------------------------------------------------------------------------
(* Relay.Shutdown: closeMu.Lock, close every stored peer, set closed. *)

Shutdown ==
    /\ shutdown = "no"
    /\ \A c \in Conns : ~AcceptRunning(c)
    /\ shutdown' = "closing"
    /\ closing' = {store[p] : p \in PeerIDs} \ {NoConn}
    /\ UNCHANGED <<sessionVars, store, listenVars, eventChan, interest, pubVars, reply, told>>

CloseGracefully(c) ==
    /\ c \in closing
    /\ open' = [open EXCEPT ![c] = FALSE]
    /\ closing' = closing \ {c}
    /\ UNCHANGED <<accept, work, reads, store, listenVars, eventChan, interest, pubVars, reply, shutdown, told>>

Closed ==
    /\ shutdown = "closing" /\ closing = {}
    /\ shutdown' = "closed"
    /\ UNCHANGED <<sessionVars, store, listenVars, eventChan, interest, pubVars, reply, closing, told>>

-----------------------------------------------------------------------------
AcceptStep(c) ==
    \/ HandshakeFails(c) \/ AddPeer(c) \/ PeerCameOnline(c)
    \/ StartWork(c)

PublishStep(c) ==
    \/ \E l \in Conns : SkipListener(c, l) \/ SendEvent(c, l) \/ BlockOnSend(c, l)
    \/ UnblockSend(c)

SessionStep(c) ==
    \/ NewListener(c) \/ SubscribeReply(c) \/ RemoveListener(c)
    \/ DeletePeer(c) \/ PeerWentOffline(c) \/ SessionEnds(c)
    \/ \E ids \in Requests(c) : RegisterInterest(c, ids)

ListenerStep(c) ==
    \/ TakeEvents(c) \/ Drained(c) \/ SendPeersOnline(c) \/ SendPeersWentOffline(c)
    \/ ListenerExits(c)

ShutdownStep == Closed \/ \E c \in Conns : CloseGracefully(c)

\* What clients and the operator do.
Environment ==
    \/ Shutdown
    \/ \E c \in Conns :
         \/ Accept(c) \/ ConnCloses(c) \/ SubscribePeerState(c)
         \/ \E ids \in Requests(c) : UnsubscribePeerState(c, ids)

\* What the server's goroutines do.
ServerStep ==
    \/ ShutdownStep
    \/ \E c \in Conns : AcceptStep(c) \/ PublishStep(c) \/ SessionStep(c) \/ ListenerStep(c)

Next == Environment \/ ServerStep

\* While some goroutine of the server can take a step, one of them does: reads,
\* writes and the handshake are bounded by timeouts and Go schedules every
\* runnable goroutine.  Clients and the operator owe nothing.
Fairness == WF_vars(ServerStep)

Spec == Init /\ [][Next]_vars /\ Fairness
-----------------------------------------------------------------------------
(* Properties. *)

\* An event about p that listener c has accepted and not yet written.
Pending(c, p, isOnline) ==
    \/ [id |-> p, online |-> isOnline] \in {eventChan[c][i] : i \in DOMAIN eventChan[c]}
    \/ /\ lstep[c] \in {"drain", "online"} \cup (IF isOnline THEN {} ELSE {"offline"})
       /\ p \in BatchIDs(c, isOnline)

\* Publisher d has still to visit listener c.
StillToVisit(d, c) == Publishing(d) /\ (c \in todo[d] \/ holding[d] = c)

\* The peer stored under p has been announced to listener c.
Announced(p, c) ==
    /\ store[p] # NoConn
    /\ accept[store[p]] # "added"
    /\ ~StillToVisit(store[p], c)

\* NeverMissed: a peer that is online and announced has been reported to every
\* subscriber since it subscribed, or the report is on its way.  This is the
\* comment in Store.GetOnlinePeersAndRegisterInterest: "A peer coming online
\* concurrently is then either observed here or notified through the listener
\* afterwards, never missed".
NeverMissed ==
    \A c \in Conns, p \in PeerIDs :
        (open[c] /\ p \in intOffline[c] /\ Announced(p, c))
        => \/ told[c][p] # "none"
           \/ p \in reply[c]
           \/ Pending(c, p, TRUE)

\* NoPhantomOnline: a subscriber whose last news of p is "online", while no
\* connection of p is stored, has the offline event on its way.  It relies on
\* notificationMutex: the subscribe reply and an offline write never swap.  A
\* client that withdrew its interest in p is left out: RemoveInterestedPeer
\* leaves an online event in eventChan that the offline event no longer follows,
\* and when the client subscribes again it is told that p, long gone, is online.
NoPhantomOnline ==
    \A c \in Conns, p \in PeerIDs :
        (open[c] /\ p \notin withdrawn[c] /\ told[c][p] = "online" /\ store[p] = NoConn)
        => \/ Pending(c, p, FALSE)
           \/ \E d \in Conns : ID[d] = p /\ (work[d] = "deleted" \/ StillToVisit(d, c))

\* SupersededIsClosed: of all connections of one peer id that passed AddPeer,
\* only the stored one may still be open (Store.AddPeer closes the old peer).
SupersededIsClosed ==
    \A c \in Conns :
        (open[c] /\ accept[c] \notin {"idle", "handshake"}) => store[ID[c]] = c

\* ShutdownClosesAll: once Shutdown returned no accepted connection is open and
\* none is being accepted, although Accept and Shutdown run concurrently.
ShutdownClosesAll ==
    shutdown = "closed" => \A c \in Conns : ~open[c] /\ ~AcceptRunning(c)

\* EventsInOrder: while the offline part of a batch is still to be written, no
\* online event sent after an offline event of the same peer was written.  This
\* is the comment in newListener: with a single channel "we can ensure all
\* events will be processed in the order they were sent".  It does not hold.
EventsInOrder ==
    \A c \in Conns : lstep[c] = "offline" =>
        ~\E i, j \in DOMAIN batch[c] :
            /\ i < j /\ batch[c][i].id = batch[c][j].id
            /\ ~batch[c][i].online /\ batch[c][j].online

\* SubscribeCannotDeadlock: never do the subscribe handler of c, a publisher and
\* the listener goroutine of c wait in a circle.  The handler holds every shard
\* lock and notificationMutex and waits for Listener.mu; the publisher holds
\* Listener.mu and waits for room in eventChan; the listener goroutine, which
\* alone makes room, waits for notificationMutex.  The comment in
\* GetOnlinePeersAndRegisterInterest says that it "cannot deadlock".
SubscribeCannotDeadlock ==
    \A c \in Conns :
        ~ /\ work[c] = "subscribe" /\ MuHolders(c) # {}
          /\ Len(eventChan[c]) = ChanCap
          /\ lstep[c] = "offline" /\ BatchIDs(c, FALSE) # {}

\* TeardownCompletes: the session of a closed connection ends: its listener is
\* removed, its store entry deleted and its departure published.
TeardownCompletes ==
    \A c \in Conns : (work[c] # "none" /\ ~open[c]) ~> (work[c] = "gone")

\* DepartureReported: a subscriber that believes p online while p is gone is
\* told so, unless it withdrew its interest in p, disconnects or p comes back.
DepartureReported ==
    \A c \in Subscribers : \A p \in PeerIDs \ {ID[c]} :
        (told[c][p] = "online" /\ store[p] = NoConn)
        ~> (told[c][p] # "online" \/ store[p] # NoConn
            \/ ~open[c] \/ p \in withdrawn[c])
==============================================================================
