--------------------------- MODULE RelayServerProofs ---------------------------
(***************************************************************************)
(* Proofs about RelayServer, for every set of peers and connections and    *)
(* every channel capacity.  Only NobodyKeepsAPhantom assumes that a client *)
(* dials once at a time; the others allow overlapping dials.               *)
(***************************************************************************)
EXTENDS RelayServer, TLAPS, SequenceTheorems

\* The provers that a leaf which names none is tried with, in turn.
USE ZenonT(4), SMTT(10), ZenonT(30), SMTT(30)

-----------------------------------------------------------------------------
(* Type correctness. *)

\* The initial state has the right type.
LEMMA InitTypeOK == Init => TypeOK
  BY RelayAssumption DEF Init, TypeOK

\* What a publisher sends is an event.
LEMMA EventOfType == ASSUME TypeOK, NEW c \in Conns PROVE EventOf(c) \in Event
  BY RelayAssumption DEF TypeOK, EventOf, Event

\* A write keeps the record of what clients were told well-typed.
LEMMA WriteType ==
  ASSUME TypeOK, NEW c \in Conns, NEW ids, NEW state \in {"none", "online", "offline"},
         Write(c, ids, state)
  PROVE  told' \in [Conns -> [PeerIDs -> {"none", "online", "offline"}]]
  BY DEF TypeOK, Write

\* The steps of Accept keep the types.
LEMMA AcceptTypeOK ==
  ASSUME TypeOK, NEW c \in Conns, AcceptStep(c) \/ Accept(c)
  PROVE  TypeOK'
<1> USE RelayAssumption DEF TypeOK, listenVars, interest, pubVars, stopVars
<1>1. CASE Accept(c)
  BY <1>1 DEF Accept
<1>2. CASE HandshakeFails(c)
  BY <1>2 DEF HandshakeFails
<1>3. CASE AddPeer(c)
  BY <1>3 DEF AddPeer
<1>4. CASE PeerCameOnline(c)
  BY <1>4 DEF PeerCameOnline
<1>5. CASE StartWork(c)
  BY <1>5 DEF StartWork
<1> QED
  BY <1>1, <1>2, <1>3, <1>4, <1>5 DEF AcceptStep

\* Publishing keeps the types, and no event channel overflows.
LEMMA PublishTypeOK ==
  ASSUME TypeOK, NEW c \in Conns, PublishStep(c)
  PROVE  TypeOK'
<1> USE RelayAssumption DEF TypeOK, sessionVars, listenVars, interest, stopVars
<1>0. EventOf(c) \in Event
  BY EventOfType
<1>1. ASSUME NEW l \in Conns, SkipListener(c, l) \/ BlockOnSend(c, l) PROVE TypeOK'
  <2>1. CASE SkipListener(c, l)
    BY <2>1 DEF SkipListener
  <2>2. CASE BlockOnSend(c, l)
    BY <2>2 DEF BlockOnSend
  <2> QED
    BY <1>1, <2>1, <2>2
<1>2. ASSUME NEW l \in Conns, ForgetOnline(c, l)
      PROVE  intOnline' \in [Conns -> SUBSET PeerIDs]
  BY <1>2 DEF ForgetOnline
<1>3. ASSUME NEW l \in Conns, ~ChanFull(l),
             eventChan' = [eventChan EXCEPT ![l] = Append(@, EventOf(c))]
      PROVE  /\ eventChan' \in [Conns -> Seq(Event)]
             /\ \A d \in Conns : Len(eventChan'[d]) <= ChanCap
  <2>1. Append(eventChan[l], EventOf(c)) \in Seq(Event)
    BY <1>0
  <2>2. Len(Append(eventChan[l], EventOf(c))) <= ChanCap
    BY <1>0, <1>3 DEF ChanFull
  <2> QED
    BY <1>3, <2>1, <2>2
<1>4. ASSUME NEW l \in Conns, SendEvent(c, l) PROVE TypeOK'
  BY <1>2, <1>3, <1>4 DEF SendEvent
<1>5. CASE UnblockSend(c)
  BY <1>2, <1>3, <1>5 DEF UnblockSend
<1> QED
  BY <1>1, <1>4, <1>5 DEF PublishStep

\* The steps of a session keep the types.
LEMMA SessionTypeOK ==
  ASSUME TypeOK, NEW c \in Conns, SessionStep(c)
  PROVE  TypeOK'
<1> USE RelayAssumption DEF TypeOK, listenVars, interest, pubVars, stopVars
<1>1. CASE NewListener(c)
  BY <1>1 DEF NewListener
<1>2. CASE SubscribeReply(c)
  BY <1>2, WriteType DEF SubscribeReply
<1>3. CASE RemoveListener(c)
  BY <1>3 DEF RemoveListener
<1>4. CASE DeletePeer(c)
  <2>1. /\ store' \in [PeerIDs -> Conns \cup {NoConn}]
        /\ \E w \in {"deleted", "gone"} : work' = [work EXCEPT ![c] = w]
    BY <1>4 DEF DeletePeer
  <2> QED
    BY <1>4, <2>1 DEF DeletePeer
<1>5. CASE PeerWentOffline(c)
  BY <1>5 DEF PeerWentOffline
<1>7. CASE SessionEnds(c)
  BY <1>7 DEF SessionEnds
<1>6. ASSUME NEW ids \in Requests(c), RegisterInterest(c, ids) PROVE TypeOK'
  BY <1>6 DEF RegisterInterest, Requests
<1> QED
  BY <1>1, <1>2, <1>3, <1>4, <1>5, <1>6, <1>7 DEF SessionStep

\* The steps of the listener goroutine keep the types.
LEMMA ListenerTypeOK ==
  ASSUME TypeOK, NEW c \in Conns, ListenerStep(c)
  PROVE  TypeOK'
<1> USE RelayAssumption DEF TypeOK, sessionVars, interest, pubVars, stopVars
<1>1. CASE TakeEvents(c)
  <2>1. batch[c] \o eventChan[c] \in Seq(Event) /\ <<>> \in Seq(Event) /\ Len(<<>>) = 0
    OBVIOUS
  <2> QED
    BY <1>1, <2>1 DEF TakeEvents
<1>2. CASE Drained(c)
  BY <1>2 DEF Drained
<1>5. CASE ListenerExits(c)
  BY <1>5 DEF ListenerExits
<1>3. CASE SendPeersOnline(c)
  BY <1>3, WriteType DEF SendPeersOnline
<1>4. CASE SendPeersWentOffline(c)
  <2>1. told' \in [Conns -> [PeerIDs -> {"none", "online", "offline"}]]
    BY <1>4, WriteType DEF SendPeersWentOffline
  <2>2. <<>> \in Seq(Event)
    OBVIOUS
  <2> QED
    BY <1>4, <2>1, <2>2 DEF SendPeersWentOffline
<1> QED
  BY <1>1, <1>2, <1>3, <1>4, <1>5 DEF ListenerStep

\* Shutdown, broken connections and requests keep the types.
LEMMA OtherTypeOK ==
  ASSUME TypeOK,
         \/ ShutdownStep \/ Shutdown
         \/ \E c \in Conns : \/ ConnCloses(c) \/ SubscribePeerState(c)
                             \/ \E ids \in Requests(c) : UnsubscribePeerState(c, ids)
  PROVE  TypeOK'
<1> USE RelayAssumption DEF TypeOK, sessionVars, listenVars, interest, pubVars, stopVars
<1>1. CASE Shutdown \/ Closed
  BY <1>1 DEF Shutdown, Closed
<1>2. ASSUME NEW c \in Conns, CloseGracefully(c) \/ ConnCloses(c) PROVE TypeOK'
  <2>1. CASE CloseGracefully(c)
    BY <2>1 DEF CloseGracefully
  <2>2. CASE ConnCloses(c)
    BY <2>2 DEF ConnCloses
  <2> QED
    BY <1>2, <2>1, <2>2
<1>3. ASSUME NEW c \in Conns, SubscribePeerState(c) PROVE TypeOK'
  BY <1>3 DEF SubscribePeerState
<1>4. ASSUME NEW c \in Conns, NEW ids, UnsubscribePeerState(c, ids) PROVE TypeOK'
  BY <1>4 DEF UnsubscribePeerState
<1> QED
  BY <1>1, <1>2, <1>3, <1>4 DEF ShutdownStep

\* Every step keeps the types.
LEMMA NextTypeOK == TypeOK /\ [Next]_vars => TypeOK'
<1> SUFFICES ASSUME TypeOK, [Next]_vars PROVE TypeOK'
  OBVIOUS
<1>1. CASE UNCHANGED vars
  BY <1>1 DEF vars, TypeOK
<1>2. CASE Next
  BY <1>2, AcceptTypeOK, PublishTypeOK, SessionTypeOK, ListenerTypeOK, OtherTypeOK
     DEF Next, Environment, ServerStep
<1> QED
  BY <1>1, <1>2

\* TypeCorrect: the relay server's state stays well-typed; in particular no
\* listener channel ever exceeds its capacity.
THEOREM TypeCorrect == Spec => []TypeOK
  BY InitTypeOK, NextTypeOK, PTL DEF Spec
-----------------------------------------------------------------------------
(* Connections: the stored one, the superseded ones, and Shutdown. *)

\* The order of one connection's threads.
Lifecycle ==
    \A c \in Conns :
        /\ work[c] # "none" => accept[c] = "done"
        /\ accept[c] = "idle" => ~open[c]
        /\ work[c] \in {"delete", "deleted", "offline", "gone"} => ~open[c]

\* A store entry is a connection of that id between AddPeer and DeletePeer.
StoredIsLive ==
    \A p \in PeerIDs : store[p] # NoConn =>
        /\ ID[store[p]] = p
        /\ accept[store[p]] \notin {"idle", "handshake"}
        /\ work[store[p]] \notin {"deleted", "offline", "gone"}

\* From the moment Shutdown holds closeMu, only peers it will still close are
\* open.
ShutdownCovers ==
    /\ shutdown # "no" =>
         \A c \in Conns : ~AcceptRunning(c) /\ (open[c] => c \in closing)
    /\ shutdown = "closed" => closing = {}

ConnInv == TypeOK /\ Lifecycle /\ StoredIsLive /\ SupersededIsClosed /\ ShutdownCovers

connVars == <<accept, work, open, store, shutdown, closing>>

\* ConnInv holds at the start.
LEMMA InitConnInv == Init => ConnInv
  BY InitTypeOK DEF Init, ConnInv, Lifecycle, StoredIsLive, SupersededIsClosed, ShutdownCovers

\* Publishers and listeners move none of the state ConnInv is about.
LEMMA ConnUnmoved ==
  ASSUME ConnInv, TypeOK', UNCHANGED connVars
  PROVE  ConnInv'
  BY DEF ConnInv, connVars, Lifecycle, StoredIsLive, SupersededIsClosed, ShutdownCovers,
         AcceptRunning

\* Accepting a connection, and replacing the stored one by it, keeps ConnInv.
LEMMA AcceptConnInv ==
  ASSUME ConnInv, TypeOK', NEW c \in Conns, AcceptStep(c) \/ Accept(c)
  PROVE  ConnInv'
<1> USE RelayAssumption
        DEF ConnInv, TypeOK, Lifecycle, StoredIsLive, SupersededIsClosed, ShutdownCovers,
            AcceptRunning, stopVars
<1>1. CASE Accept(c)
  BY <1>1 DEF Accept
<1>2. CASE HandshakeFails(c)
  BY <1>2 DEF HandshakeFails
<1>3. CASE AddPeer(c)
  <2> USE <1>3 DEF AddPeer
  <2>1. Lifecycle'
    OBVIOUS
  <2>2. StoredIsLive'
    <3> SUFFICES ASSUME NEW p \in PeerIDs, store'[p] # NoConn
                 PROVE  /\ ID[store'[p]] = p
                        /\ accept'[store'[p]] \notin {"idle", "handshake"}
                        /\ work'[store'[p]] \notin {"deleted", "offline", "gone"}
      OBVIOUS
    <3>1. CASE p = ID[c]
      <4>1. store'[p] = c /\ accept'[c] = "added"
        BY <3>1
      <4>2. work'[c] = "none"
        OBVIOUS
      <4> QED
        BY <3>1, <4>1, <4>2
    <3>2. CASE p # ID[c]
      <4>1. store'[p] = store[p] /\ store[p] \in Conns /\ ID[store[p]] = p /\ store[p] # c
        BY <3>2
      <4>2. work'[store[p]] = work[store[p]]
        BY <4>1
      <4>3. accept'[store[p]] = accept[store[p]]
        BY <4>1
      <4> QED
        BY <4>1, <4>2, <4>3
    <3> QED
      BY <3>1, <3>2
  <2>3. SupersededIsClosed'
    <3> SUFFICES ASSUME NEW d \in Conns, open'[d], accept'[d] \notin {"idle", "handshake"}
                 PROVE  store'[ID[d]] = d
      OBVIOUS
    <3>1. CASE d = c
      BY <3>1
    <3>2. CASE d # c
      <4>1. open[d] /\ accept[d] \notin {"idle", "handshake"}
        BY <3>2
      <4>2. store[ID[d]] = d
        BY <4>1
      <4>3. ID[d] # ID[c]
        BY <4>2
      <4> QED
        BY <4>2, <4>3
    <3> QED
      BY <3>1, <3>2
  <2>4. ShutdownCovers'
    OBVIOUS
  <2> QED
    BY <2>1, <2>2, <2>3, <2>4
<1>4. CASE PeerCameOnline(c)
  BY <1>4 DEF PeerCameOnline
<1>5. CASE StartWork(c)
  BY <1>5 DEF StartWork
<1> QED
  BY <1>1, <1>2, <1>3, <1>4, <1>5 DEF AcceptStep

\* A session and its teardown keep ConnInv: only the stored connection is deleted.
LEMMA SessionConnInv ==
  ASSUME ConnInv, TypeOK', NEW c \in Conns, SessionStep(c) \/ SubscribePeerState(c)
  PROVE  ConnInv'
<1> USE RelayAssumption
        DEF ConnInv, TypeOK, Lifecycle, StoredIsLive, SupersededIsClosed, ShutdownCovers,
            AcceptRunning, stopVars
<1>1. CASE NewListener(c)
  BY <1>1 DEF NewListener
<1>2. CASE SubscribeReply(c)
  BY <1>2 DEF SubscribeReply
<1>3. CASE RemoveListener(c)
  BY <1>3 DEF RemoveListener
<1>4. CASE DeletePeer(c)
  <2> USE <1>4 DEF DeletePeer, IsStored
  <2>1. Lifecycle'
    OBVIOUS
  <2>2. StoredIsLive'
    <3> SUFFICES ASSUME NEW p \in PeerIDs, store'[p] # NoConn
                 PROVE  /\ ID[store'[p]] = p
                        /\ accept'[store'[p]] \notin {"idle", "handshake"}
                        /\ work'[store'[p]] \notin {"deleted", "offline", "gone"}
      OBVIOUS
    <3>1. CASE p = ID[c]
      BY <3>1
    <3>2. CASE p # ID[c]
      <4>1. store'[p] = store[p] /\ store[p] \in Conns /\ ID[store[p]] = p /\ store[p] # c
        BY <3>2
      <4>2. work'[store[p]] = work[store[p]]
        BY <4>1
      <4>3. accept'[store[p]] = accept[store[p]]
        BY <4>1
      <4> QED
        BY <4>1, <4>2, <4>3
    <3> QED
      BY <3>1, <3>2
  <2>3. SupersededIsClosed'
    OBVIOUS
  <2>4. ShutdownCovers'
    OBVIOUS
  <2> QED
    BY <2>1, <2>2, <2>3, <2>4
<1>5. CASE PeerWentOffline(c)
  BY <1>5 DEF PeerWentOffline
<1>6. CASE SessionEnds(c)
  BY <1>6 DEF SessionEnds
<1>7. ASSUME NEW ids \in Requests(c), RegisterInterest(c, ids) PROVE ConnInv'
  <2>1. \E w \in {"read", "reply"} : work' = [work EXCEPT ![c] = w]
    BY <1>7 DEF RegisterInterest
  <2>2. UNCHANGED <<accept, open, store, shutdown, closing>> /\ work[c] = "subscribe"
    BY <1>7 DEF RegisterInterest
  <2> QED
    BY <2>1, <2>2
<1>8. CASE SubscribePeerState(c)
  BY <1>8 DEF SubscribePeerState
<1> QED
  BY <1>1, <1>2, <1>3, <1>4, <1>5, <1>6, <1>7, <1>8 DEF SessionStep

\* Shutdown and broken connections keep ConnInv.
LEMMA ClosingConnInv ==
  ASSUME ConnInv, TypeOK',
         ShutdownStep \/ Shutdown \/ \E c \in Conns : ConnCloses(c)
  PROVE  ConnInv'
<1> USE RelayAssumption
        DEF ConnInv, TypeOK, Lifecycle, StoredIsLive, SupersededIsClosed, ShutdownCovers,
            AcceptRunning, stopVars, sessionVars
<1>1. CASE Shutdown
  <2>1. \A c \in Conns : open[c] => c \in closing'
    <3> SUFFICES ASSUME NEW c \in Conns, open[c] PROVE c \in closing'
      OBVIOUS
    <3>1. store[ID[c]] = c /\ ID[c] \in PeerIDs
      BY <1>1 DEF Shutdown
    <3> QED
      BY <1>1, <3>1 DEF Shutdown
  <2> QED
    BY <1>1, <2>1 DEF Shutdown
<1>2. CASE Closed
  BY <1>2 DEF Closed
<1>3. ASSUME NEW c \in Conns, CloseGracefully(c) PROVE ConnInv'
  BY <1>3 DEF CloseGracefully
<1>4. ASSUME NEW c \in Conns, ConnCloses(c) PROVE ConnInv'
  BY <1>4 DEF ConnCloses
<1> QED
  BY <1>1, <1>2, <1>3, <1>4 DEF ShutdownStep

\* Every step keeps ConnInv.
LEMMA NextConnInv == ConnInv /\ [Next]_vars => ConnInv'
<1> SUFFICES ASSUME ConnInv, [Next]_vars PROVE ConnInv'
  OBVIOUS
<1>1. TypeOK'
  BY NextTypeOK DEF ConnInv
<1>2. CASE UNCHANGED vars
  BY <1>1, <1>2, ConnUnmoved DEF vars, connVars
<1>3. ASSUME NEW c \in Conns, PublishStep(c) \/ ListenerStep(c) PROVE UNCHANGED connVars
  BY <1>3 DEF PublishStep, SkipListener, SendEvent, BlockOnSend, UnblockSend, ListenerStep,
              TakeEvents, Drained, SendPeersOnline, SendPeersWentOffline, ListenerExits,
              connVars, sessionVars, stopVars
<1>4. ASSUME NEW c \in Conns, NEW ids, UnsubscribePeerState(c, ids) PROVE UNCHANGED connVars
  BY <1>4 DEF UnsubscribePeerState, connVars, stopVars
<1> QED
  BY <1>1, <1>2, <1>3, <1>4, ConnUnmoved, AcceptConnInv, SessionConnInv, ClosingConnInv
     DEF Next, Environment, ServerStep

\* ConnInv is an invariant of the relay server.
LEMMA ConnInvariance == Spec => []ConnInv
  BY InitConnInv, NextConnInv, PTL DEF Spec

\* OldIsClosed: of the connections of a peer id that passed AddPeer only the
\* stored one is open, whatever the order of accepts and teardowns.
THEOREM OldIsClosed == Spec => []SupersededIsClosed
<1>1. ConnInv => SupersededIsClosed
  BY DEF ConnInv
<1> QED
  BY <1>1, ConnInvariance, PTL

\* ShutdownIsComplete: when Shutdown returned no accepted connection is open.
THEOREM ShutdownIsComplete == Spec => []ShutdownClosesAll
<1>1. ConnInv => ShutdownClosesAll
  BY DEF ConnInv, ShutdownCovers, ShutdownClosesAll
<1> QED
  BY <1>1, ConnInvariance, PTL
-----------------------------------------------------------------------------
(* No subscriber misses an online peer.  NeverMissed is not inductive: it   *)
(* says nothing of a peer that is not announced yet.  The strengthening Due *)
(* adds that until the announcement reaches listener c, c's interest in it  *)
(* is still registered; Listening adds that the announcement will visit c.  *)

Due(c, p) ==
    (open[c] /\ p \in intOffline[c]) =>
        \/ told[c][p] # "none" \/ p \in reply[c] \/ Pending(c, p, TRUE)
        \/ p \in intOnline[c] /\ ~Announced(p, c)

AllDue == \A c \in Conns, p \in PeerIDs : Due(c, p)

Listening ==
    \A c \in Conns :
        /\ work[c] \in {"read", "subscribe", "reply"} => c \in listeners
        /\ work[c] = "subscribe" \/ intOffline[c] # {} => c \in Subscribers
        /\ work[c] \in {"none", "start"} => intOffline[c] = {}
        /\ work[c] # "reply" => reply[c] = {}

MissInv == ConnInv /\ Listening /\ AllDue

\* The parts of TypeOK the steps below need.
StepTypes ==
    /\ accept \in [Conns -> {"idle", "handshake", "added", "online", "done"}]
    /\ work \in [Conns -> {"none", "start", "read", "subscribe", "reply",
                           "delete", "deleted", "offline", "gone"}]
    /\ lstep \in [Conns -> {"none", "wait", "drain", "online", "offline", "exit"}]
    /\ open \in [Conns -> BOOLEAN]
    /\ store \in [PeerIDs -> Conns \cup {NoConn}]
    /\ todo \in [Conns -> SUBSET Conns] /\ holding \in [Conns -> Conns \cup {NoConn}]

NewsTypes ==
    /\ intOnline \in [Conns -> SUBSET PeerIDs] /\ intOffline \in [Conns -> SUBSET PeerIDs]
    /\ reply \in [Conns -> SUBSET PeerIDs]
    /\ told \in [Conns -> [PeerIDs -> {"none", "online", "offline"}]]

\* The parts of MissInv that are about types and life cycles.
LEMMA Types ==
  ASSUME MissInv
  PROVE  TypeOK /\ StepTypes /\ NewsTypes /\ Lifecycle /\ Listening
  BY DEF MissInv, ConnInv, TypeOK, StepTypes, NewsTypes

\* A stored connection has the id it is stored under and has not been torn down.
LEMMA StoredFacts ==
  ASSUME MissInv, NEW p \in PeerIDs, store[p] # NoConn
  PROVE  /\ store[p] \in Conns /\ ID[store[p]] = p
         /\ accept[store[p]] \notin {"idle", "handshake"}
         /\ work[store[p]] \notin {"deleted", "offline", "gone"}
  BY DEF MissInv, ConnInv, TypeOK, StoredIsLive

-----------------------------------------------------------------------------
(* Frames: what Pending and Announced depend on. *)

InChan(c, p) ==
    [id |-> p, online |-> TRUE] \in {eventChan[c][i] : i \in DOMAIN eventChan[c]}
InBatch(c, p) == p \in BatchIDs(c, TRUE)

\* A report is pending in the event channel or in the batch that the listener goroutine
\* took.
LEMMA PendingParts ==
  ASSUME NEW c, NEW p
  PROVE  /\ Pending(c, p, TRUE)
            <=> InChan(c, p) \/ (lstep[c] \in {"drain", "online"} /\ InBatch(c, p))
         /\ Pending(c, p, TRUE)'
            <=> InChan(c, p)' \/ (lstep'[c] \in {"drain", "online"} /\ InBatch(c, p)')
         /\ eventChan'[c] = eventChan[c] => (InChan(c, p)' <=> InChan(c, p))
         /\ batch'[c] = batch[c] => (InBatch(c, p)' <=> InBatch(c, p))
<1>1. Pending(c, p, TRUE)
      <=> InChan(c, p) \/ (lstep[c] \in {"drain", "online"} /\ InBatch(c, p))
  BY DEF Pending, InChan, InBatch
<1>2. Pending(c, p, TRUE)'
      <=> InChan(c, p)' \/ (lstep'[c] \in {"drain", "online"} /\ InBatch(c, p)')
  BY DEF Pending, InChan, InBatch
<1>3. eventChan'[c] = eventChan[c] => (InChan(c, p)' <=> InChan(c, p))
  BY DEF InChan
<1>4. batch'[c] = batch[c] => (InBatch(c, p)' <=> InBatch(c, p))
  BY DEF InBatch, BatchIDs
<1> QED
  BY <1>1, <1>2, <1>3, <1>4

\* A pending report stays pending while channel, batch and listener are left alone.
LEMMA PendingFrame ==
  ASSUME NEW c, NEW p, UNCHANGED <<eventChan[c], lstep[c], batch[c]>>, Pending(c, p, TRUE)
  PROVE  Pending(c, p, TRUE)'
  BY PendingParts

\* Another event is queued behind the pending ones.
LEMMA PendingAppend ==
  ASSUME TypeOK, NEW c \in Conns, NEW p \in PeerIDs, NEW e \in Event,
         eventChan'[c] = Append(eventChan[c], e), UNCHANGED <<lstep, batch>>
  PROVE  /\ Pending(c, p, TRUE) => Pending(c, p, TRUE)'
         /\ e = [id |-> p, online |-> TRUE] => Pending(c, p, TRUE)'
<1> DEFINE s == eventChan[c]
           t == eventChan'[c]
<1>1. s \in Seq(Event)
  BY DEF TypeOK
<1>2. /\ DOMAIN s \subseteq DOMAIN t
      /\ \A i \in DOMAIN s : t[i] = s[i]
      /\ Len(s) + 1 \in DOMAIN t /\ t[Len(s) + 1] = e
  BY <1>1
<1>3. {s[i] : i \in DOMAIN s} \cup {e} \subseteq {t[i] : i \in DOMAIN t}
  BY <1>2
<1>4. /\ InChan(c, p) => InChan(c, p)'
      /\ e = [id |-> p, online |-> TRUE] => InChan(c, p)'
  BY <1>3 DEF InChan
<1>5. lstep'[c] = lstep[c] /\ batch'[c] = batch[c]
  OBVIOUS
<1> QED
  BY <1>4, <1>5, PendingParts

\* Draining moves queued events into the batch and loses none.
LEMMA PendingTake ==
  ASSUME TypeOK, NEW c \in Conns, NEW p \in PeerIDs, TakeEvents(c), Pending(c, p, TRUE)
  PROVE  Pending(c, p, TRUE)'
<1> DEFINE b == batch[c]
           s == eventChan[c]
           t == b \o s
<1>1. b \in Seq(Event) /\ s \in Seq(Event)
  BY DEF TypeOK
<1>2. batch'[c] = t /\ lstep'[c] = "drain"
  BY DEF TypeOK, TakeEvents
<1> HIDE DEF b, s
<1>3. /\ t \in Seq(Event) /\ Len(t) = Len(b) + Len(s)
      /\ \A i \in 1..Len(t) : t[i] = IF i <= Len(b) THEN b[i] ELSE s[i - Len(b)]
  BY <1>1, ConcatProperties
<1>4. /\ \A i \in DOMAIN b : i \in DOMAIN t /\ t[i] = b[i]
      /\ \A i \in DOMAIN s : Len(b) + i \in DOMAIN t /\ t[Len(b) + i] = s[i]
  <2> HIDE DEF t
  <2>1. /\ Len(b) \in Nat /\ Len(s) \in Nat
        /\ DOMAIN b = 1..Len(b) /\ DOMAIN s = 1..Len(s) /\ DOMAIN t = 1..Len(t)
    BY <1>1, <1>3, LenProperties
  <2> QED
    BY <1>3, <2>1
<1> HIDE DEF t
<1>5. SUFFICES \E j \in DOMAIN t : t[j].id = p /\ t[j].online = TRUE
  BY <1>2 DEF Pending, BatchIDs
<1>6. CASE \E i \in DOMAIN s : s[i] = [id |-> p, online |-> TRUE]
  BY <1>4, <1>6
<1>7. CASE \E i \in DOMAIN b : b[i].id = p /\ b[i].online = TRUE
  BY <1>4, <1>7
<1> QED
  BY <1>6, <1>7 DEF Pending, BatchIDs, b, s

\* An announcement that has not reached c stays so while the stored connection,
\* its accept step and the publisher's list of visits are kept.
LEMMA StillUnannounced ==
  ASSUME MissInv, NEW c \in Conns, NEW p \in PeerIDs, ~Announced(p, c),
         store'[p] = store[p],
         store[p] # NoConn =>
            /\ accept'[store[p]] = accept[store[p]]
            /\ c \in todo[store[p]] \/ holding[store[p]] = c
               => c \in todo'[store[p]] \/ holding'[store[p]] = c
  PROVE  ~Announced(p, c)'
<1>1. store[p] # NoConn => work[store[p]] # "offline"
  BY StoredFacts
<1> QED
  BY <1>1 DEF Announced, StillToVisit, Publishing
-----------------------------------------------------------------------------
(* Listening. *)

\* Every step keeps the listener of a subscribed session registered.
LEMMA ListeningStep == ConnInv /\ Listening /\ [Next]_vars => Listening'
<1> SUFFICES ASSUME ConnInv, Listening, [Next]_vars PROVE Listening'
  OBVIOUS
<1> DEFINE frame == <<work, listeners, intOffline, reply>>
<1>0. /\ work \in [Conns -> {"none", "start", "read", "subscribe", "reply",
                             "delete", "deleted", "offline", "gone"}]
      /\ intOffline \in [Conns -> SUBSET PeerIDs] /\ reply \in [Conns -> SUBSET PeerIDs]
      /\ \A c \in Conns : work[c] # "none" => accept[c] = "done"
  BY DEF ConnInv, TypeOK, Lifecycle
<1>1. ASSUME UNCHANGED frame PROVE Listening'
  BY <1>1 DEF Listening
<1>2. ASSUME NEW c \in Conns, StartWork(c) PROVE Listening'
  BY <1>0, <1>2 DEF Listening, StartWork, listenVars, interest
<1>3. ASSUME NEW c \in Conns, NewListener(c) PROVE Listening'
  BY <1>0, <1>3 DEF Listening, NewListener, interest
<1>4. ASSUME NEW c \in Conns, SubscribePeerState(c) PROVE Listening'
  BY <1>0, <1>4 DEF Listening, SubscribePeerState, listenVars, interest
<1>5. ASSUME NEW c \in Conns, NEW ids \in Requests(c), RegisterInterest(c, ids)
      PROVE  Listening'
  BY <1>0, <1>5 DEF Listening, RegisterInterest, listenVars
<1>6. ASSUME NEW c \in Conns, SubscribeReply(c) PROVE Listening'
  BY <1>0, <1>6 DEF Listening, SubscribeReply, listenVars, interest
<1>7. ASSUME NEW c \in Conns, NEW ids, UnsubscribePeerState(c, ids) PROVE Listening'
  BY <1>0, <1>7 DEF Listening, UnsubscribePeerState, listenVars
<1>8. ASSUME NEW c \in Conns, RemoveListener(c) PROVE Listening'
  BY <1>0, <1>8 DEF Listening, RemoveListener, interest
<1>9. ASSUME NEW c \in Conns, DeletePeer(c) \/ PeerWentOffline(c) \/ SessionEnds(c)
      PROVE  Listening'
  <2>1. UNCHANGED <<listeners, intOffline, reply>>
    BY <1>9 DEF DeletePeer, PeerWentOffline, SessionEnds, listenVars, interest
  <2>2. \E w \in {"deleted", "offline", "gone"} : work' = [work EXCEPT ![c] = w]
    BY <1>9 DEF DeletePeer, PeerWentOffline, SessionEnds
  <2>3. work[c] \in {"delete", "deleted", "offline"}
    BY <1>9 DEF DeletePeer, PeerWentOffline, SessionEnds
  <2> QED
    BY <1>0, <2>1, <2>2, <2>3 DEF Listening
<1>10. ASSUME NEW c \in Conns, \/ Accept(c) \/ HandshakeFails(c) \/ AddPeer(c)
                               \/ PeerCameOnline(c) \/ ConnCloses(c) \/ CloseGracefully(c)
       PROVE  UNCHANGED frame
  BY <1>10 DEF Accept, HandshakeFails, AddPeer, PeerCameOnline, ConnCloses,
               CloseGracefully, listenVars, interest
<1>11. ASSUME NEW c \in Conns, PublishStep(c) \/ ListenerStep(c) PROVE UNCHANGED frame
  BY <1>11 DEF PublishStep, SkipListener, SendEvent, BlockOnSend, UnblockSend,
               ListenerStep, TakeEvents, Drained, SendPeersOnline, SendPeersWentOffline,
               ListenerExits, sessionVars, listenVars, interest
<1>12. ASSUME Shutdown \/ Closed \/ UNCHANGED vars PROVE UNCHANGED frame
  BY <1>12 DEF Shutdown, Closed, vars, sessionVars, listenVars, interest
<1> QED
  BY <1>1, <1>2, <1>3, <1>4, <1>5, <1>6, <1>7, <1>8, <1>9, <1>10, <1>11, <1>12
     DEF Next, Environment, ServerStep, ShutdownStep, AcceptStep, SessionStep

-----------------------------------------------------------------------------
(* Due, one lemma per group of actions. *)

\* Accepting a connection misses nobody.
LEMMA AcceptDue ==
  ASSUME MissInv, NEW c \in Conns, NEW p \in PeerIDs,
         NEW d \in Conns, Accept(d) \/ AcceptStep(d)
  PROVE  Due(c, p)'
<1> DEFINE q == store[p]
<1>1. UNCHANGED <<eventChan, lstep, batch, told, reply, intOnline, intOffline, holding>>
  BY DEF Accept, AcceptStep, HandshakeFails, AddPeer, PeerCameOnline, StartWork,
               listenVars, interest, pubVars
<1>2. Pending(c, p, TRUE) => Pending(c, p, TRUE)'
  BY <1>1, PendingFrame
<1>3. StepTypes /\ Lifecycle /\ Listening /\ Due(c, p)
  BY Types DEF MissInv, AllDue
<1>4. open'[c] /\ p \in intOffline[c] => open[c]
  <2>1. CASE Accept(d)
    <3>1. intOffline[d] = {}
      BY <1>3, <2>1 DEF Accept, Lifecycle, Listening
    <3>2. c # d => open'[c] = open[c]
      BY <1>3, <2>1 DEF Accept, StepTypes
    <3> QED
      BY <3>1, <3>2
  <2>2. CASE AcceptStep(d)
    BY <1>3, <2>2 DEF AcceptStep, HandshakeFails, AddPeer, PeerCameOnline, StartWork, StepTypes
  <2> QED
    BY <2>1, <2>2
<1>5. ASSUME open[c], p \in intOffline[c], ~Announced(p, c) PROVE ~Announced(p, c)'
  <2>0. q # NoConn => q \in Conns /\ ID[q] = p /\ accept[q] \notin {"idle", "handshake"}
                      /\ work[q] # "offline"
    BY StoredFacts
  <2>1. CASE Accept(d) \/ HandshakeFails(d)
    <3>1. store' = store /\ todo' = todo
      BY <2>1 DEF Accept, HandshakeFails, pubVars
    <3>2. q # NoConn => q # d /\ accept'[q] = accept[q]
      BY <1>3, <2>0, <2>1 DEF Accept, HandshakeFails, StepTypes
    <3> QED
      BY <1>1, <1>5, <3>1, <3>2, StillUnannounced
  <2>2. CASE AddPeer(d) /\ ID[d] = p
    BY <1>3, <2>2 DEF AddPeer, Announced, StepTypes
  <2>3. CASE AddPeer(d) /\ ID[d] # p
    <3>1. q # d /\ store'[p] = q /\ todo' = todo
      BY <1>3, <2>0, <2>3, RelayAssumption DEF AddPeer, StepTypes, pubVars
    <3>2. accept'[q] = accept[q]
      BY <1>3, <2>3, <3>1 DEF AddPeer, StepTypes
    <3> QED
      BY <1>1, <1>5, <3>1, <3>2, StillUnannounced
  <2>4. CASE PeerCameOnline(d) /\ q = d
    <3>1. work[c] \in {"read", "subscribe", "reply"} /\ c \in listeners \cap Subscribers
      <4>1. work[c] \notin {"none", "start", "delete", "deleted", "offline", "gone"}
        BY <1>3, <1>5 DEF Lifecycle, Listening
      <4>2. work[c] \in {"none", "start", "read", "subscribe", "reply",
                         "delete", "deleted", "offline", "gone"}
        BY Types DEF TypeOK
      <4> QED
        BY <1>3, <1>5, <4>1, <4>2 DEF Listening
    <3>2. c \in todo'[d] /\ accept'[d] = "online" /\ store' = store
      BY <1>3, <2>4, <3>1 DEF PeerCameOnline, StepTypes
    <3> QED
      BY <2>4, <3>2 DEF Announced, StillToVisit, Publishing
  <2>5. CASE PeerCameOnline(d) /\ q # d
    <3>1. store' = store /\ accept'[q] = accept[q] /\ todo'[q] = todo[q]
      BY <1>3, <2>5 DEF PeerCameOnline, StepTypes
    <3> QED
      BY <1>1, <1>5, <3>1, StillUnannounced
  <2>6. CASE StartWork(d)
    <3>1. store' = store /\ todo' = todo /\ (q # d => accept'[q] = accept[q])
      BY <1>3, <2>6 DEF StartWork, StepTypes, pubVars
    <3>2. q # d
      BY <1>5, <2>6, RelayAssumption DEF StartWork, Announced, StillToVisit
    <3> QED
      BY <1>1, <1>5, <3>1, <3>2, StillUnannounced
  <2> QED
    BY <2>1, <2>2, <2>3, <2>4, <2>5, <2>6 DEF AcceptStep
<1> QED
  BY <1>1, <1>2, <1>3, <1>4, <1>5 DEF Due
\* A publisher in Accept announces an arrival, one in the teardown a departure.
LEMMA EventOfCases ==
  ASSUME NEW d \in Conns
  PROVE  /\ accept[d] = "online" => /\ EventOf(d).online
                                   /\ EventOf(d) = [id |-> ID[d], online |-> TRUE]
         /\ accept[d] # "online" => ~EventOf(d).online
<1>1. EventOf(d).online = (accept[d] = "online")
  BY DEF EventOf
<1>2. CASE accept[d] = "online"
  <2>1. (accept[d] = "online") = TRUE
    BY <1>2
  <2> QED
    BY <1>1, <1>2, <2>1 DEF EventOf
<1> QED
  BY <1>1, <1>2

\* A publisher d has put its event into the channel of l.
LEMMA DeliveredDue ==
  ASSUME MissInv, NEW c \in Conns, NEW p \in PeerIDs,
         NEW d \in Conns, NEW l \in Conns,
         eventChan' = [eventChan EXCEPT ![l] = Append(@, EventOf(d))], ForgetOnline(d, l),
         UNCHANGED <<accept, work, open, store, lstep, batch, told, reply, intOffline>>,
         \A x \in Conns \ {d} : todo'[x] = todo[x] /\ holding'[x] = holding[x],
         l # c => (c \in todo[d] \/ holding[d] = c => c \in todo'[d] \/ holding'[d] = c)
  PROVE  Due(c, p)'
<1> DEFINE q == store[p]
           news == [id |-> p, online |-> TRUE]
<1>0. TypeOK /\ NewsTypes /\ Due(c, p) /\ EventOf(d) \in Event
  BY Types, EventOfType DEF MissInv, AllDue
<1>1. IF l = c THEN eventChan'[c] = Append(eventChan[c], EventOf(d))
               ELSE eventChan'[c] = eventChan[c]
  BY <1>0 DEF TypeOK
<1>2. Pending(c, p, TRUE) => Pending(c, p, TRUE)'
  <2>1. CASE l = c
    BY <1>0, <1>1, <2>1, PendingAppend
  <2>2. CASE l # c
    BY <1>1, <2>2, PendingFrame
  <2> QED
    BY <2>1, <2>2
<1>3. CASE l = c /\ EventOf(d) = news
  <2>1. Pending(c, p, TRUE)'
    BY <1>0, <1>1, <1>3, PendingAppend
  <2> QED
    BY <2>1 DEF Due
<1>4. CASE ~(l = c /\ EventOf(d) = news)
  <2>1. p \in intOnline[c] => p \in intOnline'[c]
    <3>1. CASE l = c /\ EventOf(d).online
      <4>1. ID[d] # p
        BY <1>4, <3>1, EventOfCases
      <4> QED
        BY <1>0, <3>1, <4>1 DEF ForgetOnline, NewsTypes
    <3>2. CASE l # c \/ ~EventOf(d).online
      BY <1>0, <3>2 DEF ForgetOnline, NewsTypes
    <3> QED
      BY <3>1, <3>2
  <2>2. ASSUME ~Announced(p, c) PROVE ~Announced(p, c)'
    <3>0. q # NoConn => q \in Conns /\ ID[q] = p /\ work[q] # "offline"
      BY StoredFacts
    <3>1. CASE q = NoConn
      BY <3>1 DEF Announced
    <3>2. CASE q # NoConn /\ (q # d \/ l # c)
      <4>1. c \in todo[q] \/ holding[q] = c => c \in todo'[q] \/ holding'[q] = c
        BY <3>0, <3>2
      <4> QED
        BY <2>2, <4>1, StillUnannounced
    <3>3. CASE q # NoConn /\ q = d /\ l = c
      <4>1. accept[d] # "online"
        BY <1>4, <3>0, <3>3, EventOfCases
      <4> QED
        BY <2>2, <3>0, <3>3, <4>1 DEF Announced, StillToVisit, Publishing
    <3> QED
      BY <3>1, <3>2, <3>3
  <2> QED
    BY <1>0, <1>2, <2>1, <2>2 DEF Due
<1> QED
  BY <1>3, <1>4

\* Publishing an event misses nobody, whether a listener is skipped, sent to or waited for.
LEMMA PublishDue ==
  ASSUME MissInv, NEW c \in Conns, NEW p \in PeerIDs, NEW d \in Conns, PublishStep(d)
  PROVE  Due(c, p)'
<1> DEFINE q == store[p]
<1>0. StepTypes /\ Due(c, p)
  BY Types DEF MissInv, AllDue
<1>1. ASSUME NEW l \in Conns, SkipListener(d, l) PROVE Due(c, p)'
  <2>1. UNCHANGED <<open, intOffline, intOnline, told, reply, eventChan, lstep, batch,
                    store, accept, work, holding>>
    BY <1>1 DEF SkipListener, sessionVars, interest, listenVars
  <2>2. Pending(c, p, TRUE) => Pending(c, p, TRUE)'
    BY <2>1, PendingFrame
  <2>3. ASSUME p \in intOnline[c], ~Announced(p, c) PROVE ~Announced(p, c)'
    <3>1. q # NoConn => q \in Conns /\ ID[q] = p /\ work[q] # "offline"
      BY StoredFacts
    <3>2. q = d => l # c
      <4>1. q = d => ID[d] = p /\ accept[d] = "online"
        BY <1>1, <3>1, RelayAssumption DEF SkipListener, Publishing
      <4>2. q = d => EventOf(d).online
        BY <4>1, EventOfCases
      <4> QED
        BY <1>1, <2>3, <4>1, <4>2 DEF SkipListener, Interested
    <3>3. q # NoConn /\ c \in todo[q] => c \in todo'[q]
      BY <1>0, <1>1, <3>1, <3>2 DEF SkipListener, StepTypes
    <3> QED
      BY <2>1, <2>3, <3>3, StillUnannounced
  <2> QED
    BY <1>0, <2>1, <2>2, <2>3 DEF Due
<1>2. ASSUME NEW l \in Conns, BlockOnSend(d, l) PROVE Due(c, p)'
  <2>1. UNCHANGED <<open, intOffline, intOnline, told, reply, eventChan, lstep, batch,
                    store, accept, work>>
    BY <1>2 DEF BlockOnSend, sessionVars, interest, listenVars
  <2>2. Pending(c, p, TRUE) => Pending(c, p, TRUE)'
    BY <2>1, PendingFrame
  <2>3. ASSUME ~Announced(p, c) PROVE ~Announced(p, c)'
    <3>1. q # NoConn => q \in Conns
      BY StoredFacts
    <3>2. q # NoConn /\ (c \in todo[q] \/ holding[q] = c) => c \in todo'[q] \/ holding'[q] = c
      BY <1>0, <1>2, <3>1, RelayAssumption DEF BlockOnSend, StepTypes
    <3> QED
      BY <2>1, <2>3, <3>2, StillUnannounced
  <2> QED
    BY <1>0, <2>1, <2>2, <2>3 DEF Due
<1>3. ASSUME NEW l \in Conns, SendEvent(d, l) PROVE Due(c, p)'
  <2>1. /\ \A x \in Conns \ {d} : todo'[x] = todo[x] /\ holding'[x] = holding[x]
        /\ l # c => (c \in todo[d] \/ holding[d] = c => c \in todo'[d] \/ holding'[d] = c)
    BY <1>0, <1>3 DEF SendEvent, StepTypes
  <2>2. /\ eventChan' = [eventChan EXCEPT ![l] = Append(@, EventOf(d))] /\ ForgetOnline(d, l)
        /\ UNCHANGED <<accept, work, open, store, lstep, batch, told, reply, intOffline>>
    BY <1>3 DEF SendEvent, sessionVars, listenVars
  <2> QED
    BY <2>1, <2>2, DeliveredDue
<1>4. CASE UnblockSend(d)
  <2> DEFINE l == holding[d]
  <2>0. l \in Conns
    BY <1>0, <1>4 DEF UnblockSend, StepTypes
  <2>1. /\ \A x \in Conns \ {d} : todo'[x] = todo[x] /\ holding'[x] = holding[x]
        /\ l # c => (c \in todo[d] \/ holding[d] = c => c \in todo'[d] \/ holding'[d] = c)
    BY <1>0, <1>4 DEF UnblockSend, StepTypes
  <2>2. /\ eventChan' = [eventChan EXCEPT ![l] = Append(@, EventOf(d))] /\ ForgetOnline(d, l)
        /\ UNCHANGED <<accept, work, open, store, lstep, batch, told, reply, intOffline>>
    BY <1>4 DEF UnblockSend, sessionVars, listenVars
  <2> QED
    BY <2>0, <2>1, <2>2, DeliveredDue
<1> QED
  BY <1>1, <1>2, <1>3, <1>4 DEF PublishStep
\* Steps of a session that leave interests and news alone.
LEMMA TeardownDue ==
  ASSUME MissInv, NEW c \in Conns, NEW p \in PeerIDs, NEW d \in Conns,
         \/ NewListener(d) \/ RemoveListener(d) \/ SubscribePeerState(d)
         \/ DeletePeer(d) \/ PeerWentOffline(d) \/ SessionEnds(d)
  PROVE  Due(c, p)'
<1> DEFINE q == store[p]
<1>0. StepTypes /\ Listening /\ Due(c, p)
  BY Types DEF MissInv, AllDue
<1>1. UNCHANGED <<open, intOffline, intOnline, told, reply, eventChan, batch, accept, holding>>
  BY DEF NewListener, RemoveListener, SubscribePeerState, DeletePeer, PeerWentOffline,
               SessionEnds, interest, listenVars, pubVars
<1>2. open[c] /\ p \in intOffline[c] => lstep'[c] = lstep[c]
  <2>1. CASE NewListener(d)
    BY <1>0, <2>1 DEF NewListener, StepTypes, Listening
  <2>2. CASE RemoveListener(d)
    BY <1>0, <2>2 DEF RemoveListener, StepTypes
  <2>3. CASE SubscribePeerState(d) \/ DeletePeer(d) \/ PeerWentOffline(d) \/ SessionEnds(d)
    BY <2>3 DEF SubscribePeerState, DeletePeer, PeerWentOffline, SessionEnds, listenVars
  <2> QED
    BY <2>1, <2>2, <2>3
<1>3. open[c] /\ p \in intOffline[c] /\ Pending(c, p, TRUE) => Pending(c, p, TRUE)'
  BY <1>1, <1>2, PendingFrame
<1>4. ASSUME ~Announced(p, c) PROVE ~Announced(p, c)'
  <2>0. q # NoConn => /\ q \in Conns /\ ID[q] = p
                      /\ work[q] \notin {"deleted", "offline", "gone"}
    BY StoredFacts
  <2>1. CASE DeletePeer(d) /\ q = d /\ q # NoConn
    <3>1. store'[p] = NoConn
      BY <1>0, <2>0, <2>1 DEF DeletePeer, IsStored, StepTypes
    <3> QED
      BY <3>1 DEF Announced
  <2>2. CASE DeletePeer(d) /\ (q # d \/ q = NoConn)
    <3>1. store'[p] = q /\ todo' = todo
      BY <1>0, <2>0, <2>2, RelayAssumption DEF DeletePeer, IsStored, StepTypes, pubVars
    <3> QED
      BY <1>1, <1>4, <3>1, StillUnannounced
  <2>3. CASE PeerWentOffline(d)
    <3>1. store' = store /\ (q # NoConn => todo'[q] = todo[q])
      BY <1>0, <2>0, <2>3 DEF PeerWentOffline, StepTypes
    <3> QED
      BY <1>1, <1>4, <3>1, StillUnannounced
  <2>4. CASE NewListener(d) \/ RemoveListener(d) \/ SubscribePeerState(d) \/ SessionEnds(d)
    <3>1. store' = store /\ todo' = todo
      BY <2>4 DEF NewListener, RemoveListener, SubscribePeerState, SessionEnds, pubVars
    <3> QED
      BY <1>1, <1>4, <3>1, StillUnannounced
  <2> QED
    BY <2>1, <2>2, <2>3, <2>4
<1> QED
  BY <1>0, <1>1, <1>3, <1>4 DEF Due

\* A write records what a client is told, and takes nothing back.
LEMMA WriteTells ==
  ASSUME NewsTypes, NEW c \in Conns, NEW d \in Conns, NEW p \in PeerIDs,
         NEW ids, NEW state, state # "none", Write(d, ids, state)
  PROVE  /\ told[c][p] # "none" => told'[c][p] # "none"
         /\ d = c /\ open[c] /\ p \in ids => told'[c][p] = state
  BY DEF NewsTypes, Write

\* Registering an interest, the reply to it and unsubscribing miss nobody.
LEMMA SubscribeDue ==
  ASSUME MissInv, NEW c \in Conns, NEW p \in PeerIDs, NEW d \in Conns,
         SubscribeReply(d) \/ \E ids \in Requests(d) :
            RegisterInterest(d, ids) \/ UnsubscribePeerState(d, ids)
  PROVE  Due(c, p)'
<1>0. StepTypes /\ NewsTypes /\ Listening /\ Due(c, p)
  BY Types DEF MissInv, AllDue
<1>1. UNCHANGED <<open, eventChan, lstep, batch, accept, store, todo, holding>>
  BY DEF SubscribeReply, RegisterInterest, UnsubscribePeerState, listenVars, pubVars
<1>2. Pending(c, p, TRUE) => Pending(c, p, TRUE)'
  BY <1>1, PendingFrame
<1>3. ~Announced(p, c) => ~Announced(p, c)'
  BY <1>1, StillUnannounced
<1>4. CASE SubscribeReply(d)
  <2>1. intOffline' = intOffline /\ intOnline' = intOnline
    BY <1>4 DEF SubscribeReply, interest
  <2>2. told[c][p] # "none" => told'[c][p] # "none"
    BY <1>0, <1>4, WriteTells DEF SubscribeReply
  <2>3. CASE c = d
    <3>1. open[c] /\ p \in reply[c] => told'[c][p] = "online"
      BY <1>0, <1>4, <2>3, WriteTells DEF SubscribeReply
    <3> QED
      BY <1>0, <1>1, <1>2, <1>3, <2>1, <2>2, <3>1 DEF Due
  <2>4. CASE c # d
    <3>1. reply'[c] = reply[c]
      BY <1>0, <1>4, <2>4 DEF SubscribeReply, NewsTypes
    <3> QED
      BY <1>0, <1>1, <1>2, <1>3, <2>1, <2>2, <3>1 DEF Due
  <2> QED
    BY <2>3, <2>4
<1>5. ASSUME NEW ids \in Requests(d), RegisterInterest(d, ids) PROVE Due(c, p)'
  <2>1. CASE c = d /\ p \in ids
    <3>1. p \in intOnline'[c] /\ (store[p] # NoConn => p \in reply'[c])
      BY <1>0, <1>5, <2>1 DEF RegisterInterest, NewsTypes
    <3> QED
      BY <1>1, <3>1 DEF Due, Announced
  <2>2. CASE c # d \/ p \notin ids
    <3>1. told'[c][p] = told[c][p]
      BY <1>0, <1>5, <2>2 DEF RegisterInterest, NewsTypes
    <3>2. p \in reply[c] => p \in reply'[c]
      BY <1>0, <1>5 DEF RegisterInterest, Listening, NewsTypes
    <3>3. /\ p \in intOnline[c] => p \in intOnline'[c]
          /\ p \in intOffline'[c] => p \in intOffline[c]
      BY <1>0, <1>5, <2>2 DEF RegisterInterest, NewsTypes
    <3> QED
      BY <1>0, <1>1, <1>2, <1>3, <3>1, <3>2, <3>3 DEF Due
  <2> QED
    BY <2>1, <2>2
<1>6. ASSUME NEW ids, UnsubscribePeerState(d, ids) PROVE Due(c, p)'
  <2>1. /\ p \in intOffline'[c] => p \in intOffline[c]
        /\ p \in intOffline'[c] /\ p \in intOnline[c] => p \in intOnline'[c]
    BY <1>0, <1>6 DEF UnsubscribePeerState, NewsTypes
  <2>2. told' = told /\ reply' = reply
    BY <1>6 DEF UnsubscribePeerState
  <2> QED
    BY <1>0, <1>1, <1>2, <1>3, <2>1, <2>2 DEF Due
<1> QED
  BY <1>4, <1>5, <1>6
\* The listener goroutine loses no report between the channel and the socket.
LEMMA ListenerDue ==
  ASSUME MissInv, NEW c \in Conns, NEW p \in PeerIDs, NEW d \in Conns, ListenerStep(d)
  PROVE  Due(c, p)'
<1>0. TypeOK /\ StepTypes /\ NewsTypes /\ Due(c, p)
  BY Types DEF MissInv, AllDue
<1>1. UNCHANGED <<open, intOffline, intOnline, reply, store, accept, work, todo, holding>>
  BY DEF ListenerStep, TakeEvents, Drained, SendPeersOnline, SendPeersWentOffline,
               ListenerExits, sessionVars, interest, pubVars
<1>2. ~Announced(p, c) => ~Announced(p, c)'
  BY <1>1, StillUnannounced
<1>3. SUFFICES open[c] /\ (told[c][p] # "none" \/ Pending(c, p, TRUE))
               => told'[c][p] # "none" \/ Pending(c, p, TRUE)'
  BY <1>0, <1>1, <1>2 DEF Due
<1>4. CASE TakeEvents(d)
  <2>1. told' = told
    BY <1>4 DEF TakeEvents
  <2>2. CASE d = c
    BY <1>0, <1>4, <2>1, <2>2, PendingTake
  <2>3. CASE d # c
    <3>1. UNCHANGED <<eventChan[c], lstep[c], batch[c]>>
      BY <1>0, <1>4, <2>3 DEF TakeEvents, TypeOK
    <3> QED
      BY <2>1, <3>1, PendingFrame
  <2> QED
    BY <2>2, <2>3
<1>5. CASE Drained(d)
  <2>1. told' = told /\ eventChan' = eventChan /\ batch' = batch
    BY <1>5 DEF Drained
  <2>2. lstep'[c] = lstep[c] \/ (lstep[c] = "drain" /\ lstep'[c] = "online")
    BY <1>0, <1>5 DEF Drained, StepTypes
  <2> QED
    BY <2>1, <2>2, PendingParts
<1>6. CASE ListenerExits(d)
  <2>1. told' = told /\ eventChan' = eventChan /\ batch' = batch
    BY <1>6 DEF ListenerExits
  <2>2. lstep'[c] = lstep[c] \/ lstep[c] = "wait"
    BY <1>0, <1>6 DEF ListenerExits, StepTypes
  <2>3. "wait" \notin {"drain", "online"}
    OBVIOUS
  <2> QED
    BY <2>1, <2>2, <2>3, PendingParts
<1>7. CASE SendPeersOnline(d)
  <2>1. Write(d, BatchIDs(d, TRUE), "online")
    BY <1>7 DEF SendPeersOnline
  <2>2. /\ told[c][p] # "none" => told'[c][p] # "none"
        /\ d = c /\ open[c] /\ p \in BatchIDs(d, TRUE) => told'[c][p] = "online"
    BY <1>0, <2>1, WriteTells
  <2>3. eventChan' = eventChan /\ batch' = batch /\ (d # c => lstep'[c] = lstep[c])
    BY <1>0, <1>7 DEF SendPeersOnline, StepTypes
  <2>4. "online" # "none"
    OBVIOUS
  <2> QED
    BY <2>2, <2>3, <2>4, PendingParts DEF InBatch
<1>8. CASE SendPeersWentOffline(d)
  <2>1. told[c][p] # "none" => told'[c][p] # "none"
    BY <1>0, <1>8, WriteTells DEF SendPeersWentOffline
  <2>2. eventChan' = eventChan /\ lstep[d] \notin {"drain", "online"}
    BY <1>8 DEF SendPeersWentOffline
  <2>3. d # c => lstep'[c] = lstep[c] /\ batch'[c] = batch[c]
    BY <1>0, <1>8 DEF SendPeersWentOffline, TypeOK
  <2> QED
    BY <2>1, <2>2, <2>3, PendingParts
<1> QED
  BY <1>4, <1>5, <1>6, <1>7, <1>8 DEF ListenerStep

\* Closing a connection only makes Due weaker for it.
LEMMA ClosingDue ==
  ASSUME MissInv, NEW c \in Conns, NEW p \in PeerIDs,
         \/ ShutdownStep \/ Shutdown \/ UNCHANGED vars
         \/ \E d \in Conns : ConnCloses(d)
  PROVE  Due(c, p)'
<1>0. StepTypes /\ Due(c, p)
  BY Types DEF MissInv, AllDue
<1>1. UNCHANGED <<intOffline, intOnline, told, reply, eventChan, lstep, batch,
                  store, accept, todo, holding>>
  BY DEF ShutdownStep, Shutdown, Closed, CloseGracefully, ConnCloses, vars,
               sessionVars, listenVars, interest, pubVars
<1>2. open' = open \/ \E d \in Conns : open' = [open EXCEPT ![d] = FALSE]
  BY DEF ShutdownStep, Shutdown, Closed, CloseGracefully, ConnCloses, vars, sessionVars
<1>3. open'[c] => open[c]
  BY <1>0, <1>2 DEF StepTypes
<1>4. ~Announced(p, c) => ~Announced(p, c)'
  BY <1>1, StillUnannounced
<1>5. Pending(c, p, TRUE) => Pending(c, p, TRUE)'
  BY <1>1, PendingFrame
<1> QED
  BY <1>0, <1>1, <1>3, <1>4, <1>5 DEF Due

-----------------------------------------------------------------------------
\* MissInv holds at the start.
LEMMA InitMissInv == Init => MissInv
  BY InitConnInv DEF Init, MissInv, Listening, AllDue, Due

\* Every step of the relay server keeps MissInv.
LEMMA NextMissInv == MissInv /\ [Next]_vars => MissInv'
<1> SUFFICES ASSUME MissInv, [Next]_vars PROVE MissInv'
  OBVIOUS
<1>1. ConnInv' /\ Listening'
  BY NextConnInv, ListeningStep DEF MissInv
<1>2. ASSUME NEW c \in Conns, NEW p \in PeerIDs PROVE Due(c, p)'
  BY AcceptDue, PublishDue, TeardownDue, SubscribeDue, ListenerDue, ClosingDue
     DEF Next, Environment, ServerStep, SessionStep
<1> QED
  BY <1>1, <1>2 DEF MissInv, AllDue

\* SubscribersMissNobody: an online, announced peer has been reported to every
\* subscriber, or the report is queued for it, in every interleaving of
\* subscribe handlers, publishers and listener goroutines.
THEOREM SubscribersMissNobody == Spec => []NeverMissed
<1>1. MissInv => NeverMissed
  BY DEF MissInv, AllDue, Due, NeverMissed
<1> QED
  BY <1>1, InitMissInv, NextMissInv, PTL DEF Spec
-----------------------------------------------------------------------------
(* No subscriber keeps a phantom.  A client may come to believe that p is    *)
(* online from what it was told, from the reply to its subscription or from *)
(* an event on its way (Rumour).  The strengthening Corrected says that when *)
(* p is gone the correction comes after the rumour: the session that ended   *)
(* has still to publish it (Departing), or it is the last event about p      *)
(* (OfflineLast).  Fresh says that there is no rumour without an interest.   *)
(* The argument needs that a client dials one connection at a time.          *)

HasIn(s, p, isOnline) == \E i \in DOMAIN s : s[i].id = p /\ s[i].online = isOnline

EndsOffline(s, p) ==
    \E i \in DOMAIN s :
        /\ s[i].id = p /\ s[i].online = FALSE
        /\ \A j \in DOMAIN s : j > i => ~(s[j].id = p /\ s[j].online = TRUE)

Rumour(c, p) ==
    \/ told[c][p] = "online" \/ p \in reply[c]
    \/ HasIn(eventChan[c], p, TRUE)
    \/ lstep[c] \in {"drain", "online"} /\ HasIn(batch[c], p, TRUE)

Leaving(d, c) ==
    \/ work[d] = "deleted"
    \/ work[d] = "offline" /\ (c \in todo[d] \/ holding[d] = c)

Departing(c, p) == \E d \in Conns : ID[d] = p /\ Leaving(d, c)

\* A batch is written online events first, so any offline event in it will do.
OfflineLast(c, p) ==
    \/ EndsOffline(eventChan[c], p)
    \/ ~HasIn(eventChan[c], p, TRUE) /\ HasIn(batch[c], p, FALSE)

Corrected(c, p) ==
    (open[c] /\ p \notin withdrawn[c] /\ store[p] = NoConn /\ Rumour(c, p))
    => Departing(c, p) \/ OfflineLast(c, p)

Fresh(c, p) ==
    (p \notin intOffline[c] /\ p \notin withdrawn[c])
    => /\ ~Rumour(c, p)
       /\ p \notin intOnline[c]
       /\ \A d \in Conns : holding[d] = c => ID[d] # p

\* The dial under way is the only one of its id, and from AddPeer on it is stored.
OneDial ==
    \A d \in Conns :
        /\ \A e \in Conns : ID[d] = ID[e] /\ AcceptRunning(d) /\ AcceptRunning(e) => d = e
        /\ accept[d] \in {"added", "online"} => store[ID[d]] = d

ListenerIdle ==
    \A c \in Conns :
        /\ work[c] \in {"none", "start"} => lstep[c] = "none"
        /\ lstep[c] \in {"none", "wait", "exit"} => batch[c] = <<>>

NewsInv == \A c \in Conns, p \in PeerIDs : Fresh(c, p) /\ Corrected(c, p)

PhantomInv == ConnInv /\ Listening /\ OneDial /\ ListenerIdle /\ NewsInv

\* The parts of PhantomInv that are about types and life cycles.
LEMMA PhantomTypes ==
  ASSUME PhantomInv
  PROVE  /\ TypeOK /\ StepTypes /\ NewsTypes /\ Lifecycle /\ Listening
         /\ eventChan \in [Conns -> Seq(Event)] /\ batch \in [Conns -> Seq(Event)]
         /\ withdrawn \in [Conns -> SUBSET PeerIDs]
  BY DEF PhantomInv, ConnInv, TypeOK, StepTypes, NewsTypes

-----------------------------------------------------------------------------
(* Sequences of events. *)

\* What an event appended to a channel changes.
LEMMA AppendNews ==
  ASSUME NEW s \in Seq(Event), NEW e \in Event, NEW p
  PROVE  /\ HasIn(Append(s, e), p, TRUE)
            <=> HasIn(s, p, TRUE) \/ (e.id = p /\ e.online = TRUE)
         /\ e.id = p /\ e.online = FALSE => EndsOffline(Append(s, e), p)
         /\ EndsOffline(s, p) /\ ~(e.id = p /\ e.online = TRUE) => EndsOffline(Append(s, e), p)
<1> DEFINE t == Append(s, e)
<1>1. /\ Len(s) \in Nat /\ DOMAIN s = 1..Len(s) /\ DOMAIN t = 1..(Len(s) + 1)
      /\ \A i \in 1..Len(s) : t[i] = s[i]
      /\ t[Len(s) + 1] = e
  BY AppendProperties
<1> HIDE DEF t
<1>2. HasIn(t, p, TRUE) <=> HasIn(s, p, TRUE) \/ (e.id = p /\ e.online = TRUE)
  BY <1>1 DEF HasIn
<1>3. e.id = p /\ e.online = FALSE => EndsOffline(t, p)
  BY <1>1 DEF EndsOffline
<1>4. EndsOffline(s, p) /\ ~(e.id = p /\ e.online = TRUE) => EndsOffline(t, p)
  BY <1>1 DEF EndsOffline
<1> QED
  BY <1>2, <1>3, <1>4 DEF t

\* Draining a channel into a batch adds the events of the one to the other.
LEMMA ConcatNews ==
  ASSUME NEW s \in Seq(Event), NEW t \in Seq(Event), NEW p, NEW b
  PROVE  HasIn(s \o t, p, b) <=> HasIn(s, p, b) \/ HasIn(t, p, b)
<1> DEFINE u == s \o t
<1>1. /\ u \in Seq(Event) /\ Len(u) = Len(s) + Len(t)
      /\ \A i \in 1..Len(u) : u[i] = IF i <= Len(s) THEN s[i] ELSE t[i - Len(s)]
  BY ConcatProperties
<1> HIDE DEF u
<1>2. /\ Len(s) \in Nat /\ Len(t) \in Nat
      /\ DOMAIN s = 1..Len(s) /\ DOMAIN t = 1..Len(t) /\ DOMAIN u = 1..Len(u)
  BY <1>1, LenProperties
<1>3. \A i \in DOMAIN u : \/ i \in DOMAIN s /\ u[i] = s[i]
                          \/ i - Len(s) \in DOMAIN t /\ u[i] = t[i - Len(s)]
  BY <1>1, <1>2
<1>4. /\ \A i \in DOMAIN s : i \in DOMAIN u /\ u[i] = s[i]
      /\ \A i \in DOMAIN t : Len(s) + i \in DOMAIN u /\ u[Len(s) + i] = t[i]
  BY <1>1, <1>2
<1>5. HasIn(u, p, b) <=> HasIn(s, p, b) \/ HasIn(t, p, b)
  <2>1. HasIn(u, p, b) => HasIn(s, p, b) \/ HasIn(t, p, b)
    BY <1>3 DEF HasIn
  <2>2. HasIn(s, p, b) \/ HasIn(t, p, b) => HasIn(u, p, b)
    BY <1>4 DEF HasIn
  <2> QED
    BY <2>1, <2>2
<1> QED
  BY <1>5 DEF u

\* The empty channel holds no event; a departure at the end of a channel is in it.
LEMMA EmptyNews ==
  ASSUME NEW p
  PROVE  /\ \A b : ~HasIn(<<>>, p, b)
         /\ ~EndsOffline(<<>>, p)
         /\ \A s : EndsOffline(s, p) => HasIn(s, p, FALSE)
<1>1. DOMAIN <<>> = {}
  OBVIOUS
<1>2. \A b : ~HasIn(<<>>, p, b)
  BY <1>1 DEF HasIn
<1>3. \A s : EndsOffline(s, p) => HasIn(s, p, FALSE)
  BY DEF HasIn, EndsOffline
<1>4. ~EndsOffline(<<>>, p)
  BY <1>1 DEF EndsOffline
<1> QED
  BY <1>2, <1>3, <1>4

\* The ids of a batch's online or offline part are those of its events.
LEMMA BatchNews ==
  ASSUME NEW c, NEW p, NEW b
  PROVE  p \in BatchIDs(c, b) <=> HasIn(batch[c], p, b)
  BY DEF BatchIDs, HasIn
-----------------------------------------------------------------------------
(* Frames. *)

\* News about p depend on what c was told, its reply, channel and batch only.
LEMMA NewsFrame ==
  ASSUME NEW c \in Conns, NEW p \in PeerIDs,
         UNCHANGED <<told[c][p], eventChan[c], batch[c]>>,
         p \in reply'[c] => p \in reply[c],
         lstep'[c] \in {"drain", "online"} => lstep[c] \in {"drain", "online"}
  PROVE  /\ Rumour(c, p)' => Rumour(c, p)
         /\ OfflineLast(c, p) => OfflineLast(c, p)'
<1>1. /\ HasIn(eventChan[c], p, TRUE)' <=> HasIn(eventChan[c], p, TRUE)
      /\ HasIn(batch[c], p, TRUE)' <=> HasIn(batch[c], p, TRUE)
      /\ HasIn(batch[c], p, FALSE)' <=> HasIn(batch[c], p, FALSE)
      /\ EndsOffline(eventChan[c], p)' <=> EndsOffline(eventChan[c], p)
  BY DEF HasIn, EndsOffline
<1>2. told'[c][p] = told[c][p]
  OBVIOUS
<1> QED
  BY <1>1, <1>2 DEF Rumour, OfflineLast

\* Departures under way stay so while no session goes back.
LEMMA DepartingFrame ==
  ASSUME NEW c \in Conns, NEW p \in PeerIDs, Departing(c, p),
         \A d \in Conns : ID[d] = p /\ Leaving(d, c) => Leaving(d, c)'
  PROVE  Departing(c, p)'
  BY DEF Departing

-----------------------------------------------------------------------------
(* One dial at a time, and the idle listener. *)

\* Every step keeps the dial of an id unique and stored from AddPeer on.
LEMMA OneDialStep ==
  ASSUME ~OverlapDials, ConnInv, OneDial, [Next]_vars
  PROVE  OneDial'
<1>0. /\ accept \in [Conns -> {"idle", "handshake", "added", "online", "done"}]
      /\ work \in [Conns -> {"none", "start", "read", "subscribe", "reply",
                             "delete", "deleted", "offline", "gone"}]
      /\ store \in [PeerIDs -> Conns \cup {NoConn}]
      /\ \A c \in Conns : work[c] # "none" => accept[c] = "done"
  BY DEF ConnInv, TypeOK, Lifecycle
<1> USE RelayAssumption
<1>1. ASSUME UNCHANGED <<accept, store>> PROVE OneDial'
  BY <1>1 DEF OneDial, AcceptRunning
<1>2. ASSUME NEW c \in Conns, Accept(c) PROVE OneDial'
  BY <1>0, <1>2 DEF Accept, DialAllowed, OneDial, AcceptRunning
<1>3. ASSUME NEW c \in Conns, HandshakeFails(c) \/ PeerCameOnline(c) \/ StartWork(c)
      PROVE  OneDial'
  <2>1. store' = store /\ AcceptRunning(c)
    BY <1>3 DEF HandshakeFails, PeerCameOnline, StartWork, AcceptRunning
  <2>2. \/ accept' = [accept EXCEPT ![c] = "done"]
        \/ accept[c] = "added" /\ accept' = [accept EXCEPT ![c] = "online"]
    BY <1>3 DEF HandshakeFails, PeerCameOnline, StartWork
  <2> QED
    BY <1>0, <2>1, <2>2 DEF OneDial, AcceptRunning
<1>4. ASSUME NEW c \in Conns, AddPeer(c) PROVE OneDial'
  BY <1>0, <1>4 DEF AddPeer, OneDial, AcceptRunning
<1>5. ASSUME NEW c \in Conns, DeletePeer(c) PROVE OneDial'
  BY <1>0, <1>5 DEF DeletePeer, IsStored, OneDial, AcceptRunning
<1>6. ASSUME NEW c \in Conns, PublishStep(c) \/ ListenerStep(c) PROVE UNCHANGED <<accept, store>>
  BY <1>6 DEF PublishStep, SkipListener, SendEvent, BlockOnSend, UnblockSend,
                     ListenerStep, TakeEvents, Drained, SendPeersOnline, SendPeersWentOffline,
                     ListenerExits, sessionVars
<1>7. ASSUME NEW c \in Conns, NEW ids,
             \/ NewListener(c) \/ SubscribeReply(c) \/ RemoveListener(c) \/ PeerWentOffline(c)
             \/ SessionEnds(c) \/ RegisterInterest(c, ids) \/ UnsubscribePeerState(c, ids)
             \/ SubscribePeerState(c) \/ ConnCloses(c) \/ CloseGracefully(c)
      PROVE  UNCHANGED <<accept, store>>
  BY <1>7 DEF NewListener, SubscribeReply, RemoveListener, PeerWentOffline, SessionEnds,
                     RegisterInterest, UnsubscribePeerState, SubscribePeerState, ConnCloses,
                     CloseGracefully
<1>8. ASSUME Shutdown \/ Closed \/ UNCHANGED vars PROVE UNCHANGED <<accept, store>>
  BY <1>8 DEF Shutdown, Closed, vars, sessionVars
<1> QED
  BY <1>1, <1>2, <1>3, <1>4, <1>5, <1>6, <1>7, <1>8
     DEF Next, Environment, ServerStep, ShutdownStep, AcceptStep, SessionStep

\* Every step keeps the batch of a listener goroutine that is not writing empty.
LEMMA ListenerIdleStep ==
  ASSUME ConnInv, ListenerIdle, [Next]_vars
  PROVE  ListenerIdle'
<1>0. /\ work \in [Conns -> {"none", "start", "read", "subscribe", "reply",
                             "delete", "deleted", "offline", "gone"}]
      /\ lstep \in [Conns -> {"none", "wait", "drain", "online", "offline", "exit"}]
      /\ batch \in [Conns -> Seq(Event)]
      /\ \A c \in Conns : work[c] # "none" => accept[c] = "done"
  BY DEF ConnInv, TypeOK, Lifecycle
<1>1. ASSUME UNCHANGED <<work, lstep, batch>> PROVE ListenerIdle'
  BY <1>1 DEF ListenerIdle
<1>2. ASSUME NEW c \in Conns, NewListener(c) PROVE ListenerIdle'
  BY <1>0, <1>2 DEF NewListener, ListenerIdle
<1>3. ASSUME NEW c \in Conns, RemoveListener(c) PROVE ListenerIdle'
  BY <1>0, <1>3 DEF RemoveListener, ListenerIdle
<1>4. ASSUME NEW c \in Conns, NEW w, UNCHANGED <<lstep, batch>>,
             work' = [work EXCEPT ![c] = w], w # "none", w = "start" => work[c] = "none"
      PROVE  ListenerIdle'
  BY <1>0, <1>4 DEF ListenerIdle
<1>5. ASSUME NEW c \in Conns, StartWork(c) PROVE ListenerIdle'
  <2>1. work[c] = "none"
    BY <1>0, <1>5 DEF StartWork
  <2>2. UNCHANGED <<lstep, batch>> /\ work' = [work EXCEPT ![c] = "start"]
    BY <1>5 DEF StartWork, listenVars
  <2> QED
    BY <1>4, <2>1, <2>2
<1>6. ASSUME NEW c \in Conns, NEW ids,
             \/ SubscribePeerState(c) \/ RegisterInterest(c, ids) \/ SubscribeReply(c)
             \/ DeletePeer(c) \/ PeerWentOffline(c) \/ SessionEnds(c)
      PROVE  ListenerIdle'
  <2>1. UNCHANGED <<lstep, batch>>
    BY <1>6 DEF SubscribePeerState, RegisterInterest, SubscribeReply, DeletePeer, PeerWentOffline,
                SessionEnds, listenVars
  <2>2. \E w \in {"subscribe", "read", "reply", "deleted", "gone", "offline"} :
           work' = [work EXCEPT ![c] = w]
    BY <1>6 DEF SubscribePeerState, RegisterInterest, SubscribeReply, DeletePeer, PeerWentOffline,
                SessionEnds
  <2> QED
    BY <1>4, <2>1, <2>2
<1>7. ASSUME NEW c \in Conns, ListenerStep(c) PROVE ListenerIdle'
  <2>1. work' = work
    BY <1>7 DEF ListenerStep, TakeEvents, Drained, SendPeersOnline, SendPeersWentOffline,
                       ListenerExits, sessionVars
  <2>2. lstep[c] # "none" /\ \A d \in Conns \ {c} : lstep'[d] = lstep[d] /\ batch'[d] = batch[d]
    BY <1>0, <1>7 DEF ListenerStep, TakeEvents, Drained, SendPeersOnline, SendPeersWentOffline,
                      ListenerExits
  <2>3. lstep'[c] \in {"none", "wait", "exit"} => batch'[c] = <<>>
    BY <1>0, <1>7 DEF ListenerStep, TakeEvents, Drained, SendPeersOnline, SendPeersWentOffline,
                      ListenerExits, ListenerIdle
  <2> QED
    BY <2>1, <2>2, <2>3 DEF ListenerIdle
<1>8. ASSUME NEW c \in Conns, NEW ids,
             \/ Accept(c) \/ HandshakeFails(c) \/ AddPeer(c) \/ PeerCameOnline(c)
             \/ PublishStep(c) \/ UnsubscribePeerState(c, ids) \/ ConnCloses(c) \/ CloseGracefully(c)
      PROVE  UNCHANGED <<work, lstep, batch>>
  BY <1>8 DEF Accept, HandshakeFails, AddPeer, PeerCameOnline, PublishStep, SkipListener,
                     SendEvent, BlockOnSend, UnblockSend, UnsubscribePeerState, ConnCloses,
                     CloseGracefully, sessionVars, listenVars
<1>9. ASSUME Shutdown \/ Closed \/ UNCHANGED vars PROVE UNCHANGED <<work, lstep, batch>>
  BY <1>9 DEF Shutdown, Closed, vars, sessionVars, listenVars
<1> QED
  BY <1>1, <1>2, <1>3, <1>5, <1>6, <1>7, <1>8, <1>9
     DEF Next, Environment, ServerStep, ShutdownStep, AcceptStep, SessionStep

-----------------------------------------------------------------------------
(* Fresh and Corrected, one lemma per group of actions. *)

\* A client of whom a rumour is on its way, or was told one, is interested in p
\* (or withdrew) and its listener is registered.
LEMMA RumourHeard ==
  ASSUME PhantomInv, NEW c \in Conns, NEW p \in PeerIDs,
         open[c], p \notin withdrawn[c], Rumour(c, p)
  PROVE  p \in intOffline[c] /\ c \in listeners \cap Subscribers
<1>1. p \in intOffline[c]
  BY DEF PhantomInv, NewsInv, Fresh
<1>2. work[c] \in {"none", "start", "read", "subscribe", "reply",
                   "delete", "deleted", "offline", "gone"}
  BY PhantomTypes DEF StepTypes
<1>3. work[c] \notin {"none", "start", "delete", "deleted", "offline", "gone"}
  BY <1>1, PhantomTypes DEF Lifecycle, Listening
<1> QED
  BY <1>1, <1>2, <1>3, PhantomTypes DEF Listening

\* Accepting a connection starts no rumour and loses no correction.
LEMMA AcceptNews ==
  ASSUME PhantomInv, NEW c \in Conns, NEW p \in PeerIDs,
         NEW d \in Conns, Accept(d) \/ AcceptStep(d)
  PROVE  Fresh(c, p)' /\ Corrected(c, p)'
<1>0. StepTypes /\ Lifecycle /\ Listening /\ Fresh(c, p) /\ Corrected(c, p)
  BY PhantomTypes DEF PhantomInv, NewsInv
<1>1. UNCHANGED <<eventChan, lstep, batch, told, reply, interest, holding>>
  BY DEF Accept, AcceptStep, HandshakeFails, AddPeer, PeerCameOnline, StartWork,
               listenVars, pubVars
<1>2. /\ Rumour(c, p)' => Rumour(c, p)
      /\ OfflineLast(c, p) => OfflineLast(c, p)'
  BY <1>1, NewsFrame
<1>3. \A e \in Conns : ID[e] = p /\ Leaving(e, c) => Leaving(e, c)'
  <2> SUFFICES ASSUME NEW e \in Conns, Leaving(e, c) PROVE Leaving(e, c)'
    OBVIOUS
  <2>1. accept[e] = "done"
    BY <1>0 DEF Leaving, Lifecycle
  <2>2. work'[e] = work[e] /\ todo'[e] = todo[e]
    BY <1>0, <2>1 DEF StepTypes, Accept, AcceptStep, HandshakeFails, AddPeer, PeerCameOnline,
                      StartWork, pubVars
  <2> QED
    BY <1>1, <2>2 DEF Leaving
<1>4. Departing(c, p) => Departing(c, p)'
  BY <1>3, DepartingFrame
<1>5. store'[p] = NoConn => store[p] = NoConn
  BY <1>0, RelayAssumption DEF Accept, AcceptStep, HandshakeFails, AddPeer, PeerCameOnline,
                               StartWork, StepTypes
<1>6. open'[c] /\ p \notin withdrawn[c] /\ Rumour(c, p) => open[c]
  <2>1. CASE Accept(d)
    <3>1. c = d => intOffline[c] = {}
      BY <1>0, <2>1 DEF Accept, Lifecycle, Listening
    <3>2. c # d => open'[c] = open[c]
      BY <1>0, <2>1 DEF Accept, StepTypes
    <3> QED
      BY <1>0, <3>1, <3>2 DEF Fresh
  <2>2. CASE AcceptStep(d)
    BY <1>0, <2>2 DEF AcceptStep, HandshakeFails, AddPeer, PeerCameOnline, StartWork, StepTypes
  <2> QED
    BY <2>1, <2>2
<1>7. Fresh(c, p)'
  BY <1>0, <1>1, <1>2 DEF Fresh, interest
<1>8. Corrected(c, p)'
  BY <1>0, <1>1, <1>2, <1>4, <1>5, <1>6 DEF Corrected, interest
<1> QED
  BY <1>7, <1>8

\* Closing a connection or the server changes no news.
LEMMA ClosingNews ==
  ASSUME PhantomInv, NEW c \in Conns, NEW p \in PeerIDs,
         \/ ShutdownStep \/ Shutdown \/ UNCHANGED vars
         \/ \E d \in Conns : ConnCloses(d)
  PROVE  Fresh(c, p)' /\ Corrected(c, p)'
<1>0. StepTypes /\ Fresh(c, p) /\ Corrected(c, p)
  BY PhantomTypes DEF PhantomInv, NewsInv
<1>1. UNCHANGED <<interest, told, reply, eventChan, lstep, batch, store, work, todo, holding>>
  BY DEF ShutdownStep, Shutdown, Closed, CloseGracefully, ConnCloses, vars,
               sessionVars, listenVars, interest, pubVars
<1>2. open' = open \/ \E d \in Conns : open' = [open EXCEPT ![d] = FALSE]
  BY DEF ShutdownStep, Shutdown, Closed, CloseGracefully, ConnCloses, vars, sessionVars
<1>3. open'[c] => open[c]
  BY <1>0, <1>2 DEF StepTypes
<1>4. /\ Rumour(c, p)' => Rumour(c, p)
      /\ OfflineLast(c, p) => OfflineLast(c, p)'
  BY <1>1, NewsFrame
<1>5. Departing(c, p) => Departing(c, p)'
  BY <1>1 DEF Departing, Leaving
<1>6. Fresh(c, p)'
  BY <1>0, <1>1, <1>4 DEF Fresh, interest
<1>7. Corrected(c, p)'
  BY <1>0, <1>1, <1>3, <1>4, <1>5 DEF Corrected, interest
<1> QED
  BY <1>6, <1>7

\* The teardown of a session publishes the correction before it ends.
LEMMA TeardownNews ==
  ASSUME PhantomInv, NEW c \in Conns, NEW p \in PeerIDs, NEW d \in Conns,
         \/ NewListener(d) \/ RemoveListener(d) \/ SubscribePeerState(d)
         \/ DeletePeer(d) \/ PeerWentOffline(d) \/ SessionEnds(d)
  PROVE  Fresh(c, p)' /\ Corrected(c, p)'
<1>0. StepTypes /\ ListenerIdle /\ Fresh(c, p) /\ Corrected(c, p)
  BY PhantomTypes DEF PhantomInv, NewsInv
<1>1. UNCHANGED <<open, interest, told, reply, eventChan, batch, holding>>
  BY DEF NewListener, RemoveListener, SubscribePeerState, DeletePeer, PeerWentOffline,
               SessionEnds, listenVars, pubVars
<1>2. lstep'[c] \in {"drain", "online"} => lstep[c] \in {"drain", "online"}
  BY <1>0 DEF NewListener, RemoveListener, SubscribePeerState, DeletePeer, PeerWentOffline,
              SessionEnds, listenVars, StepTypes
<1>3. /\ Rumour(c, p)' => Rumour(c, p)
      /\ OfflineLast(c, p) => OfflineLast(c, p)'
  BY <1>1, <1>2, NewsFrame
<1>4. Fresh(c, p)'
  BY <1>0, <1>1, <1>3 DEF Fresh, interest
<1>5. SUFFICES ASSUME open[c], p \notin withdrawn[c], store'[p] = NoConn, Rumour(c, p),
                      ~OfflineLast(c, p)
               PROVE  Departing(c, p)'
  BY <1>1, <1>3, <1>4 DEF Corrected, interest
<1>6. CASE store[p] # NoConn
  <2>1. DeletePeer(d) /\ ID[d] = p /\ work'[d] = "deleted"
    BY <1>0, <1>5, <1>6, RelayAssumption
       DEF NewListener, RemoveListener, SubscribePeerState, DeletePeer, PeerWentOffline,
           SessionEnds, IsStored, StepTypes
  <2> QED
    BY <2>1 DEF Departing, Leaving
<1>7. CASE store[p] = NoConn
  <2>1. Departing(c, p)
    BY <1>0, <1>5, <1>7 DEF Corrected
  <2>2. c \in listeners \cap Subscribers
    BY <1>5, RumourHeard
  <2>3. ASSUME NEW e \in Conns, Leaving(e, c) PROVE Leaving(e, c)'
    <3>1. CASE e # d
      <4>1. work'[e] = work[e] /\ todo'[e] = todo[e]
        BY <1>0, <3>1 DEF NewListener, RemoveListener, SubscribePeerState, DeletePeer,
                          PeerWentOffline, SessionEnds, pubVars, StepTypes
      <4> QED
        BY <1>1, <2>3, <4>1 DEF Leaving
    <3>2. CASE e = d
      <4>1. work[d] \in {"deleted", "offline"}
        BY <2>3, <3>2 DEF Leaving
      <4>2. PeerWentOffline(d)
        BY <2>3, <3>2, <4>1, RelayAssumption
           DEF NewListener, RemoveListener, SubscribePeerState, DeletePeer, SessionEnds, Leaving
      <4>3. work'[d] = "offline" /\ c \in todo'[d]
        BY <1>0, <2>2, <4>2 DEF PeerWentOffline, StepTypes
      <4> QED
        BY <3>2, <4>3 DEF Leaving
    <3> QED
      BY <3>1, <3>2
  <2> QED
    BY <2>1, <2>3, DepartingFrame
<1> QED
  BY <1>6, <1>7

\* A subscription starts no rumour of a peer that is not stored; withdrawing
\* it takes the client out of the promise.
LEMMA SubscribeNews ==
  ASSUME PhantomInv, NEW c \in Conns, NEW p \in PeerIDs, NEW d \in Conns,
         SubscribeReply(d) \/ \E ids \in Requests(d) :
            RegisterInterest(d, ids) \/ UnsubscribePeerState(d, ids)
  PROVE  Fresh(c, p)' /\ Corrected(c, p)'
<1>0. StepTypes /\ NewsTypes /\ Listening /\ Fresh(c, p) /\ Corrected(c, p)
  BY PhantomTypes DEF PhantomInv, NewsInv
<1>a. withdrawn \in [Conns -> SUBSET PeerIDs]
  BY PhantomTypes
<1>1. UNCHANGED <<open, eventChan, lstep, batch, store, todo, holding>>
  BY DEF SubscribeReply, RegisterInterest, UnsubscribePeerState, listenVars, pubVars
<1>2. Departing(c, p) => Departing(c, p)'
  <2>1. work[d] \in {"read", "subscribe", "reply"} /\ \A e \in Conns \ {d} : work'[e] = work[e]
    BY <1>0 DEF SubscribeReply, RegisterInterest, UnsubscribePeerState, StepTypes
  <2>2. \A e \in Conns : ID[e] = p /\ Leaving(e, c) => Leaving(e, c)'
    BY <1>1, <2>1 DEF Leaving
  <2> QED
    BY <2>2, DepartingFrame
<1>3. OfflineLast(c, p) => OfflineLast(c, p)'
  BY <1>1 DEF OfflineLast, HasIn, EndsOffline
<1>4. /\ HasIn(eventChan[c], p, TRUE)' <=> HasIn(eventChan[c], p, TRUE)
      /\ HasIn(batch[c], p, TRUE)' <=> HasIn(batch[c], p, TRUE)
  BY <1>1 DEF HasIn
<1>5. CASE SubscribeReply(d)
  <2>1. UNCHANGED interest
    BY <1>5 DEF SubscribeReply
  <2>2. /\ told'[c][p] = "online" => told[c][p] = "online" \/ p \in reply[c]
        /\ p \in reply'[c] => p \in reply[c]
    BY <1>0, <1>5 DEF SubscribeReply, Write, NewsTypes
  <2>3. Rumour(c, p)' => Rumour(c, p)
    BY <1>1, <1>4, <2>2 DEF Rumour
  <2>4. Fresh(c, p)'
    BY <1>0, <1>1, <2>1, <2>3 DEF Fresh, interest
  <2>5. Corrected(c, p)'
    BY <1>0, <1>1, <1>2, <1>3, <2>1, <2>3 DEF Corrected, interest
  <2> QED
    BY <2>4, <2>5
<1>6. ASSUME NEW ids \in Requests(d), RegisterInterest(d, ids)
      PROVE  Fresh(c, p)' /\ Corrected(c, p)'
  <2>1. /\ told'[c][p] = "online" => told[c][p] = "online"
        /\ p \in reply'[c] => p \in reply[c] \/ (p \in intOffline'[c] /\ store[p] # NoConn)
    BY <1>0, <1>6 DEF RegisterInterest, NewsTypes
  <2>2. Rumour(c, p)' => Rumour(c, p) \/ (p \in intOffline'[c] /\ store[p] # NoConn)
    BY <1>1, <1>4, <2>1 DEF Rumour
  <2>3. /\ withdrawn' = withdrawn
        /\ p \in intOffline[c] => p \in intOffline'[c]
        /\ p \in intOnline'[c] => p \in intOnline[c] \/ p \in intOffline'[c]
    BY <1>0, <1>6 DEF RegisterInterest, NewsTypes
  <2>4. Fresh(c, p)'
    BY <1>0, <1>1, <2>2, <2>3 DEF Fresh
  <2>5. Corrected(c, p)'
    BY <1>0, <1>1, <1>2, <1>3, <2>2, <2>3 DEF Corrected
  <2> QED
    BY <2>4, <2>5
<1>7. ASSUME NEW ids \in Requests(d), UnsubscribePeerState(d, ids)
      PROVE  Fresh(c, p)' /\ Corrected(c, p)'
  <2>1. told' = told /\ reply' = reply
    BY <1>7 DEF UnsubscribePeerState
  <2>2. Rumour(c, p)' => Rumour(c, p)
    BY <1>1, <1>4, <2>1 DEF Rumour
  <2>3. /\ p \in withdrawn[c] => p \in withdrawn'[c]
        /\ p \in intOffline[c] => p \in intOffline'[c] \/ p \in withdrawn'[c]
        /\ p \in intOnline'[c] => p \in intOnline[c]
    BY <1>0, <1>a, <1>7 DEF UnsubscribePeerState, NewsTypes
  <2>4. Fresh(c, p)'
    BY <1>0, <1>1, <2>2, <2>3 DEF Fresh
  <2>5. Corrected(c, p)'
    BY <1>0, <1>1, <1>2, <1>3, <2>2, <2>3 DEF Corrected
  <2> QED
    BY <2>4, <2>5
<1> QED
  BY <1>5, <1>6, <1>7

\* The listener goroutine writes the correction after the rumour.
LEMMA ListenerNews ==
  ASSUME PhantomInv, NEW c \in Conns, NEW p \in PeerIDs, NEW d \in Conns, ListenerStep(d)
  PROVE  Fresh(c, p)' /\ Corrected(c, p)'
<1>0. /\ StepTypes /\ NewsTypes /\ Listening /\ ListenerIdle /\ Fresh(c, p) /\ Corrected(c, p)
      /\ eventChan \in [Conns -> Seq(Event)] /\ batch \in [Conns -> Seq(Event)]
  BY PhantomTypes DEF PhantomInv, NewsInv
<1>1. UNCHANGED <<open, interest, reply, store, work, todo, holding>>
  BY DEF ListenerStep, TakeEvents, Drained, SendPeersOnline, SendPeersWentOffline,
               ListenerExits, sessionVars, pubVars
<1>2. Departing(c, p) => Departing(c, p)'
  BY <1>1 DEF Departing, Leaving
<1>3. ASSUME Rumour(c, p)' => Rumour(c, p),
             open[c] /\ OfflineLast(c, p) => OfflineLast(c, p)' \/ ~Rumour(c, p)'
      PROVE  Fresh(c, p)' /\ Corrected(c, p)'
  <2>1. Fresh(c, p)'
    BY <1>0, <1>1, <1>3 DEF Fresh, interest
  <2>2. Corrected(c, p)'
    BY <1>0, <1>1, <1>2, <1>3 DEF Corrected, interest
  <2> QED
    BY <2>1, <2>2
<1>4. CASE d # c
  <2>1. UNCHANGED <<eventChan[c], batch[c], lstep[c]>>
    BY <1>0, <1>4 DEF ListenerStep, TakeEvents, Drained, SendPeersOnline, SendPeersWentOffline,
                      ListenerExits, StepTypes
  <2>2. told' = told \/ \E ids, state : Write(d, ids, state)
    BY DEF ListenerStep, TakeEvents, Drained, SendPeersOnline, SendPeersWentOffline,
                 ListenerExits
  <2>3. told'[c][p] = told[c][p]
    BY <1>0, <1>4, <2>2 DEF Write, NewsTypes
  <2> QED
    BY <1>1, <1>3, <2>1, <2>3, NewsFrame
<1>5. CASE TakeEvents(c)
  <2>1. /\ lstep[c] \in {"wait", "drain"} /\ told' = told
        /\ batch'[c] = batch[c] \o eventChan[c] /\ eventChan'[c] = <<>> /\ lstep'[c] = "drain"
    BY <1>0, <1>5 DEF TakeEvents, StepTypes
  <2>2. /\ HasIn(batch'[c], p, TRUE) <=> HasIn(batch[c], p, TRUE) \/ HasIn(eventChan[c], p, TRUE)
        /\ HasIn(batch'[c], p, FALSE) <=> HasIn(batch[c], p, FALSE) \/ HasIn(eventChan[c], p, FALSE)
        /\ ~HasIn(eventChan'[c], p, TRUE)
    <3>1. batch[c] \in Seq(Event) /\ eventChan[c] \in Seq(Event)
      BY <1>0
    <3>2. \A b : HasIn(batch[c] \o eventChan[c], p, b)
                 <=> HasIn(batch[c], p, b) \/ HasIn(eventChan[c], p, b)
      BY <3>1, ConcatNews
    <3>3. ~HasIn(<<>>, p, TRUE)
      BY EmptyNews
    <3> QED
      BY <2>1, <3>2, <3>3
  <2>3. HasIn(batch[c], p, TRUE) => lstep[c] = "drain"
    BY <1>0, <2>1, EmptyNews DEF ListenerIdle
  <2>4. Rumour(c, p)' => Rumour(c, p)
    BY <1>1, <2>1, <2>2, <2>3 DEF Rumour
  <2>5. OfflineLast(c, p) => OfflineLast(c, p)'
    BY <2>2, EmptyNews DEF OfflineLast
  <2> QED
    BY <1>3, <2>4, <2>5
<1>6. CASE Drained(c) \/ ListenerExits(c)
  <2>1. /\ told' = told /\ eventChan' = eventChan /\ batch' = batch
        /\ lstep'[c] \in {"drain", "online"} => lstep[c] \in {"drain", "online"}
    BY <1>0, <1>6 DEF Drained, ListenerExits, StepTypes
  <2> QED
    BY <1>1, <1>3, <2>1, NewsFrame
<1>7. CASE SendPeersOnline(c)
  <2>1. eventChan' = eventChan /\ batch' = batch /\ lstep[c] = "online" /\ lstep'[c] = "offline"
    BY <1>0, <1>7 DEF SendPeersOnline, StepTypes
  <2>2. told'[c][p] = "online" => told[c][p] = "online" \/ HasIn(batch[c], p, TRUE)
    <3>1. Write(c, BatchIDs(c, TRUE), "online")
      BY <1>7 DEF SendPeersOnline
    <3>2. told'[c][p] = "online" => told[c][p] = "online" \/ p \in BatchIDs(c, TRUE)
      BY <1>0, <3>1 DEF Write, NewsTypes
    <3> QED
      BY <3>2, BatchNews
  <2>3. Rumour(c, p)' => Rumour(c, p)
    BY <1>1, <2>1, <2>2 DEF Rumour
  <2>4. OfflineLast(c, p) => OfflineLast(c, p)'
    BY <2>1 DEF OfflineLast
  <2> QED
    BY <1>3, <2>3, <2>4
<1>8. CASE SendPeersWentOffline(c)
  <2>1. /\ eventChan' = eventChan /\ batch'[c] = <<>>
        /\ lstep'[c] \notin {"drain", "online"}
        /\ Write(c, BatchIDs(c, FALSE), "offline")
    BY <1>0, <1>8 DEF SendPeersWentOffline, StepTypes
  <2>2. /\ told'[c][p] = "online" => told[c][p] = "online"
        /\ open[c] /\ p \in BatchIDs(c, FALSE) => told'[c][p] = "offline"
    BY <1>0, <2>1 DEF Write, NewsTypes
  <2>3. Rumour(c, p)' => Rumour(c, p)
    BY <1>1, <2>1, <2>2 DEF Rumour
  <2>4. ASSUME open[c], OfflineLast(c, p), ~EndsOffline(eventChan[c], p) PROVE ~Rumour(c, p)'
    <3>1. ~HasIn(eventChan[c], p, TRUE) /\ p \in BatchIDs(c, FALSE)
      BY <2>4, BatchNews DEF OfflineLast
    <3>2. work[c] # "reply"
      BY <1>8, <3>1 DEF SendPeersWentOffline, NotifyHeld
    <3>3. p \notin reply[c] /\ told'[c][p] = "offline"
      BY <1>0, <2>2, <2>4, <3>1, <3>2 DEF Listening
    <3> QED
      BY <1>1, <2>1, <3>1, <3>3 DEF Rumour
  <2>5. EndsOffline(eventChan[c], p) => OfflineLast(c, p)'
    BY <2>1 DEF OfflineLast
  <2> QED
    BY <1>3, <2>3, <2>4, <2>5
<1> QED
  BY <1>4, <1>5, <1>6, <1>7, <1>8 DEF ListenerStep

\* A publisher d has put its event into the channel of l: an arrival is stored,
\* so it is no rumour, and a departure goes behind every rumour.
LEMMA DeliveredNews ==
  ASSUME PhantomInv, NEW c \in Conns, NEW p \in PeerIDs,
         NEW d \in Conns, NEW l \in Conns,
         eventChan' = [eventChan EXCEPT ![l] = Append(@, EventOf(d))], ForgetOnline(d, l),
         UNCHANGED <<accept, work, open, store, lstep, batch, told, reply, intOffline, withdrawn>>,
         \A x \in Conns \ {d} : todo'[x] = todo[x] /\ holding'[x] = holding[x],
         l # c => (c \in todo[d] \/ holding[d] = c => c \in todo'[d] \/ holding'[d] = c),
         holding'[d] = NoConn,
         holding[d] = l \/ Interested(d, l)
  PROVE  Fresh(c, p)' /\ Corrected(c, p)'
<1> DEFINE e == EventOf(d)
<1>0. /\ StepTypes /\ NewsTypes /\ OneDial /\ Fresh(c, p) /\ Corrected(c, p) /\ Fresh(l, ID[d])
      /\ eventChan \in [Conns -> Seq(Event)] /\ TypeOK
  BY PhantomTypes, RelayAssumption DEF PhantomInv, NewsInv
<1>1. e \in Event /\ e.id = ID[d] /\ e.online \in BOOLEAN
  BY <1>0, EventOfType DEF EventOf, Event
<1>2. e.online = TRUE => store[ID[d]] = d /\ d # NoConn
  <2>1. e.online = TRUE => accept[d] = "online"
    BY EventOfCases
  <2> QED
    BY <1>0, <2>1, RelayAssumption DEF OneDial
<1>3. ID[d] \in intOffline[l] \/ ID[d] \in withdrawn[l]
  BY <1>0 DEF Fresh, Interested
<1>4. intOnline'[c] \subseteq intOnline[c]
  BY <1>0 DEF ForgetOnline, NewsTypes
<1>5. ASSUME NEW x \in Conns, holding'[x] = c PROVE holding[x] = c
  <2>1. x # d
    BY <1>5, RelayAssumption
  <2> QED
    BY <1>5, <2>1
<1>6. CASE l # c \/ ID[d] # p
  <2>1. /\ Rumour(c, p)' => Rumour(c, p)
        /\ OfflineLast(c, p) => OfflineLast(c, p)'
    <3>1. CASE l # c
      <4>1. eventChan'[c] = eventChan[c]
        BY <1>0, <3>1
      <4> QED
        BY <4>1, NewsFrame
    <3>2. CASE l = c
      <4>1. eventChan'[c] = Append(eventChan[c], e) /\ eventChan[c] \in Seq(Event)
        BY <1>0, <3>2
      <4>2. e.id # p
        BY <1>1, <1>6, <3>2
      <4>3. /\ HasIn(eventChan'[c], p, TRUE) <=> HasIn(eventChan[c], p, TRUE)
            /\ EndsOffline(eventChan[c], p) => EndsOffline(eventChan'[c], p)
        <5> HIDE DEF e
        <5>1. e \in Event
          BY <1>1
        <5>2. /\ HasIn(Append(eventChan[c], e), p, TRUE)
                 <=> HasIn(eventChan[c], p, TRUE) \/ (e.id = p /\ e.online = TRUE)
              /\ EndsOffline(eventChan[c], p) /\ ~(e.id = p /\ e.online = TRUE)
                 => EndsOffline(Append(eventChan[c], e), p)
          BY <4>1, <5>1, AppendNews
        <5> QED
          BY <4>1, <4>2, <5>2
      <4> QED
        BY <4>3 DEF Rumour, OfflineLast
    <3> QED
      BY <3>1, <3>2
  <2>2. Departing(c, p) => Departing(c, p)'
    <3>1. \A x \in Conns : ID[x] = p /\ Leaving(x, c) => Leaving(x, c)'
      BY <1>6 DEF Leaving
    <3> QED
      BY <3>1, DepartingFrame
  <2>3. Fresh(c, p)'
    BY <1>0, <1>4, <1>5, <2>1 DEF Fresh
  <2>4. Corrected(c, p)'
    BY <1>0, <2>1, <2>2 DEF Corrected
  <2> QED
    BY <2>3, <2>4
<1>7. CASE l = c /\ ID[d] = p
  <2>1. Fresh(c, p)'
    BY <1>3, <1>7 DEF Fresh
  <2>2. Corrected(c, p)'
    <3>1. CASE e.online = TRUE
      BY <1>2, <1>7, <3>1 DEF Corrected
    <3>2. CASE e.online = FALSE
      <4>1. eventChan'[c] = Append(eventChan[c], e) /\ eventChan[c] \in Seq(Event)
        BY <1>0, <1>7
      <4>2. EndsOffline(eventChan'[c], p)
        <5> HIDE DEF e
        <5> QED
          BY <1>1, <1>7, <3>2, <4>1, AppendNews
      <4> QED
        BY <4>2 DEF Corrected, OfflineLast
    <3> QED
      BY <1>1, <3>1, <3>2
  <2> QED
    BY <2>1, <2>2
<1> QED
  BY <1>6, <1>7

\* Publishing an event, skipping a listener and waiting for one keep the
\* corrections in order.
LEMMA PublishNews ==
  ASSUME PhantomInv, NEW c \in Conns, NEW p \in PeerIDs, NEW d \in Conns, PublishStep(d)
  PROVE  Fresh(c, p)' /\ Corrected(c, p)'
<1>0. StepTypes /\ Lifecycle /\ OneDial /\ Fresh(c, p) /\ Corrected(c, p)
  BY PhantomTypes DEF PhantomInv, NewsInv
<1>1. ASSUME NEW l \in Conns, SkipListener(d, l) PROVE Fresh(c, p)' /\ Corrected(c, p)'
  <2>1. UNCHANGED <<open, interest, told, reply, eventChan, lstep, batch, store, work, holding>>
    BY <1>1 DEF SkipListener, sessionVars, listenVars
  <2>2. /\ Rumour(c, p)' => Rumour(c, p)
        /\ OfflineLast(c, p) => OfflineLast(c, p)'
    BY <2>1, NewsFrame
  <2>3. Fresh(c, p)'
    BY <1>0, <2>1, <2>2 DEF Fresh, interest
  <2>4. ASSUME open[c], p \notin withdrawn[c], Rumour(c, p), Departing(c, p)
        PROVE  Departing(c, p)'
    <3>1. p \in intOffline[c]
      BY <2>4, RumourHeard
    <3>2. ASSUME NEW x \in Conns, ID[x] = p, Leaving(x, c) PROVE Leaving(x, c)'
      <4>1. CASE x # d \/ l # c
        BY <1>0, <1>1, <2>1, <3>2, <4>1 DEF SkipListener, Leaving, StepTypes
      <4>2. CASE x = d /\ l = c
        <5>1. accept[d] # "online"
          BY <1>0, <3>2, <4>2 DEF Leaving, Lifecycle
        <5>2. ~EventOf(d).online
          BY <5>1, EventOfCases
        <5> QED
          BY <1>1, <3>1, <3>2, <4>2, <5>2 DEF SkipListener, Interested
      <4> QED
        BY <4>1, <4>2
    <3> QED
      BY <2>4, <3>2, DepartingFrame
  <2>5. Corrected(c, p)'
    BY <1>0, <2>1, <2>2, <2>4 DEF Corrected, interest
  <2> QED
    BY <2>3, <2>5
<1>2. ASSUME NEW l \in Conns, BlockOnSend(d, l) PROVE Fresh(c, p)' /\ Corrected(c, p)'
  <2>1. UNCHANGED <<open, interest, told, reply, eventChan, lstep, batch, store, work>>
    BY <1>2 DEF BlockOnSend, sessionVars, listenVars
  <2>2. /\ Rumour(c, p)' => Rumour(c, p)
        /\ OfflineLast(c, p) => OfflineLast(c, p)'
    BY <2>1, NewsFrame
  <2>3. \A x \in Conns : holding'[x] = c => holding[x] = c \/ (x = d /\ Interested(d, c))
    BY <1>0, <1>2 DEF BlockOnSend, StepTypes
  <2>4. Fresh(c, p)'
    BY <1>0, <2>1, <2>2, <2>3 DEF Fresh, interest, Interested
  <2>5. Departing(c, p) => Departing(c, p)'
    <3>1. \A x \in Conns : ID[x] = p /\ Leaving(x, c) => Leaving(x, c)'
      BY <1>0, <1>2, <2>1, RelayAssumption DEF BlockOnSend, Leaving, StepTypes
    <3> QED
      BY <3>1, DepartingFrame
  <2>6. Corrected(c, p)'
    BY <1>0, <2>1, <2>2, <2>5 DEF Corrected, interest
  <2> QED
    BY <2>4, <2>6
<1>3. ASSUME NEW l \in Conns, SendEvent(d, l) PROVE Fresh(c, p)' /\ Corrected(c, p)'
  <2>1. /\ \A x \in Conns \ {d} : todo'[x] = todo[x] /\ holding'[x] = holding[x]
        /\ l # c => (c \in todo[d] \/ holding[d] = c => c \in todo'[d] \/ holding'[d] = c)
        /\ holding'[d] = NoConn
    BY <1>0, <1>3 DEF SendEvent, StepTypes
  <2>2. /\ eventChan' = [eventChan EXCEPT ![l] = Append(@, EventOf(d))] /\ ForgetOnline(d, l)
        /\ UNCHANGED <<accept, work, open, store, lstep, batch, told, reply, intOffline, withdrawn>>
        /\ Interested(d, l)
    BY <1>3 DEF SendEvent, sessionVars, listenVars
  <2> QED
    BY <2>1, <2>2, DeliveredNews
<1>4. CASE UnblockSend(d)
  <2> DEFINE l == holding[d]
  <2>0. l \in Conns
    BY <1>0, <1>4 DEF UnblockSend, StepTypes
  <2>1. /\ \A x \in Conns \ {d} : todo'[x] = todo[x] /\ holding'[x] = holding[x]
        /\ l # c => (c \in todo[d] \/ holding[d] = c => c \in todo'[d] \/ holding'[d] = c)
        /\ holding'[d] = NoConn
    BY <1>0, <1>4 DEF UnblockSend, StepTypes
  <2>2. /\ eventChan' = [eventChan EXCEPT ![l] = Append(@, EventOf(d))] /\ ForgetOnline(d, l)
        /\ UNCHANGED <<accept, work, open, store, lstep, batch, told, reply, intOffline, withdrawn>>
    BY <1>4 DEF UnblockSend, sessionVars, listenVars
  <2> QED
    BY <2>0, <2>1, <2>2, DeliveredNews
<1> QED
  BY <1>1, <1>2, <1>3, <1>4 DEF PublishStep

-----------------------------------------------------------------------------
\* PhantomInv holds at the start.
LEMMA InitPhantomInv == Init => PhantomInv
<1> SUFFICES ASSUME Init PROVE PhantomInv
  OBVIOUS
<1>1. ConnInv
  BY InitConnInv
<1>2. Listening /\ OneDial /\ ListenerIdle
  BY DEF Init, Listening, OneDial, ListenerIdle, AcceptRunning
<1>3. ASSUME NEW c \in Conns, NEW p \in PeerIDs PROVE Fresh(c, p) /\ Corrected(c, p)
  <2>1. eventChan[c] = <<>> /\ batch[c] = <<>>
    BY DEF Init
  <2>2. ~HasIn(eventChan[c], p, TRUE) /\ ~HasIn(batch[c], p, TRUE)
    BY <2>1, EmptyNews
  <2>3. ~Rumour(c, p)
    BY <2>2 DEF Init, Rumour
  <2> QED
    BY <2>3, RelayAssumption DEF Init, Fresh, Corrected
<1> QED
  BY <1>1, <1>2, <1>3 DEF PhantomInv, NewsInv

\* Every step of the relay server keeps PhantomInv.
LEMMA NextPhantomInv ==
  ASSUME ~OverlapDials
  PROVE  PhantomInv /\ [Next]_vars => PhantomInv'
<1> SUFFICES ASSUME PhantomInv, [Next]_vars PROVE PhantomInv'
  OBVIOUS
<1>1. ConnInv' /\ Listening' /\ OneDial' /\ ListenerIdle'
  BY NextConnInv, ListeningStep, OneDialStep, ListenerIdleStep DEF PhantomInv
<1>2. ASSUME NEW c \in Conns, NEW p \in PeerIDs PROVE Fresh(c, p)' /\ Corrected(c, p)'
  BY AcceptNews, PublishNews, TeardownNews, SubscribeNews, ListenerNews, ClosingNews
     DEF Next, Environment, ServerStep, SessionStep
<1> QED
  BY <1>1, <1>2 DEF PhantomInv, NewsInv

\* NobodyKeepsAPhantom: as long as a client waits for the answer to its dial
\* before it dials again, a subscriber that believes p online when p is gone,
\* and never withdrew its interest in p, has the correction on its way.
THEOREM NobodyKeepsAPhantom ==
  ASSUME ~OverlapDials
  PROVE  Spec => []NoPhantomOnline
<1>1. PhantomInv => NoPhantomOnline
  <2> SUFFICES ASSUME PhantomInv, NEW c \in Conns, NEW p \in PeerIDs,
                      open[c], p \notin withdrawn[c], told[c][p] = "online", store[p] = NoConn
               PROVE  \/ Pending(c, p, FALSE)
                      \/ \E d \in Conns : ID[d] = p /\ (work[d] = "deleted" \/ StillToVisit(d, c))
    BY DEF NoPhantomOnline
  <2>1. CASE Departing(c, p)
    BY <2>1 DEF Departing, Leaving, StillToVisit, Publishing
  <2>2. CASE OfflineLast(c, p)
    <3>1. HasIn(eventChan[c], p, FALSE) \/ HasIn(batch[c], p, FALSE)
      BY <2>2, EmptyNews DEF OfflineLast
    <3>2. CASE HasIn(eventChan[c], p, FALSE)
      <4>1. eventChan[c] \in Seq(Event)
        BY PhantomTypes
      <4>2. PICK i \in DOMAIN eventChan[c] :
               eventChan[c][i].id = p /\ eventChan[c][i].online = FALSE
        BY <3>2 DEF HasIn
      <4>3. eventChan[c][i] \in Event
        BY <4>1, ElementOfSeq
      <4>4. eventChan[c][i] = [id |-> p, online |-> FALSE]
        BY <4>2, <4>3 DEF Event
      <4> QED
        BY <4>4 DEF Pending
    <3>3. CASE HasIn(batch[c], p, FALSE)
      <4>1. lstep[c] \in {"drain", "online", "offline"}
        BY <3>3, PhantomTypes, EmptyNews DEF StepTypes, PhantomInv, ListenerIdle
      <4>2. p \in BatchIDs(c, FALSE)
        BY <3>3, BatchNews
      <4> QED
        BY <4>1, <4>2 DEF Pending
    <3> QED
      BY <3>1, <3>2, <3>3
  <2> QED
    BY <2>1, <2>2 DEF PhantomInv, NewsInv, Corrected, Rumour
<1> QED
  BY <1>1, InitPhantomInv, NextPhantomInv, PTL DEF Spec
================================================================================
