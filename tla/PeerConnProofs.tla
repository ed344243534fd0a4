----------------------------- MODULE PeerConnProofs -----------------------------
(***************************************************************************)
(* Proofs about PeerConn for any number of opens, agents and relayed       *)
(* connections: ConnectingIsReal from an invariant of the ICE worker       *)
(* alone, ClosedIsClean, ActiveHasPath and NoRelayLeak from invariants of  *)
(* the connection.                                                         *)
(***************************************************************************)
EXTENDS PeerConn, TLAPS

\* The provers that a leaf which names none is tried with, in turn.
USE ZenonT(4), SMTT(10), ZenonT(30), SMTT(30)

Running == {"dial", "reached", "commit"}

\* The flag of a worker is the state of its agent's connect goroutine, an agent
\* belongs to the worker that holds it, and an agent to come has no goroutine.
WorkerInv ==
    /\ agent \in [Workers -> 0 .. MaxAgents]
    /\ agentConnecting \in [Workers -> BOOLEAN]
    /\ owner \in [Agents -> 0 .. MaxOpens]
    /\ dial \in [Agents -> {"none", "dial", "reached", "commit", "deliver", "done"}]
    /\ \A g \in Workers : agent[g] # 0 => owner[agent[g]] = g
    /\ \A g \in Workers : agentConnecting[g] <=> agent[g] # 0 /\ dial[agent[g]] \in Running
    /\ \A a \in Agents : owner[a] = 0 => dial[a] = "none"

\* An agent to come has no pion agent and no callbacks.
AgentInv ==
    /\ pion \in [Agents -> {"none", "new", "up", "lost", "closed"}]
    /\ callbacks \in [Agents -> Seq({"connected", "disconnected", "closed"})]
    /\ \A a \in Agents : owner[a] = 0 => pion[a] = "none" /\ callbacks[a] = <<>>

ICEInv == WorkerInv /\ AgentInv

\* The worker starts without agent.
LEMMA ICEInvInit == ICEInit => ICEInv
BY WorkerAssumption DEF ICEInit, ICEInv, WorkerInv, AgentInv, Workers, Agents, Running

\* The worker that holds an agent is the one that created it.
LEMMA HeldByOwner ==
    ASSUME WorkerInv, NEW a \in Agents, NEW h \in Workers, agent[h] = a
    PROVE  owner[a] = h /\ owner[a] # 0
<1>1. a # 0 /\ h # 0
  BY WorkerAssumption DEF Agents, Workers
<1> QED BY <1>1 DEF WorkerInv

\* A connect goroutine moves on: the flag of its worker stays right if the agent is no
\* longer the worker's, or if the goroutine runs on, or did not run.
LEMMA DialMoves ==
    ASSUME WorkerInv, NEW a \in Agents, owner[a] # 0,
           NEW step \in {"dial", "reached", "commit", "deliver", "done"}, DialGoto(a, step),
           UNCHANGED <<agent, agentConnecting, owner>>,
           agent[owner[a]] = a => (dial[a] \in Running <=> step \in Running)
    PROVE  WorkerInv'
<1> USE WorkerAssumption DEF Workers, Agents
<1>1. dial' \in [Agents -> {"none", "dial", "reached", "commit", "deliver", "done"}]
  BY DEF WorkerInv, DialGoto
<1>2. ASSUME NEW h \in Workers PROVE agentConnecting'[h] <=> agent'[h] # 0 /\ dial'[agent'[h]] \in Running
  <2>1. CASE agent[h] = a
    <3>1. owner[a] = h /\ dial'[a] = step
      BY <2>1, <1>2 DEF WorkerInv, DialGoto
    <3> QED BY <2>1, <3>1, <1>2 DEF WorkerInv
  <2>2. CASE agent[h] # a
    <3>1. agent[h] # 0 => dial'[agent[h]] = dial[agent[h]]
      BY <2>2, <1>2 DEF WorkerInv, DialGoto
    <3> QED BY <3>1, <1>2 DEF WorkerInv
  <2> QED BY <2>1, <2>2
<1>3. \A b \in Agents : owner'[b] = 0 => dial'[b] = "none"
  BY DEF WorkerInv, DialGoto
<1> QED BY <1>1, <1>2, <1>3 DEF WorkerInv

\* closeAgent, and Close of the worker: the worker's fields are reset if the agent is
\* still its own; the goroutine of the agent may return with it.
LEMMA ResetKeeps ==
    ASSUME WorkerInv, NEW a \in Agents, owner[a] # 0, resetIfOwner(a), UNCHANGED owner,
           UNCHANGED dial \/ DialGoto(a, "done")
    PROVE  WorkerInv'
<1> DEFINE g == owner[a]
<1> USE WorkerAssumption DEF Workers, Agents, Running
<1>1. g \in Workers
  BY DEF WorkerInv
<1>2. CASE agent[g] = a
  <2> USE <1>1, <1>2
  <2>1. abandonNegotiation(g)
    BY DEF resetIfOwner
  <2>2. agent' \in [Workers -> 0 .. MaxAgents] /\ agentConnecting' \in [Workers -> BOOLEAN]
    BY <2>1 DEF WorkerInv, abandonNegotiation
  <2>3. dial' \in [Agents -> {"none", "dial", "reached", "commit", "deliver", "done"}]
    BY DEF WorkerInv, DialGoto
  <2>4. \A h \in Workers : agent'[h] # 0 => owner'[agent'[h]] = h
    BY <2>1 DEF WorkerInv, abandonNegotiation
  <2>5. ASSUME NEW h \in Workers PROVE agentConnecting'[h] <=> agent'[h] # 0 /\ dial'[agent'[h]] \in Running
    <3>1. CASE h = g
      BY <2>1, <3>1 DEF WorkerInv, abandonNegotiation
    <3>2. CASE h # g
      <4>1. agent'[h] = agent[h] /\ agentConnecting'[h] = agentConnecting[h] /\ agent[h] # a
        BY <2>1, <3>2, <2>5 DEF WorkerInv, abandonNegotiation
      <4>2. agent[h] # 0 => dial'[agent[h]] = dial[agent[h]]
        BY <4>1, <2>5 DEF WorkerInv, DialGoto
      <4> QED BY <4>1, <4>2, <2>5 DEF WorkerInv
    <3> QED BY <3>1, <3>2
  <2>6. \A b \in Agents : owner'[b] = 0 => dial'[b] = "none"
    BY DEF WorkerInv, DialGoto
  <2> QED BY <2>2, <2>3, <2>4, <2>5, <2>6 DEF WorkerInv
<1>3. CASE agent[g] # a
  <2>1. UNCHANGED workerVars
    BY <1>3 DEF resetIfOwner
  <2>2. CASE UNCHANGED dial
    BY <2>1, <2>2 DEF WorkerInv, workerVars
  <2>3. CASE DialGoto(a, "done")
    BY <1>3, <2>1, <2>3, DialMoves DEF workerVars
  <2> QED BY <2>2, <2>3
<1> QED BY <1>2, <1>3

\* An agent's Close, the 0 of no agent included.
LEMMA ClosePionKeeps ==
    ASSUME WorkerInv, AgentInv, NEW a \in 0 .. MaxAgents, a # 0 => owner[a] # 0,
           ClosePion(a), UNCHANGED owner
    PROVE  AgentInv'
<1>1. CASE UNCHANGED <<pion, callbacks>>
  BY <1>1 DEF AgentInv
<1>2. CASE a \in Agents /\ pion' = [pion EXCEPT ![a] = "closed"] /\ callbacks' = [callbacks EXCEPT ![a] = Append(@, "closed")]
  <2>1. callbacks' \in [Agents -> Seq({"connected", "disconnected", "closed"})]
    BY <1>2 DEF AgentInv
  <2>2. \A b \in Agents : owner'[b] = 0 => b # a
    BY <1>2, WorkerAssumption DEF Agents
  <2> QED BY <1>2, <2>1, <2>2 DEF AgentInv
<1> QED BY <1>1, <1>2, WorkerAssumption DEF ClosePion, Agents

\* One step of the worker, of a connect goroutine or of a pion agent.
LEMMA ICEInvStep == ICEInv /\ [ICENext]_iceVars => ICEInv'
<1> SUFFICES ASSUME ICEInv, [ICENext]_iceVars PROVE ICEInv'
  OBVIOUS
<1> USE WorkerAssumption DEF Workers, Agents, ICEInv
<1>1. ASSUME NEW g \in Workers, abandonNegotiation(g), ClosePion(agent[g]), UNCHANGED <<owner, dial>>
      PROVE  ICEInv'
  <2>1. WorkerInv'
    BY <1>1 DEF WorkerInv, abandonNegotiation, Running
  <2>2. agent[g] \in 0 .. MaxAgents /\ (agent[g] # 0 => owner[agent[g]] # 0)
    BY <1>1 DEF WorkerInv
  <2> QED BY <1>1, <2>1, <2>2, ClosePionKeeps
<1>2. ASSUME NEW g \in Workers, NEW sid \in Sessions \cup {NoSession}, OnNewOffer(g, sid) PROVE ICEInv'
  <2>1. CASE UNCHANGED iceVars
    BY <2>1 DEF WorkerInv, AgentInv, iceVars, Running
  <2>2. CASE OfferWithoutAgent(g, sid)
    <3>1. CASE Busy(g)
      BY <1>1, <2>2, <3>1 DEF OfferWithoutAgent
    <3>2. CASE ~Busy(g)
      <4>1. UNCHANGED <<workerVars, owner, dial, pion, callbacks>>
        BY <2>2, <3>2 DEF OfferWithoutAgent, Busy, ClosePion
      <4> QED BY <4>1 DEF WorkerInv, AgentInv, workerVars, Running
    <3> QED BY <3>1, <3>2
  <2>3. ASSUME NEW a \in Agents, OfferWithAgent(g, sid, a) PROVE ICEInv'
    <3>1. \A h \in Workers : agent[h] # a
      BY <2>3, HeldByOwner DEF OfferWithAgent
    <3>2. agent' \in [Workers -> 0 .. MaxAgents]
      BY <2>3 DEF WorkerInv, OfferWithAgent
    <3>2a. agentConnecting' \in [Workers -> BOOLEAN]
      BY <2>3 DEF WorkerInv, OfferWithAgent
    <3>3. owner' \in [Agents -> 0 .. MaxOpens]
      BY <2>3 DEF WorkerInv, OfferWithAgent
    <3>4. dial' \in [Agents -> {"none", "dial", "reached", "commit", "deliver", "done"}]
      BY <2>3 DEF WorkerInv, OfferWithAgent, DialGoto
    <3>5. \A h \in Workers : agent'[h] # 0 => owner'[agent'[h]] = h
      BY <2>3, <3>1 DEF WorkerInv, OfferWithAgent
    <3>6. ASSUME NEW h \in Workers PROVE agentConnecting'[h] <=> agent'[h] # 0 /\ dial'[agent'[h]] \in Running
      <4>1. CASE h = g
        BY <2>3, <4>1 DEF WorkerInv, OfferWithAgent, DialGoto, Running
      <4>2. CASE h # g
        BY <2>3, <3>1, <3>6, <4>2 DEF WorkerInv, OfferWithAgent, DialGoto, Running
      <4> QED BY <4>1, <4>2
    <3>7. \A b \in Agents : owner'[b] = 0 => dial'[b] = "none"
      BY <2>3 DEF WorkerInv, OfferWithAgent, DialGoto
    <3>8. AgentInv'
      <4>1. pion' \in [Agents -> {"none", "new", "up", "lost", "closed"}]
        BY <2>3 DEF AgentInv, OfferWithAgent
      <4>2. ASSUME NEW b \in Agents PROVE callbacks'[b] \in Seq({"connected", "disconnected", "closed"})
        <5>1. callbacks[b] \in Seq({"connected", "disconnected", "closed"})
          BY <4>2 DEF AgentInv
        <5>2. Append(callbacks[b], "closed") \in Seq({"connected", "disconnected", "closed"})
          BY <5>1
        <5>3. callbacks'[b] = callbacks[b] \/ callbacks'[b] = Append(callbacks[b], "closed")
          BY <2>3, <4>2 DEF OfferWithAgent
        <5> QED BY <5>1, <5>2, <5>3
      <4>3. callbacks' \in [Agents -> Seq({"connected", "disconnected", "closed"})]
        BY <2>3, <4>2 DEF OfferWithAgent
      <4>4. ASSUME NEW b \in Agents, owner'[b] = 0 PROVE pion'[b] = "none" /\ callbacks'[b] = <<>>
        <5>1. b # a /\ owner[b] = 0
          BY <2>3, <4>4 DEF WorkerInv, OfferWithAgent
        <5>2. agent[g] # b
          BY <4>4, <5>1, HeldByOwner
        <5> QED BY <2>3, <4>4, <5>1, <5>2 DEF AgentInv, OfferWithAgent
      <4> QED BY <4>1, <4>3, <4>4 DEF AgentInv
    <3> QED BY <3>2, <3>2a, <3>3, <3>4, <3>5, <3>6, <3>7, <3>8 DEF WorkerInv
  <2> QED BY <1>2, <2>1, <2>2, <2>3 DEF OnNewOffer
<1>3. ASSUME NEW a \in Agents, AgentNext(a) PROVE ICEInv'
  <2>1. CASE DialSucceeds(a)
    <3>1. owner[a] # 0 /\ dial[a] \in Running
      BY <2>1 DEF WorkerInv, DialSucceeds, Running
    <3>2. WorkerInv'
      <4>1. CASE agent[owner[a]] = a
        BY <2>1, <3>1, <4>1, DialMoves DEF DialSucceeds, workerVars, Running
      <4>2. CASE agent[owner[a]] # a
        BY <2>1, <3>1, <4>2, DialMoves DEF DialSucceeds, workerVars
      <4> QED BY <4>1, <4>2
    <3> QED BY <2>1, <3>2 DEF AgentInv, DialSucceeds
  <2>2. CASE DialFails(a)
    <3>1. owner[a] # 0
      BY <2>2 DEF WorkerInv, DialFails
    <3> QED BY <2>2, <3>1, ResetKeeps, ClosePionKeeps DEF DialFails
  <2>3. CASE Commit(a)
    <3>1. AgentInv'
      BY <2>3 DEF AgentInv, Commit
    <3>2. owner[a] \in Workers /\ owner[a] # 0
      BY <2>3 DEF WorkerInv, Commit
    <3>3. CASE agent[owner[a]] = a
      <4>1. agentConnecting' = [agentConnecting EXCEPT ![owner[a]] = FALSE] /\ dial' = [dial EXCEPT ![a] = "deliver"]
            /\ UNCHANGED <<agent, owner>>
        BY <2>3, <3>3 DEF Commit, DialGoto
      <4>2. agentConnecting' \in [Workers -> BOOLEAN]
        BY <3>2, <4>1 DEF WorkerInv
      <4>3. dial' \in [Agents -> {"none", "dial", "reached", "commit", "deliver", "done"}]
        BY <4>1 DEF WorkerInv
      <4>4. ASSUME NEW h \in Workers PROVE agentConnecting'[h] <=> agent'[h] # 0 /\ dial'[agent'[h]] \in Running
        <5>1. CASE h = owner[a]
          BY <3>2, <3>3, <4>1, <5>1 DEF WorkerInv, Running
        <5>2. CASE h # owner[a]
          <6>1. agent[h] # a
            BY <4>4, <5>2, HeldByOwner
          <6>1a. agentConnecting'[h] = agentConnecting[h]
            BY <4>1, <4>4, <5>2 DEF WorkerInv
          <6>2. agent[h] # 0 => dial'[agent[h]] = dial[agent[h]]
            BY <4>1, <4>4, <6>1 DEF WorkerInv
          <6> QED BY <4>1, <4>4, <6>1a, <6>2 DEF WorkerInv
        <5> QED BY <5>1, <5>2
      <4>5. \A b \in Agents : owner'[b] = 0 => dial'[b] = "none"
        BY <3>2, <4>1 DEF WorkerInv
      <4> QED BY <3>1, <4>1, <4>2, <4>3, <4>4, <4>5 DEF WorkerInv
    <3>4. CASE agent[owner[a]] # a
      BY <2>3, <3>1, <3>2, <3>4, DialMoves DEF Commit
    <3> QED BY <3>3, <3>4
  <2>4. CASE Deliver(a)
    <3>1. owner[a] # 0 /\ dial[a] \notin Running
      BY <2>4 DEF WorkerInv, Deliver, Running
    <3>2. WorkerInv'
      BY <2>4, <3>1, DialMoves DEF Deliver, workerVars, Running
    <3> QED BY <2>4, <3>2 DEF AgentInv, Deliver
  <2>5. CASE PionConnects(a)
    <3>1. owner[a] # 0 /\ dial[a] \in Running
      BY <2>5 DEF WorkerInv, PionConnects, Running
    <3>2. WorkerInv'
      BY <2>5, <3>1, DialMoves DEF PionConnects, workerVars, Running
    <3>3. callbacks' \in [Agents -> Seq({"connected", "disconnected", "closed"})]
      BY <2>5 DEF AgentInv, PionConnects
    <3> QED BY <2>5, <3>1, <3>2, <3>3 DEF AgentInv, PionConnects
  <2>6. CASE PionLoses(a) \/ OnConnected(a) \/ Notify(a)
    <3>1. WorkerInv'
      BY <2>6 DEF WorkerInv, PionLoses, OnConnected, Notify, workerVars, Running
    <3>2. CASE PionLoses(a)
      <4>1. owner[a] # 0
        BY <3>2 DEF AgentInv, PionLoses
      <4>2. callbacks' \in [Agents -> Seq({"connected", "disconnected", "closed"})]
        BY <3>2 DEF AgentInv, PionLoses
      <4> QED BY <3>1, <3>2, <4>1, <4>2 DEF AgentInv, PionLoses
    <3>3. CASE OnConnected(a)
      <4>1. callbacks[a] # <<>> /\ owner[a] # 0
        BY <3>3 DEF AgentInv, OnConnected, CallbackIs
      <4>2. callbacks' \in [Agents -> Seq({"connected", "disconnected", "closed"})]
        BY <3>3, <4>1 DEF AgentInv, OnConnected
      <4> QED BY <3>1, <3>3, <4>1, <4>2 DEF AgentInv, OnConnected
    <3>4. CASE Notify(a)
      BY <3>1, <3>4 DEF AgentInv, Notify
    <3> QED BY <2>6, <3>2, <3>3, <3>4
  <2>7. CASE OnDisconnected(a)
    <3>1. owner[a] # 0
      BY <2>7 DEF AgentInv, OnDisconnected, CallbackIs
    <3>2. WorkerInv'
      BY <2>7, <3>1, ResetKeeps DEF OnDisconnected
    <3>3. callbacks[a] # <<>>
      BY <2>7 DEF OnDisconnected, CallbackIs
    <3>4. callbacks' \in [Agents -> Seq({"connected", "disconnected", "closed"})]
      BY <2>7, <3>3 DEF AgentInv, OnDisconnected
    <3> QED BY <2>7, <3>1, <3>2, <3>4 DEF AgentInv, OnDisconnected
  <2> QED BY <1>3, <2>1, <2>2, <2>3, <2>4, <2>5, <2>6, <2>7 DEF AgentNext
<1>4. CASE UNCHANGED iceVars
  BY <1>4 DEF WorkerInv, AgentInv, iceVars, Running
<1> QED BY <1>1, <1>2, <1>3, <1>4 DEF ICENext, CloseWorker

-----------------------------------------------------------------------------
(* The connection. *)

\* A connection that is open, or whose goroutines are still there, has its workers.
OpenInv ==
    /\ opened \in BOOLEAN /\ gen \in 0 .. MaxOpens
    /\ opened \/ goroutines # {} => gen # 0

\* Every step of the connection is a step of the ICE worker or leaves it alone.
LEMMA NextIsICE == OpenInv /\ Next => [ICENext]_iceVars
<1> SUFFICES ASSUME OpenInv, Next PROVE [ICENext]_iceVars
  OBVIOUS
<1>1. CASE ListenNoICE \/ Close \/ onWGDisconnected
  <2>1. UNCHANGED iceVars \/ (CloseWorker(gen) /\ gen \in Workers)
    BY <1>1 DEF OpenInv, Workers, ListenNoICE, Close, onWGDisconnected, WGTimeoutRelay, WGTimeoutICE, WGTimeoutNone, Live
  <2> QED BY <2>1 DEF ICENext
<1>2. ASSUME NEW sid \in Sessions \cup {NoSession}, ListenICE(sid) PROVE [ICENext]_iceVars
  <2>1. OnNewOffer(gen, sid) /\ gen \in Workers
    BY <1>2 DEF OpenInv, Workers, ListenICE
  <2> QED BY <2>1 DEF ICENext
<1>3. ASSUME NEW a \in Agents, AgentStep(a) \/ onICEConnectionIsReady(a) \/ onICEStateDisconnected(a)
      PROVE  [ICENext]_iceVars
  BY <1>3 DEF ICENext, AgentNext, AgentStep, onICEConnectionIsReady, onICEStateDisconnected
<1>4. CASE \/ Open \/ CloseIgnored \/ ListenStops \/ GuardStops \/ WgDone \/ CloseReturn
           \/ \E r \in Relayed : \/ \E g \in Workers : RelayOpened(g, r)
                                 \/ onRelayConnectionIsReady(r) \/ expireRetiredRelayProxy(r)
           \/ onRelayDisconnected \/ WatchTimeout \/ onWGCheckSuccess
           \/ (\E step \in {"run", "timeout"} : StaleReturns(step)) \/ scheduleDelayedUpdate
  BY <1>4 DEF Open, CloseIgnored, ListenStops, GuardStops, WgDone, CloseReturn, OpenKeeps, RelayOpened, onRelayConnectionIsReady,
     expireRetiredRelayProxy, onRelayDisconnected, WatchTimeout, onWGCheckSuccess, StaleReturns, scheduleDelayedUpdate
<1> QED BY <1>1, <1>2, <1>3, <1>4 DEF Next

\* Only Open, Close and the goroutines' ends touch what OpenInv is about.
LEMMA OpenInvStep == OpenInv /\ [Next]_vars => OpenInv'
<1> SUFFICES ASSUME OpenInv, [Next]_vars PROVE OpenInv'
  OBVIOUS
<1>1. CASE Open
  BY <1>1, WorkerAssumption DEF OpenInv, Open
<1>2. CASE Close
  BY <1>2 DEF OpenInv, Close
<1>3. CASE CloseIgnored \/ ListenStops \/ GuardStops \/ WgDone \/ CloseReturn
  BY <1>3 DEF OpenInv, CloseIgnored, ListenStops, GuardStops, WgDone, CloseReturn, OpenKeeps
<1>4. CASE UNCHANGED openVars
  BY <1>4 DEF OpenInv, openVars
<1>5. CASE UNCHANGED vars
  BY <1>5, <1>4 DEF vars, connVars, openVars
<1>6. ASSUME Next, ~(Open \/ Close \/ CloseIgnored \/ ListenStops \/ GuardStops \/ WgDone \/ CloseReturn) PROVE UNCHANGED openVars
  <2>1. ASSUME NEW sid \in Sessions \cup {NoSession}, ListenICE(sid) PROVE UNCHANGED openVars
    BY <2>1 DEF ListenICE, connVars, openVars
  <2>2. ASSUME NEW a \in Agents, AgentStep(a) \/ onICEConnectionIsReady(a) \/ onICEStateDisconnected(a)
        PROVE  UNCHANGED openVars
    BY <2>2 DEF AgentStep, onICEConnectionIsReady, onICEStateDisconnected, connVars, openVars
  <2>3. ASSUME NEW r \in Relayed, \/ \E g \in Workers : RelayOpened(g, r)
                                  \/ onRelayConnectionIsReady(r) \/ expireRetiredRelayProxy(r)
        PROVE  UNCHANGED openVars
    BY <2>3 DEF RelayOpened, onRelayConnectionIsReady, expireRetiredRelayProxy
  <2>4. CASE \/ ListenNoICE \/ onRelayDisconnected \/ WatchTimeout \/ onWGCheckSuccess \/ onWGDisconnected
             \/ (\E step \in {"run", "timeout"} : StaleReturns(step)) \/ scheduleDelayedUpdate
    BY <2>4 DEF ListenNoICE, onRelayDisconnected, WatchTimeout, onWGCheckSuccess, onWGDisconnected, StaleReturns,
       scheduleDelayedUpdate, connVars, openVars
  <2> QED BY <1>6, <2>1, <2>2, <2>3, <2>4 DEF Next
<1> QED BY <1>1, <1>2, <1>3, <1>4, <1>5, <1>6

\* A worker of any connection reports a negotiation in progress exactly while the
\* connect goroutine of its own agent runs (agentConnecting of WorkerICE).
THEOREM ConnectingIsRealHolds == Spec => []ConnectingIsReal
<1>1. Init => ICEInv /\ OpenInv
  <2> SUFFICES ASSUME Init PROVE ICEInv /\ OpenInv
    OBVIOUS
  <2>1. gen = 0 /\ opened = FALSE /\ goroutines = {}
    BY DEF Init
  <2>2. gen \in 0 .. MaxOpens
    BY <2>1, WorkerAssumption
  <2>3. OpenInv
    BY <2>1, <2>2 DEF OpenInv
  <2> QED BY <2>3, ICEInvInit DEF Init
<1>2. ICEInv /\ OpenInv /\ [Next]_vars => ICEInv' /\ OpenInv'
  <2>1. ASSUME UNCHANGED vars PROVE [ICENext]_iceVars
    BY <2>1 DEF vars
  <2> QED BY <2>1, NextIsICE, ICEInvStep, OpenInvStep
<1>3. ICEInv => ConnectingIsReal
  <2> SUFFICES ASSUME ICEInv, NEW g \in Workers
               PROVE  agentConnecting[g] <=> \E a \in Agents : agent[g] = a /\ owner[a] = g /\ dial[a] \in Running
    BY DEF ConnectingIsReal, Running
  <2>1. agentConnecting[g] <=> agent[g] # 0 /\ dial[agent[g]] \in Running
    BY DEF ICEInv, WorkerInv
  <2>2. agent[g] # 0 => agent[g] \in Agents /\ owner[agent[g]] = g
    BY WorkerAssumption DEF ICEInv, WorkerInv, Agents
  <2>3. \A a \in Agents : a # 0
    BY WorkerAssumption DEF Agents
  <2>4. agentConnecting[g] => \E a \in Agents : agent[g] = a /\ owner[a] = g /\ dial[a] \in Running
    BY <2>1, <2>2
  <2>5. (\E a \in Agents : agent[g] = a /\ owner[a] = g /\ dial[a] \in Running) => agentConnecting[g]
    BY <2>1, <2>3
  <2> QED BY <2>4, <2>5
<1> QED BY <1>1, <1>2, <1>3, PTL DEF Spec, Safety

\* Once Close has cleared the fields they stay clear until the next Open, also while
\* conn.mu is still held.
CleanInv ==
    ~opened => /\ currentConnPriority = None /\ statusICE = FALSE /\ statusRelay = FALSE
               /\ wgProxyICE = FALSE /\ wgProxyRelay = 0 /\ retired = {} /\ wgWatcher = "nil"
               /\ endpoint \in {"none", "left"} /\ delayed = "no"

\* Every handler that sets one of these fields looks at the context first, or needs one
\* that is set: a watcher, a retired proxy, a delayed update.
LEMMA CleanInvStep == CleanInv /\ OpenInv /\ [Next]_vars => CleanInv'
<1> SUFFICES ASSUME CleanInv, OpenInv, [Next]_vars, ~opened' PROVE CleanInv'
  BY DEF CleanInv
<1>1. CASE Open
  BY <1>1 DEF Open
<1>2. CASE Close
  BY <1>2 DEF CleanInv, Close, DropWatcher, RemoveWgPeer
<1>3. CASE CloseIgnored \/ ListenStops \/ GuardStops \/ WgDone \/ CloseReturn
  BY <1>3 DEF CleanInv, CloseIgnored, ListenStops, GuardStops, WgDone, CloseReturn, OpenKeeps, transportVars, watchVars, wgVars
<1>4. ASSUME NEW sid \in Sessions \cup {NoSession}, ListenICE(sid) PROVE CleanInv'
  BY <1>4 DEF CleanInv, ListenICE, connVars
<1>5. ASSUME NEW a \in Agents, AgentStep(a) PROVE CleanInv'
  BY <1>5 DEF CleanInv, AgentStep, connVars
<1>6. ASSUME NEW a \in Agents, onICEConnectionIsReady(a) PROVE CleanInv'
  <2>1. ~opened /\ UNCHANGED <<opened, statusRelay, wgProxyRelay, retired>>
    BY <1>6 DEF onICEConnectionIsReady, openVars
  <2>2. PICK p \in {ICETurn, ICEP2P} : IceIgnored(p)
    BY <1>6, <2>1 DEF onICEConnectionIsReady, IceNoEndpoint, IceNotConfigured, IceActive, Live
  <2> QED BY <2>1, <2>2 DEF CleanInv, IceIgnored, Live, watchVars, wgVars
<1>7. ASSUME NEW a \in Agents, onICEStateDisconnected(a) PROVE CleanInv'
  <2>1. ~opened /\ UNCHANGED <<opened, statusRelay, wgProxyICE, wgProxyRelay, retired>>
    BY <1>7 DEF onICEStateDisconnected, openVars
  <2>2. UNCHANGED <<currentConnPriority, watchVars, wgVars>> /\ statusICE' = (statusICE /\ ~opened)
    BY <1>7, <2>1 DEF onICEStateDisconnected, SwitchToRelay, DropICE, Live
  <2> QED BY <2>1, <2>2 DEF CleanInv, watchVars, wgVars
<1>8. ASSUME NEW r \in Relayed, NEW g \in Workers, RelayOpened(g, r) PROVE CleanInv'
  BY <1>8 DEF CleanInv, RelayOpened, openVars, transportVars, watchVars, wgVars
<1>9. ASSUME NEW r \in Relayed, onRelayConnectionIsReady(r) PROVE CleanInv'
  BY <1>9 DEF CleanInv, onRelayConnectionIsReady, RelayTooLate, RelayNoProxy, RelayStandby, RelayNotConfigured,
     RelayActive, Live, openVars, transportVars, watchVars, wgVars
<1>10. ASSUME NEW r \in Relayed, expireRetiredRelayProxy(r) PROVE CleanInv'
  BY <1>10 DEF CleanInv, expireRetiredRelayProxy, openVars
<1>11. CASE onRelayDisconnected \/ onWGDisconnected
  BY <1>11 DEF onRelayDisconnected, onWGDisconnected, Live, openVars
<1>12. CASE WatchTimeout \/ onWGCheckSuccess \/ scheduleDelayedUpdate
  BY <1>12 DEF CleanInv, WatchTimeout, onWGCheckSuccess, scheduleDelayedUpdate, openVars, watchVars, wgVars
<1>13. ASSUME NEW step \in {"run", "timeout"}, StaleReturns(step) PROVE CleanInv'
  BY <1>13 DEF CleanInv, StaleReturns, openVars, transportVars, wgVars
<1>14. CASE UNCHANGED vars
  BY <1>14 DEF CleanInv, vars, connVars
<1>15. CASE ListenNoICE
  BY <1>15 DEF CleanInv, ListenNoICE, connVars
<1> QED BY <1>1, <1>2, <1>3, <1>4, <1>5, <1>6, <1>7, <1>8, <1>9, <1>10, <1>11, <1>12, <1>13, <1>14, <1>15 DEF Next

\* A transport carries the traffic only while its status, and for the relay its proxy,
\* is there; a proxy is there only while the relay's status is.
PathInv ==
    /\ currentConnPriority = Relay => wgProxyRelay # 0
    /\ wgProxyRelay # 0 => statusRelay = TRUE
    /\ currentConnPriority \in {ICETurn, ICEP2P} => statusICE = TRUE

\* Every callback keeps the active transport together with its status and its proxy.
LEMMA PathInvStep == PathInv /\ [Next]_vars => PathInv'
<1> SUFFICES ASSUME PathInv, [Next]_vars PROVE PathInv'
  OBVIOUS
<1> USE DEF None, Relay, ICETurn, ICEP2P
<1>1. CASE UNCHANGED <<currentConnPriority, statusICE, statusRelay, wgProxyRelay>>
  BY <1>1 DEF PathInv
<1>2. CASE Close
  BY <1>2 DEF PathInv, Close
<1>3. ASSUME NEW a \in Agents, onICEConnectionIsReady(a) PROVE PathInv'
  <2>1. UNCHANGED <<statusRelay, wgProxyRelay>>
    BY <1>3 DEF onICEConnectionIsReady
  <2>2. PICK p \in {ICETurn, ICEP2P} : IceIgnored(p) \/ IceNoEndpoint(p) \/ IceNotConfigured(p) \/ IceActive(p)
    BY <1>3 DEF onICEConnectionIsReady
  <2>3. CASE IceIgnored(p)
    BY <2>1, <2>3 DEF PathInv, IceIgnored
  <2>4. CASE IceNoEndpoint(p) \/ IceNotConfigured(p)
    BY <2>1, <2>4 DEF PathInv, IceNoEndpoint, IceNotConfigured
  <2>5. CASE IceActive(p)
    BY <2>1, <2>5 DEF PathInv, IceActive
  <2> QED BY <2>2, <2>3, <2>4, <2>5
<1>4. ASSUME NEW a \in Agents, onICEStateDisconnected(a) PROVE PathInv'
  <2>1. UNCHANGED <<statusRelay, wgProxyRelay>>
    BY <1>4 DEF onICEStateDisconnected
  <2>2. CASE SwitchToRelay
    BY <2>1, <2>2 DEF PathInv, SwitchToRelay, isReadyToUpgrade
  <2>3. CASE DropICE
    BY <2>1, <2>3 DEF PathInv, DropICE
  <2>4. CASE ~Live /\ UNCHANGED <<currentConnPriority, watchVars, wgVars>>
    BY <1>4, <2>1, <2>4 DEF PathInv, onICEStateDisconnected
  <2> QED BY <1>4, <2>2, <2>3, <2>4 DEF onICEStateDisconnected
<1>5. ASSUME NEW r \in Relayed, onRelayConnectionIsReady(r) PROVE PathInv'
  <2>1. r # 0
    BY ConnAssumption DEF Relayed
  <2>2. CASE RelayTooLate(r) \/ RelayNoProxy(r) \/ RelayNotConfigured(r)
    BY <1>1, <2>2 DEF RelayTooLate, RelayNoProxy, RelayNotConfigured, transportVars
  <2>3. CASE RelayStandby(r)
    BY <2>1, <2>3 DEF PathInv, RelayStandby
  <2>4. CASE RelayActive(r)
    BY <2>1, <2>4 DEF PathInv, RelayActive
  <2> QED BY <1>5, <2>2, <2>3, <2>4 DEF onRelayConnectionIsReady
<1>6. ASSUME NEW also, handleRelayDisconnected(also) PROVE PathInv'
  BY <1>6 DEF PathInv, handleRelayDisconnected
<1>7. CASE onRelayDisconnected \/ onWGDisconnected
  BY <1>1, <1>6, <1>7 DEF onRelayDisconnected, onWGDisconnected, WGTimeoutRelay, WGTimeoutICE, WGTimeoutNone, transportVars
<1>8. CASE \/ Open \/ CloseIgnored \/ ListenStops \/ GuardStops \/ WgDone \/ CloseReturn \/ ListenNoICE
           \/ (\E sid \in Sessions \cup {NoSession} : ListenICE(sid)) \/ (\E a \in Agents : AgentStep(a))
           \/ WatchTimeout \/ onWGCheckSuccess \/ scheduleDelayedUpdate
           \/ (\E step \in {"run", "timeout"} : StaleReturns(step))
           \/ (\E r \in Relayed : (\E g \in Workers : RelayOpened(g, r)) \/ expireRetiredRelayProxy(r))
           \/ UNCHANGED vars
  <2>1. UNCHANGED <<currentConnPriority, statusICE, statusRelay, wgProxyRelay>>
    BY <1>8 DEF Open, CloseIgnored, ListenStops, GuardStops, WgDone, CloseReturn, OpenKeeps, ListenNoICE, ListenICE, AgentStep,
       WatchTimeout, onWGCheckSuccess, scheduleDelayedUpdate, StaleReturns, RelayOpened, expireRetiredRelayProxy,
       transportVars, connVars, vars
  <2> QED BY <1>1, <2>1
<1> QED BY <1>2, <1>3, <1>4, <1>5, <1>7, <1>8 DEF Next

\* A relayed connection that is open is on its way to onRelayConnectionIsReady, or it
\* is under the current proxy or under a retired one.
HeldInv ==
    /\ relayState \in [Relayed -> {"none", "open", "failed", "closed"}]
    /\ \A r \in Relayed : relayState[r] = "open" => r \in ready \/ r = wgProxyRelay \/ r \in retired

\* What CloseRelayed leaves open was open before and is not in R.
LEMMA OpenAfterClose ==
    ASSUME NEW R, CloseRelayed(R), NEW r \in Relayed, relayState'[r] = "open"
    PROVE  relayState[r] = "open" /\ r \notin R
BY DEF CloseRelayed

\* Closing relayed connections leaves each of them in one of its states.
LEMMA CloseRelayedType ==
    ASSUME NEW R, CloseRelayed(R), relayState \in [Relayed -> {"none", "open", "failed", "closed"}]
    PROVE  relayState' \in [Relayed -> {"none", "open", "failed", "closed"}]
BY DEF CloseRelayed

\* Every step keeps an open relayed connection in the hands of somebody who closes it.
LEMMA HeldInvStep == HeldInv /\ [Next]_vars => HeldInv'
<1> SUFFICES ASSUME HeldInv, [Next]_vars PROVE HeldInv'
  OBVIOUS
<1>1. CASE UNCHANGED <<relayState, ready, wgProxyRelay, retired>>
  BY <1>1 DEF HeldInv
<1>2. CASE Close
  BY <1>2, OpenAfterClose, CloseRelayedType DEF HeldInv, Close
<1>3. ASSUME NEW q \in Relayed, NEW g \in Workers, RelayOpened(g, q) PROVE HeldInv'
  <2> SUFFICES ASSUME NEW r \in Relayed, relayState'[r] = "open"
               PROVE  r \in ready' \/ r = wgProxyRelay' \/ r \in retired'
    BY <1>3 DEF HeldInv, RelayOpened
  <2>1. CASE r = q
    BY <1>3, <2>1 DEF HeldInv, RelayOpened
  <2>2. CASE r # q
    BY <1>3, <2>2 DEF HeldInv, RelayOpened, transportVars
  <2> QED BY <2>1, <2>2
<1>4. ASSUME NEW q \in Relayed, onRelayConnectionIsReady(q) PROVE HeldInv'
  <2> SUFFICES ASSUME NEW r \in Relayed, relayState'[r] = "open"
               PROVE  r \in ready' \/ r = wgProxyRelay' \/ r \in retired'
    <3>1. relayState' \in [Relayed -> {"none", "open", "failed", "closed"}]
      BY <1>4, CloseRelayedType DEF HeldInv, onRelayConnectionIsReady, RelayTooLate, RelayNoProxy, RelayStandby,
         RelayNotConfigured, RelayActive
    <3> QED BY <3>1 DEF HeldInv
  <2>1. ready' = ready \ {q}
    BY <1>4 DEF onRelayConnectionIsReady
  <2>2. CASE RelayTooLate(q) \/ RelayNotConfigured(q)
    <3>1. CloseRelayed({q}) /\ UNCHANGED <<wgProxyRelay, retired>>
      BY <2>2 DEF RelayTooLate, RelayNotConfigured, transportVars
    <3>2. relayState[r] = "open" /\ r # q
      BY <3>1, OpenAfterClose
    <3> QED BY <2>1, <3>1, <3>2 DEF HeldInv
  <2>3. CASE RelayNoProxy(q)
    <3>1. UNCHANGED <<wgProxyRelay, retired>>
      BY <2>3 DEF RelayNoProxy, transportVars
    <3>2. relayState[r] = "open" /\ r # q
      BY <2>3 DEF HeldInv, RelayNoProxy
    <3> QED BY <2>1, <3>1, <3>2 DEF HeldInv
  <2>4. CASE RelayStandby(q)
    BY <2>1, <2>4, OpenAfterClose, CloseRelayedType DEF HeldInv, RelayStandby
  <2>5. CASE RelayActive(q)
    <3>1. CASE migrating
      BY <2>1, <2>5, <3>1, OpenAfterClose, CloseRelayedType DEF HeldInv, RelayActive
    <3>2. CASE ~migrating
      BY <2>1, <2>5, <3>2, OpenAfterClose, CloseRelayedType DEF HeldInv, RelayActive
    <3> QED BY <3>1, <3>2
  <2> QED BY <1>4, <2>2, <2>3, <2>4, <2>5 DEF onRelayConnectionIsReady
<1>5. ASSUME NEW q \in Relayed, expireRetiredRelayProxy(q) PROVE HeldInv'
  BY <1>5, OpenAfterClose, CloseRelayedType DEF HeldInv, expireRetiredRelayProxy
<1>6. CASE onWGCheckSuccess
  BY <1>6, OpenAfterClose, CloseRelayedType DEF HeldInv, onWGCheckSuccess
<1>7. ASSUME NEW also, handleRelayDisconnected(also), UNCHANGED ready PROVE HeldInv'
  BY <1>7, OpenAfterClose, CloseRelayedType DEF HeldInv, handleRelayDisconnected
<1>8. CASE onRelayDisconnected \/ onWGDisconnected
  BY <1>1, <1>7, <1>8 DEF onRelayDisconnected, onWGDisconnected, WGTimeoutRelay, WGTimeoutICE, WGTimeoutNone, transportVars
<1>9. CASE \/ Open \/ CloseIgnored \/ ListenStops \/ GuardStops \/ WgDone \/ CloseReturn \/ ListenNoICE
           \/ (\E sid \in Sessions \cup {NoSession} : ListenICE(sid))
           \/ (\E a \in Agents : AgentStep(a) \/ onICEConnectionIsReady(a) \/ onICEStateDisconnected(a))
           \/ WatchTimeout \/ scheduleDelayedUpdate
           \/ (\E step \in {"run", "timeout"} : StaleReturns(step))
           \/ UNCHANGED vars
  <2>1. UNCHANGED <<relayState, ready, wgProxyRelay, retired>>
    BY <1>9 DEF Open, CloseIgnored, ListenStops, GuardStops, WgDone, CloseReturn, OpenKeeps, ListenNoICE, ListenICE, AgentStep,
       onICEConnectionIsReady, onICEStateDisconnected, WatchTimeout, scheduleDelayedUpdate, StaleReturns,
       transportVars, relayVars, connVars, vars
  <2> QED BY <1>1, <2>1
<1> QED BY <1>2, <1>3, <1>4, <1>5, <1>6, <1>8, <1>9 DEF Next

\* The invariants of the connection hold from the start.
LEMMA ConnInvInit == Init => OpenInv /\ CleanInv /\ PathInv /\ HeldInv
<1> SUFFICES ASSUME Init PROVE OpenInv /\ CleanInv /\ PathInv /\ HeldInv
  OBVIOUS
<1>1. gen \in 0 .. MaxOpens
  BY WorkerAssumption DEF Init
<1>2. OpenInv
  BY <1>1 DEF Init, OpenInv
<1>3. CleanInv /\ HeldInv
  BY DEF Init, CleanInv, HeldInv
<1>4. PathInv
  BY DEF Init, PathInv, None, Relay, ICETurn, ICEP2P
<1> QED BY <1>2, <1>3, <1>4

\* Between a Close that has released conn.mu and the next Open, no late callback of ICE,
\* relay or watcher has brought anything of the connection back (the context checks of
\* onICEConnectionIsReady, onRelayConnectionIsReady and the others).
THEOREM ClosedIsCleanHolds == Spec => []ClosedIsClean
<1>1. OpenInv /\ CleanInv /\ [Next]_vars => OpenInv' /\ CleanInv'
  BY OpenInvStep, CleanInvStep
<1>2. CleanInv => ClosedIsClean
  BY DEF CleanInv, ClosedIsClean
<1> QED BY ConnInvInit, <1>1, <1>2, PTL DEF Spec, Safety

\* The transport that carries the traffic is connected, and the relay has its proxy
\* (currentConnPriority against the statuses in the handlers of Conn).
THEOREM ActiveHasPathHolds == Spec => []ActiveHasPath
<1>1. PathInv => ActiveHasPath
  BY DEF PathInv, ActiveHasPath, Relay, ICETurn, ICEP2P
<1> QED BY ConnInvInit, PathInvStep, <1>1, PTL DEF Spec, Safety

\* A closed connection holds no relayed connection open, late ones included
\* (onRelayConnectionIsReady closes what comes after Close).
THEOREM NoRelayLeakHolds == Spec => []NoRelayLeak
<1>1. OpenInv /\ CleanInv /\ HeldInv /\ [Next]_vars => OpenInv' /\ CleanInv' /\ HeldInv'
  BY OpenInvStep, CleanInvStep, HeldInvStep
<1>2. CleanInv /\ HeldInv => NoRelayLeak
  <2> SUFFICES ASSUME CleanInv, HeldInv, NEW r \in Relayed, ~opened, relayState[r] = "open" PROVE r \in ready
    BY DEF NoRelayLeak
  <2>1. r # 0
    BY ConnAssumption DEF Relayed
  <2> QED BY <2>1 DEF CleanInv, HeldInv
<1> QED BY ConnInvInit, <1>1, <1>2, PTL DEF Spec, Safety
=============================================================================
