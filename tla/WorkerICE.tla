------------------------------- MODULE WorkerICE -------------------------------
(***************************************************************************)
(* The client's ICE worker of a peer connection (WorkerICE): the agent it  *)
(* negotiates with, the dial goroutine of every agent (connect), and the   *)
(* state callback of every agent (onConnectionStateChange).                *)
(*                                                                         *)
(* A worker belongs to one Open of the connection and may outlive it, so   *)
(* workers are numbered by Open and keep their own fields.  Agents are     *)
(* numbered in the order of their creation; 0 is nil.  The pion agent is   *)
(* external: it connects, is lost, is closed, and queues a callback for    *)
(* each.  An agent that is lost does not come back, since its callback     *)
(* closes it.                                                              *)
(***************************************************************************)
EXTENDS Naturals, Sequences

CONSTANTS
    Sessions,       \* session ids of the remote peer's offers and answers
    NoSession,      \* no session id: "" in the worker, nil in an offer of an old client
    MaxOpens,       \* bound: workers
    MaxAgents       \* bound: agents

ASSUME WorkerAssumption ==
    /\ MaxOpens \in Nat /\ MaxAgents \in Nat
    /\ NoSession \notin Sessions

Workers == 1 .. MaxOpens
Agents == 1 .. MaxAgents

VARIABLES
    agent,             \* w.agent
    agentConnecting,   \* w.agentConnecting
    remoteSessionID,   \* w.remoteSessionID
    lastKnown,         \* w.lastKnownState is Connected
    owner,             \* the worker that created the agent, 0 for agents to come
    dial,              \* step of the agent's connect goroutine
    pion,              \* state of the pion agent
    callbacks,         \* state changes the agent's callback has not seen yet
    notifying          \* agents whose callback is calling onICEStateDisconnected

workerVars == <<agent, agentConnecting, remoteSessionID>>
iceVars == <<agent, agentConnecting, remoteSessionID, lastKnown, owner, dial, pion, callbacks, notifying>>

ICETypeOK ==
    /\ agent \in [Workers -> 0 .. MaxAgents]
    /\ agentConnecting \in [Workers -> BOOLEAN]
    /\ remoteSessionID \in [Workers -> Sessions \cup {NoSession}]
    /\ lastKnown \in [Workers -> BOOLEAN]
    /\ owner \in [Agents -> 0 .. MaxOpens]
    /\ dial \in [Agents -> {"none", "dial", "reached", "commit", "deliver", "done"}]
    /\ pion \in [Agents -> {"none", "new", "up", "lost", "closed"}]
    /\ callbacks \in [Agents -> Seq({"connected", "disconnected", "closed"})]
    /\ notifying \subseteq Agents

ICEInit ==
    /\ agent = [g \in Workers |-> 0]
    /\ agentConnecting = [g \in Workers |-> FALSE]
    /\ remoteSessionID = [g \in Workers |-> NoSession]
    /\ lastKnown = [g \in Workers |-> FALSE]
    /\ owner = [a \in Agents |-> 0]
    /\ dial = [a \in Agents |-> "none"]
    /\ pion = [a \in Agents |-> "none"]
    /\ callbacks = [a \in Agents |-> <<>>]
    /\ notifying = {}

DialGoto(a, step) == dial' = [dial EXCEPT ![a] = step]

\* ThreadSafeAgent.Close, at most once for an agent; 0 is no agent.
ClosePion(a) ==
    IF a # 0 /\ pion[a] # "closed"
    THEN /\ pion' = [pion EXCEPT ![a] = "closed"]
         /\ callbacks' = [callbacks EXCEPT ![a] = Append(@, "closed")]
    ELSE UNCHANGED <<pion, callbacks>>

abandonNegotiation(g) ==
    /\ agent' = [agent EXCEPT ![g] = 0]
    /\ agentConnecting' = [agentConnecting EXCEPT ![g] = FALSE]
    /\ remoteSessionID' = [remoteSessionID EXCEPT ![g] = NoSession]

\* closeAgent after cancel and agent.Close.  The result sessionChanged, which only says
\* whether the connection's endpoint is reset on the way to the relay, is left out.
resetIfOwner(a) ==
    IF agent[owner[a]] = a
    THEN abandonNegotiation(owner[a])
    ELSE UNCHANGED workerVars

-----------------------------------------------------------------------------
(* The worker: OnNewOffer and Close, both under muxAgent. *)

Busy(g) == agent[g] # 0 \/ agentConnecting[g]

\* The offer belongs to the negotiation that is running, or carries no session id.
SkipsOffer(g, sid) ==
    /\ Busy(g)
    /\ sid = NoSession \/ sid = remoteSessionID[g]

\* reCreateAgent fails: what was there is gone, nothing takes its place.
OfferWithoutAgent(g, sid) ==
    /\ ~SkipsOffer(g, sid)
    /\ ClosePion(agent[g])
    /\ IF Busy(g) THEN abandonNegotiation(g) ELSE UNCHANGED workerVars
    /\ UNCHANGED <<lastKnown, owner, dial, notifying>>

\* The agent a is created and its connect goroutine started.
OfferWithAgent(g, sid, a) ==
    /\ ~SkipsOffer(g, sid)
    /\ owner[a] = 0 /\ \A b \in Agents : b < a => owner[b] # 0
    /\ agent' = [agent EXCEPT ![g] = a]
    /\ agentConnecting' = [agentConnecting EXCEPT ![g] = TRUE]
    /\ remoteSessionID' = [remoteSessionID EXCEPT ![g] = sid]
    /\ owner' = [owner EXCEPT ![a] = g]
    /\ DialGoto(a, "dial")
    /\ LET closes == agent[g] # 0 /\ pion[agent[g]] # "closed"
       IN /\ pion' = [b \in Agents |-> IF b = a THEN "new"
                                       ELSE IF closes /\ b = agent[g] THEN "closed" ELSE pion[b]]
          /\ callbacks' = [b \in Agents |-> IF closes /\ b = agent[g]
                                            THEN Append(callbacks[b], "closed") ELSE callbacks[b]]
    /\ UNCHANGED <<lastKnown, notifying>>

OnNewOffer(g, sid) ==
    \/ SkipsOffer(g, sid) /\ UNCHANGED iceVars
    \/ OfferWithoutAgent(g, sid)
    \/ \E a \in Agents : OfferWithAgent(g, sid, a)

CloseWorker(g) ==
    /\ ClosePion(agent[g])
    /\ abandonNegotiation(g)
    /\ UNCHANGED <<lastKnown, owner, dial, notifying>>

-----------------------------------------------------------------------------
(* The connect goroutine of an agent. *)

\* The dial returns a connection; it is dropped if a newer agent has taken over.
DialSucceeds(a) ==
    /\ dial[a] = "reached"
    /\ DialGoto(a, IF agent[owner[a]] = a THEN "commit" ELSE "done")
    /\ UNCHANGED <<workerVars, lastKnown, owner, pion, callbacks, notifying>>

\* No candidates, no connection, or no selected pair: closeAgent.
DialFails(a) ==
    /\ dial[a] \in {"dial", "reached", "commit"}
    /\ ClosePion(a)
    /\ resetIfOwner(a)
    /\ DialGoto(a, "done")
    /\ UNCHANGED <<lastKnown, owner, notifying>>

\* Variant of Commit: the ownership check is missing.
CommitUnchecked(a) ==
    /\ dial[a] = "commit"
    /\ agentConnecting' = [agentConnecting EXCEPT ![owner[a]] = FALSE]
    /\ DialGoto(a, "deliver")
    /\ UNCHANGED <<agent, remoteSessionID, lastKnown, owner, pion, callbacks, notifying>>

Commit(a) ==
    /\ dial[a] = "commit"
    /\ IF agent[owner[a]] = a
       THEN /\ agentConnecting' = [agentConnecting EXCEPT ![owner[a]] = FALSE]
            /\ DialGoto(a, "deliver")
       ELSE DialGoto(a, "done") /\ UNCHANGED agentConnecting
    /\ UNCHANGED <<agent, remoteSessionID, lastKnown, owner, pion, callbacks, notifying>>

\* The call of onICEConnectionIsReady; the connection's part is in PeerConn.
Deliver(a) ==
    /\ dial[a] = "deliver"
    /\ DialGoto(a, "done")
    /\ UNCHANGED <<workerVars, lastKnown, owner, pion, callbacks, notifying>>

-----------------------------------------------------------------------------
(* The pion agent and its callback. *)

PionConnects(a) ==
    /\ pion[a] = "new" /\ dial[a] = "dial"
    /\ pion' = [pion EXCEPT ![a] = "up"]
    /\ DialGoto(a, "reached")
    /\ callbacks' = [callbacks EXCEPT ![a] = Append(@, "connected")]
    /\ UNCHANGED <<workerVars, lastKnown, owner, notifying>>

PionLoses(a) ==
    /\ pion[a] \in {"new", "up"}
    /\ pion' = [pion EXCEPT ![a] = "lost"]
    /\ callbacks' = [callbacks EXCEPT ![a] = Append(@, "disconnected")]
    /\ UNCHANGED <<workerVars, lastKnown, owner, dial, notifying>>

CallbackIs(a, states) ==
    a \notin notifying /\ callbacks[a] # <<>> /\ Head(callbacks[a]) \in states

OnConnected(a) ==
    /\ CallbackIs(a, {"connected"})
    /\ lastKnown' = [lastKnown EXCEPT ![owner[a]] = TRUE]
    /\ callbacks' = [callbacks EXCEPT ![a] = Tail(@)]
    /\ UNCHANGED <<workerVars, owner, dial, pion, notifying>>

\* Disconnected, failed or closed: closeAgent; then lastKnownState, which all agents
\* of the worker share, decides whether the connection is told.
OnDisconnected(a) ==
    /\ CallbackIs(a, {"disconnected", "closed"})
    /\ pion' = [pion EXCEPT ![a] = "closed"]
    /\ callbacks' = [callbacks EXCEPT ![a] = IF pion[a] = "closed" THEN Tail(@) ELSE Append(Tail(@), "closed")]
    /\ resetIfOwner(a)
    /\ notifying' = IF lastKnown[owner[a]] THEN notifying \cup {a} ELSE notifying
    /\ lastKnown' = [lastKnown EXCEPT ![owner[a]] = FALSE]
    /\ UNCHANGED <<owner, dial>>

\* The call of onICEStateDisconnected; the connection's part is in PeerConn.
Notify(a) ==
    /\ a \in notifying
    /\ notifying' = notifying \ {a}
    /\ UNCHANGED <<workerVars, lastKnown, owner, dial, pion, callbacks>>

AgentNext(a) ==
    \/ DialSucceeds(a) \/ DialFails(a) \/ Commit(a) \/ Deliver(a)
    \/ PionConnects(a) \/ PionLoses(a)
    \/ OnConnected(a) \/ OnDisconnected(a) \/ Notify(a)

ICENext ==
    \/ \E g \in Workers : CloseWorker(g) \/ \E sid \in Sessions \cup {NoSession} : OnNewOffer(g, sid)
    \/ \E a \in Agents : AgentNext(a)

-----------------------------------------------------------------------------
\* A worker reports a negotiation in progress (agentConnecting, which makes the guard
\* send no offers) exactly while one is: the connect goroutine of its own agent is
\* running and will clear the flag, and no goroutine of an older agent, which finds its
\* agent replaced, has cleared it or left it behind.
ConnectingIsReal ==
    \A g \in Workers :
        agentConnecting[g] <=> \E a \in Agents : /\ agent[g] = a /\ owner[a] = g
                                                /\ dial[a] \in {"dial", "reached", "commit"}
=============================================================================
