------------------------------ MODULE MCPeerConn ------------------------------
(* PeerConn for TLC: every mix of up to MaxEvents opens, agents and relayed  *)
(* connections.                                                              *)
EXTENDS PeerConn, FiniteSets

CONSTANT MaxEvents

Bounded ==
    gen + Cardinality({a \in Agents : owner[a] # 0})
        + Cardinality({r \in Relayed : relayState[r] # "none"}) <= MaxEvents
===============================================================================
