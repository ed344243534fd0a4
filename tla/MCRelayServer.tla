---------------------------- MODULE MCRelayServer ----------------------------
(* RelayServer for TLC: one subscriber x and a peer p that reconnects once. *)
EXTENDS RelayServer, TLC

CONSTANTS x, p, x1, p1, p2

XAndReconnectingP == x1 :> x @@ p1 :> p @@ p2 :> p

\* A client's first request is a subscription, its second withdraws it.
SubscribesThenWithdraws ==
    \A c \in Conns : reads'[c] # reads[c] => (work'[c] = "subscribe" <=> reads[c] = 0)
==============================================================================
