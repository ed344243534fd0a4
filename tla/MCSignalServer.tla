---------------------------- MODULE MCSignalServer ----------------------------
(* SignalServer for TLC: a peer that reconnects, and a message to it. *)
EXTENDS SignalServer, TLC

CONSTANTS a, s1, s2, m1

ReconnectingA == s1 :> a @@ s2 :> a
ToA == m1 :> a
===============================================================================
