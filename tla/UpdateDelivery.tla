---------------------------- MODULE UpdateDelivery ----------------------------
(***************************************************************************)
(* What UpdateDebouncer promises (the comment on its type): updates are    *)
(* delivered in the order they were received; a network map may be left    *)
(* out only for the network map that directly follows it; no control       *)
(* config is left out.                                                     *)
(*                                                                         *)
(* An update is named by its place in the order of reception; received[i]  *)
(* is its kind.                                                            *)
(***************************************************************************)
EXTENDS Naturals, Sequences

CONSTANTS NetworkMap, ControlConfig     \* MessageType

Kinds == {NetworkMap, ControlConfig}

VARIABLES received, backlog, sent, over

vars == <<received, backlog, sent, over>>

Init == received = <<>> /\ backlog = <<>> /\ sent = <<>> /\ over = FALSE

Receive(kind) ==
    /\ ~over
    /\ received' = Append(received, kind)
    /\ UNCHANGED <<sent, over>>
    /\ \/ backlog' = Append(backlog, Len(received'))
       \/ /\ backlog # <<>>
          /\ kind = NetworkMap /\ received[backlog[Len(backlog)]] = NetworkMap
          /\ backlog' = [backlog EXCEPT ![Len(backlog)] = Len(received')]

Deliver ==
    /\ ~over /\ backlog # <<>>
    /\ sent' = Append(sent, Head(backlog))
    /\ backlog' = Tail(backlog)
    /\ UNCHANGED <<received, over>>

\* The stream ends; what was not delivered is dropped.
GiveUp ==
    /\ ~over
    /\ over' = TRUE
    /\ backlog' = <<>>
    /\ UNCHANGED <<received, sent>>

Next == (\E kind \in Kinds : Receive(kind)) \/ Deliver \/ GiveUp

Spec == Init /\ [][Next]_vars

-----------------------------------------------------------------------------
(* What the specification promises. *)

\* InOrder: updates are sent in the order they were received, and none twice.
InOrder == \A i, j \in DOMAIN sent : i < j => sent[i] < sent[j]

\* NothingLost: an update has been sent or is waiting, unless it is a network map
\* that another one directly follows, or the stream ended before its turn.
NothingLost ==
    \A i \in DOMAIN received :
        \/ \E k \in DOMAIN sent : sent[k] = i
        \/ \E k \in DOMAIN backlog : backlog[k] = i
        \/ /\ received[i] = NetworkMap
           /\ i + 1 \in DOMAIN received /\ received[i + 1] = NetworkMap
        \/ over /\ \A k \in DOMAIN sent : sent[k] < i
===============================================================================
