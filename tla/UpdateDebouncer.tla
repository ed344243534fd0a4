---------------------------- MODULE UpdateDebouncer ----------------------------
(***************************************************************************)
(* PeerUpdateHandler.HandleUpdates with its UpdateDebouncer: the first     *)
(* update is sent at once, those that follow within the debounce interval  *)
(* are collected and sent when the timer fires.                            *)
(*                                                                         *)
(* An update is named by its place in the order of reception; received[i]  *)
(* is its kind.  Where the updates come from is SyncStream.                *)
(***************************************************************************)
EXTENDS Naturals, Sequences, SequencesExt

CONSTANTS
    NetworkMap, ControlConfig,  \* MessageType
    MaxUpdates                  \* bound: updates received

Kinds == {NetworkMap, ControlConfig}

VARIABLES
    received, \* history: kinds of the updates received
    timer,    \* "nil", "running" or "fired": its channel has a value
    pending,  \* pendingUpdates
    sending,  \* updates HandleUpdates is sending
    sent,     \* history: updates sent to the peer
    over      \* HandleUpdates has returned

vars == <<received, timer, pending, sending, sent, over>>

Init ==
    /\ received = <<>>
    /\ timer = "nil"
    /\ pending = <<>> /\ sending = <<>> /\ sent = <<>>
    /\ over = FALSE

Coalesces(kind) ==
    /\ pending # <<>>
    /\ kind = NetworkMap
    /\ received[Last(pending)] = NetworkMap

Accumulate(kind) ==
    LET update == Len(received) + 1
    IN  pending' = IF Coalesces(kind) THEN [pending EXCEPT ![Len(pending)] = update]
                   ELSE Append(pending, update)

\* Variants of ProcessUpdate: an update that comes when the timer has fired is
\* sent at once, before those that are kept back; the timer is stopped and its
\* channel emptied, but it is not set again.
ProcessUpdateOvertakes(kind) ==
    /\ ~over /\ sending = <<>> /\ Len(received) < MaxUpdates
    /\ received' = Append(received, kind)
    /\ timer' = "running"
    /\ IF timer # "running"
       THEN sending' = <<Len(received) + 1>> /\ pending' = pending
       ELSE sending' = sending /\ Accumulate(kind)
    /\ UNCHANGED <<sent, over>>

ProcessUpdateNoReset(kind) ==
    /\ ~over /\ sending = <<>> /\ Len(received) < MaxUpdates
    /\ received' = Append(received, kind)
    /\ IF timer = "nil"
       THEN sending' = <<Len(received) + 1>> /\ pending' = pending /\ timer' = "running"
       ELSE /\ sending' = sending /\ Accumulate(kind)
            /\ timer' = "stopped"
    /\ UNCHANGED <<sent, over>>

\* The select of HandleUpdates takes an update: ProcessUpdate has it sent at
\* once or keeps it back and resets the timer (Reset takes a value that waits in
\* the timer's channel back).
ProcessUpdate(kind) ==
    /\ ~over /\ sending = <<>> /\ Len(received) < MaxUpdates
    /\ received' = Append(received, kind)
    /\ timer' = "running"
    /\ IF timer = "nil"
       THEN sending' = <<Len(received) + 1>> /\ pending' = pending
       ELSE sending' = sending /\ Accumulate(kind)
    /\ UNCHANGED <<sent, over>>

TimerFires ==
    /\ timer = "running"
    /\ timer' = "fired"
    /\ UNCHANGED <<received, pending, sending, sent, over>>

\* The select takes the value of the timer's channel: the pending updates are
\* sent and the timer runs again, or there are none and the quiet period begins.
GetPendingUpdates ==
    /\ ~over /\ sending = <<>> /\ timer = "fired"
    /\ sending' = pending
    /\ pending' = <<>>
    /\ timer' = IF pending = <<>> THEN "nil" ELSE "running"
    /\ UNCHANGED <<received, sent, over>>

SendUpdate ==
    /\ sending # <<>>
    /\ sent' = Append(sent, Head(sending))
    /\ sending' = Tail(sending)
    /\ UNCHANGED <<received, timer, pending, over>>

\* HandleUpdates returns, because the channel was closed, the stream has ended
\* or an update could not be sent; the deferred Stop drops what is pending.
Stop ==
    /\ ~over
    /\ over' = TRUE
    /\ timer' = "nil"
    /\ pending' = <<>> /\ sending' = <<>>
    /\ UNCHANGED <<received, sent>>

Next ==
    \/ \E kind \in Kinds : ProcessUpdate(kind)
    \/ TimerFires \/ GetPendingUpdates \/ SendUpdate \/ Stop

\* The timer fires and HandleUpdates goes on.
Fairness == WF_vars(TimerFires) /\ WF_vars(GetPendingUpdates) /\ WF_vars(SendUpdate)

Spec == Init /\ [][Next]_vars /\ Fairness

-----------------------------------------------------------------------------
(* Properties. *)

\* No more updates come.
Quiet == <>[][received' = received]_vars

\* PendingIsSent: what is kept back is sent "after a quiet period", as the comment on
\* UpdateDebouncer says, unless the stream ends.  While updates follow each other
\* within the interval it need not be sent: each of them resets the timer.
PendingIsSent == Quiet => (sending \o pending # <<>> ~> sending \o pending = <<>>)

\* The handler implements the ordered, coalescing delivery.
Delivery == INSTANCE UpdateDelivery WITH backlog <- sending \o pending

\* ImplementsDelivery: every step is a reception, a delivery or an end of
\* UpdateDelivery, so no update overtakes another and none is sent twice, whether
\* it was sent at once, in a batch, or after the timer raced it in the select.
ImplementsDelivery == Delivery!Spec
===============================================================================
