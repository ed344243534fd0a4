----------------------------- MODULE MCManagement -----------------------------
(***************************************************************************)
(* Parts of the management server for TLC that share no state with each    *)
(* other: the request buffer, the job manager and the handler of a         *)
(* stream's updates.  A behaviour is one of the part that `part` names;    *)
(* the other parts keep their initial state, in which none of their        *)
(* actions that owe progress is enabled.                                   *)
(***************************************************************************)
EXTENDS RequestBuffer

CONSTANTS
    c1, c2, s1, s2, j1, j2,
    Streams, NoStream, Jobs, ChanCap,
    NetworkMap, ControlConfig, MaxUpdates

VARIABLES
    part,
    handler, left, channel, closed, events, creator, chosen, tracked, status, delivered, handled,
    received, timer, pending, sending, sent, over

jobVars ==
    <<handler, left, channel, closed, events, creator, chosen, tracked, status, delivered, handled>>
updateVars == <<received, timer, pending, sending, sent, over>>
partVars == <<part, vars, jobVars, updateVars>>

JM == INSTANCE JobManager WITH over <- left, pending <- tracked, StoreMayFail <- TRUE
UD == INSTANCE UpdateDebouncer

ASSUME PartsAssumption ==
    /\ NoStream \notin Streams /\ ChanCap \in Nat \ {0}
    /\ NetworkMap # ControlConfig /\ MaxUpdates \in Nat

PartInit ==
    /\ part \in {"buffer", "jobs", "updates"}
    /\ Init /\ JM!Init /\ UD!Init

BufferNext  == Next /\ UNCHANGED <<part, jobVars, updateVars>>
JobsNext    == JM!Next /\ UNCHANGED <<part, vars, updateVars>>
UpdatesNext == UD!Next /\ UNCHANGED <<part, vars, jobVars>>

PartNext ==
    \/ part = "buffer" /\ BufferNext
    \/ part = "jobs" /\ JobsNext
    \/ part = "updates" /\ UpdatesNext

PartSpec == PartInit /\ [][PartNext]_partVars /\ Fairness /\ JM!Fairness /\ UD!Fairness

-----------------------------------------------------------------------------
(* Properties of the parts. *)

\* PendingHasCarrier of JobManager: no job stays pending without a stream that
\* will answer for it.
PendingHasCarrier == JM!PendingHasCarrier

\* FinishedStays of JobManager: a stored answer is never overwritten by the end or
\* the start of a stream.
FinishedStays == JM!FinishedStays

\* SendersReturn of JobManager: CreatePeerJob returns.
SendersReturn == JM!SendersReturn

\* PendingIsSent of UpdateDebouncer: what is kept back is sent after a quiet period.
PendingIsSent == UD!PendingIsSent

\* ImplementsDelivery of UpdateDebouncer: the handler delivers in order, each
\* update at most once, coalescing network maps only.
ImplementsDelivery == UD!ImplementsDelivery
===============================================================================
