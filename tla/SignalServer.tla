----------------------------- MODULE SignalServer -----------------------------
(***************************************************************************)
(* The signal server: signal/peer/peer.go (Registry) and                   *)
(* signal/server/signal.go (ConnectStream, Send, forwardMessageToPeer).    *)
(*                                                                         *)
(* step[s] is the handler goroutine of ConnectStream for stream s; the     *)
(* registry is a sync.Map, so LoadOrStore, CompareAndSwap and              *)
(* CompareAndDelete are atomic and everything between them interleaves.    *)
(* fwd[m] is the call of Server.Send for message m and wr[m] the goroutine *)
(* that forwardMessageToPeer starts to write it.                           *)
(***************************************************************************)
EXTENDS Integers, FiniteSets

CONSTANTS
    Ids,               \* peer ids
    Streams,           \* gRPC streams, one ConnectStream call each
    IdOf,              \* the id in the stream's metadata
    NoStream,          \* no registry entry
    Messages,          \* calls of Server.Send
    Dest,              \* msg.RemoteKey
    MaxClock           \* bound: StreamIDs are wall-clock readings 1..MaxClock

ASSUME SignalAssumption ==
    /\ IsFiniteSet(Ids) /\ IsFiniteSet(Streams)
    /\ IdOf \in [Streams -> Ids]
    /\ NoStream \notin Streams
    /\ Dest \in [Messages -> Ids]
    /\ MaxClock \in Nat

VARIABLES
    step,       \* step of ConnectStream; "failed": it returned without DeregisterPeer
    streamID,   \* Peer.StreamID
    registry,   \* Registry.Peers
    seen,       \* the entry Register loaded
    cancelled,  \* Peer.Cancel was called
    ended,      \* stream.Context() is done
    active,     \* metrics.ActivePeers
    fwd,        \* step of Server.Send
    dst,        \* dstPeer of forwardMessageToPeer
    wr          \* step of the goroutine running dstPeer.Send

regVars == <<step, streamID, registry, seen, cancelled, ended, active>>
msgVars == <<fwd, dst, wr>>
vars == <<step, streamID, registry, seen, cancelled, ended, active, fwd, dst, wr>>

Steps == {"idle", "register", "swap", "cancelOld", "count", "listen", "header",
          "serve", "leave", "uncount", "done", "failed"}

TypeOK ==
    /\ step \in [Streams -> Steps]
    /\ streamID \in [Streams -> Nat]
    /\ registry \in [Ids -> Streams \cup {NoStream}]
    /\ seen \in [Streams -> Streams \cup {NoStream}]
    /\ cancelled \in [Streams -> BOOLEAN]
    /\ ended \in [Streams -> BOOLEAN]
    /\ active \in Int
    /\ fwd \in [Messages -> {"idle", "found", "sending", "dispatched", "dropped",
                             "forwarded", "failed", "timeout"}]
    /\ dst \in [Messages -> Streams \cup {NoStream}]
    /\ wr \in [Messages -> {"none", "wait", "writing", "ok", "error"}]
    /\ \A m \in Messages : IF fwd[m] \in {"idle", "found", "dispatched", "dropped"}
                           THEN wr[m] = "none" ELSE dst[m] \in Streams

Init ==
    /\ step = [s \in Streams |-> "idle"]
    /\ streamID = [s \in Streams |-> 0]
    /\ registry = [i \in Ids |-> NoStream]
    /\ seen = [s \in Streams |-> NoStream]
    /\ cancelled = [s \in Streams |-> FALSE]
    /\ ended = [s \in Streams |-> FALSE]
    /\ active = 0
    /\ fwd = [m \in Messages |-> "idle"]
    /\ dst = [m \in Messages |-> NoStream]
    /\ wr = [m \in Messages |-> "none"]

-----------------------------------------------------------------------------
(* ConnectStream: NewPeer, Register, ListenForMessages, SendHeader, wait. *)

\* NewPeer reads the wall clock, which may repeat a value or step back.  (A
\* stream without the id header returns before it touches the registry.)
ConnectStream(s, t) ==
    /\ step[s] = "idle"
    /\ streamID' = [streamID EXCEPT ![s] = t]
    /\ step' = [step EXCEPT ![s] = "register"]
    /\ UNCHANGED <<registry, seen, cancelled, ended, active, msgVars>>

\* Variant of IsNewer: of two equal clock readings the later caller wins.
IsNotOlder(s, old) == streamID[s] >= streamID[old]

IsNewer(s, old) == streamID[s] > streamID[old]

\* Registry.Register up to the comparison: Peers.LoadOrStore.  A stream that is
\* not newer than the registered one gets ErrPeerAlreadyRegistered.
Register(s) ==
    /\ step[s] = "register"
    /\ LET old == registry[IdOf[s]] IN
       IF old = NoStream
       THEN /\ registry' = [registry EXCEPT ![IdOf[s]] = s]
            /\ step' = [step EXCEPT ![s] = "count"]
            /\ UNCHANGED <<seen, ended>>
       ELSE /\ registry' = registry
            /\ seen' = [seen EXCEPT ![s] = old]
            /\ IF IsNewer(s, old)
               THEN step' = [step EXCEPT ![s] = "swap"] /\ ended' = ended
               ELSE step' = [step EXCEPT ![s] = "done"] /\ ended' = [ended EXCEPT ![s] = TRUE]
    /\ UNCHANGED <<streamID, cancelled, active, msgVars>>

\* Variant of EntryUnchanged: CompareAndSwap given the new peer as the old value.
SwapOwn(s) == registry[IdOf[s]] = s

\* Peers.CompareAndSwap succeeds: the entry is still the one Register loaded.
EntryUnchanged(s) == registry[IdOf[s]] = seen[s]

\* When the entry changed meanwhile Register starts again.
Swap(s) ==
    /\ step[s] = "swap"
    /\ IF EntryUnchanged(s)
       THEN /\ registry' = [registry EXCEPT ![IdOf[s]] = s]
            /\ step' = [step EXCEPT ![s] = "cancelOld"]
       ELSE /\ registry' = registry
            /\ step' = [step EXCEPT ![s] = "register"]
    /\ UNCHANGED <<streamID, seen, cancelled, ended, active, msgVars>>

\* Variant of CancelOld: a replacement is counted as one more peer.
CancelAndCount(s) ==
    /\ step[s] = "cancelOld"
    /\ cancelled' = [cancelled EXCEPT ![seen[s]] = TRUE]
    /\ step' = [step EXCEPT ![s] = "count"]
    /\ UNCHANGED <<streamID, registry, seen, ended, active, msgVars>>

\* pp.Cancel(): the replaced stream's handler is told to return.
CancelOld(s) ==
    /\ step[s] = "cancelOld"
    /\ cancelled' = [cancelled EXCEPT ![seen[s]] = TRUE]
    /\ step' = [step EXCEPT ![s] = "listen"]
    /\ UNCHANGED <<streamID, registry, seen, ended, active, msgVars>>

\* A first registration, unlike a replacement, counts one more active peer.
CountPeer(s) ==
    /\ step[s] = "count"
    /\ active' = active + 1
    /\ step' = [step EXCEPT ![s] = "listen"]
    /\ UNCHANGED <<streamID, registry, seen, cancelled, ended, msgVars>>

\* dispatcher.ListenForMessages.  When it fails RegisterPeer returns an error,
\* the deferred DeregisterPeer is never installed and the handler returns.
ListenForMessages(s) ==
    /\ step[s] = "listen"
    /\ \/ step' = [step EXCEPT ![s] = "header"] /\ ended' = ended
       \/ step' = [step EXCEPT ![s] = "failed"] /\ ended' = [ended EXCEPT ![s] = TRUE]
    /\ UNCHANGED <<streamID, registry, seen, cancelled, active, msgVars>>

\* Variant of SendHeader: a failure returns before DeregisterPeer is deferred.
HeaderNoDefer(s) ==
    /\ step[s] = "header"
    /\ \E next \in {"serve", "done"} : step' = [step EXCEPT ![s] = next]
    /\ UNCHANGED <<streamID, registry, seen, cancelled, ended, active, msgVars>>

\* stream.SendHeader; it also fails when a forwarded message went out first.
SendHeader(s) ==
    /\ step[s] = "header"
    /\ \E next \in {"serve", "leave"} : step' = [step EXCEPT ![s] = next]
    /\ UNCHANGED <<streamID, registry, seen, cancelled, ended, active, msgVars>>

\* Variant of Serve: the final select does not watch the peer's own context.
ServeUntilEnded(s) ==
    /\ step[s] = "serve"
    /\ ended[s]
    /\ step' = [step EXCEPT ![s] = "leave"]
    /\ UNCHANGED <<streamID, registry, seen, cancelled, ended, active, msgVars>>

\* The final select: the stream's context, or cancellation by a newer stream
\* or by a send timeout (ErrPeerRegisteredAgain).
Serve(s) ==
    /\ step[s] = "serve"
    /\ ended[s] \/ cancelled[s]
    /\ step' = [step EXCEPT ![s] = "leave"]
    /\ UNCHANGED <<streamID, registry, seen, cancelled, ended, active, msgVars>>

\* Variant of IsRegistered: Delete in place of CompareAndDelete.
DeleteAlways(s) == TRUE

\* Peers.CompareAndDelete succeeds.
IsRegistered(s) == registry[IdOf[s]] = s

\* Registry.Deregister.  gRPC ends the stream's context
\* when the handler returns.
Deregister(s) ==
    /\ step[s] = "leave"
    /\ IF IsRegistered(s)
       THEN /\ registry' = [registry EXCEPT ![IdOf[s]] = NoStream]
            /\ step' = [step EXCEPT ![s] = "uncount"]
            /\ ended' = ended
       ELSE /\ registry' = registry
            /\ step' = [step EXCEPT ![s] = "done"]
            /\ ended' = [ended EXCEPT ![s] = TRUE]
    /\ UNCHANGED <<streamID, seen, cancelled, active, msgVars>>

UncountPeer(s) ==
    /\ step[s] = "uncount"
    /\ active' = active - 1
    /\ step' = [step EXCEPT ![s] = "done"]
    /\ ended' = [ended EXCEPT ![s] = TRUE]
    /\ UNCHANGED <<streamID, registry, seen, cancelled, msgVars>>

\* The client closes the stream or its connection breaks.
ClientLeaves(s) ==
    /\ step[s] # "idle" /\ ~ended[s]
    /\ ended' = [ended EXCEPT ![s] = TRUE]
    /\ UNCHANGED <<step, streamID, registry, seen, cancelled, active, msgVars>>

-----------------------------------------------------------------------------
(* Send and forwardMessageToPeer. *)

\* Server.Send: registry.Get; an unknown peer goes to the dispatcher.
Send(m) ==
    /\ fwd[m] = "idle"
    /\ fwd' = [fwd EXCEPT ![m] = IF registry[Dest[m]] = NoStream THEN "dispatched" ELSE "found"]
    /\ UNCHANGED <<regVars, dst, wr>>

\* forwardMessageToPeer looks the peer up again: it may be gone by now.
Forward(m) ==
    /\ fwd[m] = "found"
    /\ dst' = [dst EXCEPT ![m] = registry[Dest[m]]]
    /\ IF registry[Dest[m]] = NoStream
       THEN fwd' = [fwd EXCEPT ![m] = "dropped"] /\ wr' = wr
       ELSE fwd' = [fwd EXCEPT ![m] = "sending"] /\ wr' = [wr EXCEPT ![m] = "wait"]
    /\ UNCHANGED regVars

\* Peer.Send: sendMu, one writer per stream at a time.
LockSend(m) ==
    /\ wr[m] = "wait"
    /\ \A n \in Messages : ~(dst[n] = dst[m] /\ wr[n] = "writing")
    /\ wr' = [wr EXCEPT ![m] = "writing"]
    /\ UNCHANGED <<regVars, fwd, dst>>

\* Stream.Send returns: with success only while the stream lives.
WriteOk(m) ==
    /\ wr[m] = "writing" /\ ~ended[dst[m]]
    /\ wr' = [wr EXCEPT ![m] = "ok"]
    /\ UNCHANGED <<regVars, fwd, dst>>

WriteFails(m) ==
    /\ wr[m] = "writing" /\ ended[dst[m]]
    /\ wr' = [wr EXCEPT ![m] = "error"]
    /\ UNCHANGED <<regVars, fwd, dst>>

\* The select in forwardMessageToPeer.
SendResult(m) ==
    /\ fwd[m] = "sending" /\ wr[m] \in {"ok", "error"}
    /\ fwd' = [fwd EXCEPT ![m] = IF wr[m] = "ok" THEN "forwarded" ELSE "failed"]
    /\ UNCHANGED <<regVars, dst, wr>>

PeerDisconnected(m) ==
    /\ fwd[m] = "sending" /\ ended[dst[m]]
    /\ fwd' = [fwd EXCEPT ![m] = "failed"]
    /\ UNCHANGED <<regVars, dst, wr>>

\* Variants of SendTimeout: no timer; no cancellation.
NoTimeout(m) == FALSE /\ UNCHANGED vars

TimeoutNoCancel(m) ==
    /\ fwd[m] = "sending"
    /\ fwd' = [fwd EXCEPT ![m] = "timeout"]
    /\ UNCHANGED <<regVars, dst, wr>>

\* sendTimeout: the destination is cancelled to trigger its deregistration.
SendTimeout(m) ==
    /\ fwd[m] = "sending"
    /\ fwd' = [fwd EXCEPT ![m] = "timeout"]
    /\ cancelled' = [cancelled EXCEPT ![dst[m]] = TRUE]
    /\ UNCHANGED <<step, streamID, registry, seen, ended, active, dst, wr>>

-----------------------------------------------------------------------------
HandlerStep(s) ==
    \/ Register(s) \/ Swap(s) \/ CancelOld(s) \/ CountPeer(s) \/ ListenForMessages(s)
    \/ SendHeader(s) \/ Serve(s) \/ Deregister(s) \/ UncountPeer(s)

SendStep(m) ==
    \/ Forward(m) \/ LockSend(m) \/ WriteFails(m)
    \/ SendResult(m) \/ PeerDisconnected(m) \/ SendTimeout(m)

Environment ==
    \/ \E s \in Streams : ClientLeaves(s) \/ \E t \in 1..MaxClock : ConnectStream(s, t)
    \/ \E m \in Messages : Send(m) \/ WriteOk(m)

Next ==
    \/ Environment
    \/ \E s \in Streams : HandlerStep(s)
    \/ \E m \in Messages : SendStep(m)

\* Handlers and senders that can run do; the send timer fires.  Nothing is
\* assumed of clients: a write to a slow client (WriteOk) may never complete.
Fairness ==
    /\ \A s \in Streams : WF_vars(HandlerStep(s))
    /\ \A m \in Messages : WF_vars(SendStep(m))

Spec == Init /\ [][Next]_vars /\ Fairness

-----------------------------------------------------------------------------
(* Properties. *)

\* Past a successful Register and before Deregister.
Serving(s) == step[s] \in {"cancelOld", "count", "listen", "header", "serve", "leave"}

\* SupersededIsCancelled: a stream that registered and is no longer the
\* registered stream of its id has been cancelled, or its successor is about to
\* cancel it: two streams of a peer never both go on serving.
SupersededIsCancelled ==
    \A s \in Streams :
        (Serving(s) /\ registry[IdOf[s]] # s)
        => \/ cancelled[s]
           \/ \E t \in Streams : step[t] = "cancelOld" /\ seen[t] = s

\* ReplacedByNewer: a step that replaces the registered stream of an id by
\* another one installs a greater StreamID, although other streams register
\* between Register's comparison and its CompareAndSwap.
ReplacedByNewer ==
    [][\A i \in Ids :
        (registry[i] # NoStream /\ registry'[i] \notin {NoStream, registry[i]})
        => streamID[registry'[i]] > streamID[registry[i]]]_vars

Registered == {i \in Ids : registry[i] # NoStream}
Counting   == {s \in Streams : step[s] = "count"}
Uncounting == {s \in Streams : step[s] = "uncount"}

\* ActiveCount: the ActivePeers metric is the number of registered ids, up to
\* registrations and deregistrations whose update is still to come: replacing a
\* stream counts nothing, and a replaced stream's exit counts nothing.
ActiveCount ==
    active + Cardinality(Counting) = Cardinality(Registered) + Cardinality(Uncounting)

\* The handler has returned.
Returned(s) == step[s] \in {"done", "failed"}

\* ConnectedOnly: a registered stream has a running handler, which will
\* deregister it: "Registry that holds all currently connected Peers".  Only a
\* failed ListenForMessages leaves the entry of a stream that is over behind.
ConnectedOnly ==
    \A i \in Ids : registry[i] # NoStream => Serving(registry[i]) \/ step[registry[i]] = "failed"

\* RegisterReturns: Register does not loop on lost CompareAndSwaps for ever.
RegisterReturns ==
    \A s \in Streams : (step[s] = "register") ~> (step[s] \notin {"register", "swap"})

\* SupersededLeaves: the handler of a replaced stream returns.
SupersededLeaves ==
    \A s \in Streams : (Serving(s) /\ registry[IdOf[s]] # s) ~> Returned(s)

\* ForwardReturns: Send returns, whatever the destination does.
ForwardReturns ==
    \A m \in Messages : (fwd[m] \in {"found", "sending"}) ~> (fwd[m] \notin {"found", "sending"})

\* StuckStreamLeaves: the handler of a destination whose send timed out returns,
\* after DeregisterPeer unless its ListenForMessages failed.
StuckStreamLeaves ==
    \A m \in Messages :
        (fwd[m] = "timeout") ~> (\E s \in Streams : dst[m] = s /\ Returned(s))
===============================================================================
