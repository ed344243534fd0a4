-------------------------- MODULE SignalServerProofs --------------------------
(***************************************************************************)
(* Proofs about SignalServer, for every finite set of ids and streams and  *)
(* every set of messages.                                                  *)
(*                                                                         *)
(* SupersededIsCancelled and ReplacedByNewer rest on what Register has     *)
(* established when it comes to its CompareAndSwap (SeenIsOlder) and on    *)
(* what a registry entry is (EntryOK), and so does where messages go.      *)
(***************************************************************************)
EXTENDS SignalServer, FiniteSetTheorems, TLAPS

\* The provers that a leaf which names none is tried with, in turn.
USE ZenonT(4), SMTT(10), ZenonT(30), SMTT(30)

\* The entry of id i is a stream of i that registered and has not deregistered, or
\* whose handler never will.
EntryOK ==
    \A i \in Ids : registry[i] # NoStream =>
        /\ IdOf[registry[i]] = i
        /\ Serving(registry[i]) \/ step[registry[i]] = "failed"

\* Between the comparison and the cancellation, the stream Register saw is an
\* older stream of the same id.
SeenIsOlder ==
    \A s \in Streams : step[s] \in {"swap", "cancelOld"} =>
        /\ seen[s] \in Streams /\ seen[s] # s
        /\ IdOf[seen[s]] = IdOf[s]
        /\ step[seen[s]] # "idle"
        /\ streamID[s] > streamID[seen[s]]

IInv == TypeOK /\ EntryOK /\ SeenIsOlder /\ SupersededIsCancelled

-----------------------------------------------------------------------------
(* Type correctness. *)

\* The initial state has the right type.
LEMMA InitTypeOK == Init => TypeOK
  BY SignalAssumption DEF Init, TypeOK, Steps

\* The steps of ConnectStream keep the types.
LEMMA HandlerTypeOK ==
  ASSUME TypeOK, NEW s \in Streams, HandlerStep(s)
  PROVE  TypeOK'
<1> USE SignalAssumption DEF TypeOK, Steps, msgVars
<1>1. CASE Register(s)
  <2> USE DEF Register, IsNewer
  <2>0. IdOf[s] \in Ids /\ registry[IdOf[s]] \in Streams \cup {NoStream}
    OBVIOUS
  <2>1. CASE registry[IdOf[s]] = NoStream
    BY <1>1, <2>0, <2>1
  <2>2. CASE registry[IdOf[s]] # NoStream /\ streamID[s] > streamID[registry[IdOf[s]]]
    BY <1>1, <2>0, <2>2
  <2>3. CASE registry[IdOf[s]] # NoStream /\ ~(streamID[s] > streamID[registry[IdOf[s]]])
    BY <1>1, <2>0, <2>3
  <2> QED
    BY <2>1, <2>2, <2>3
<1>2. CASE Swap(s)
  BY <1>2 DEF Swap, EntryUnchanged
<1>3. CASE CancelOld(s)
  BY <1>3 DEF CancelOld
<1>4. CASE CountPeer(s)
  BY <1>4 DEF CountPeer
<1>5. CASE ListenForMessages(s)
  BY <1>5 DEF ListenForMessages
<1>6. CASE SendHeader(s)
  BY <1>6 DEF SendHeader
<1>7. CASE Serve(s)
  BY <1>7 DEF Serve
<1>8. CASE Deregister(s)
  BY <1>8 DEF Deregister, IsRegistered
<1>9. CASE UncountPeer(s)
  BY <1>9 DEF UncountPeer
<1> QED
  BY <1>1, <1>2, <1>3, <1>4, <1>5, <1>6, <1>7, <1>8, <1>9 DEF HandlerStep

\* The steps of Send and of its writer goroutine keep the types.
LEMMA SendTypeOK ==
  ASSUME TypeOK, NEW m \in Messages, SendStep(m) \/ Send(m) \/ WriteOk(m)
  PROVE  TypeOK'
<1> USE SignalAssumption DEF TypeOK, regVars
<1>1. CASE Forward(m)
  <2>0. Dest[m] \in Ids /\ registry[Dest[m]] \in Streams \cup {NoStream}
    OBVIOUS
  <2>1. CASE registry[Dest[m]] = NoStream
    BY <1>1, <2>0, <2>1 DEF Forward
  <2>2. CASE registry[Dest[m]] # NoStream
    BY <1>1, <2>0, <2>2 DEF Forward
  <2> QED
    BY <2>1, <2>2
<1>2. CASE LockSend(m)
  BY <1>2 DEF LockSend
<1>3. CASE WriteFails(m) \/ WriteOk(m)
  BY <1>3 DEF WriteFails, WriteOk
<1>4. CASE SendResult(m)
  BY <1>4 DEF SendResult
<1>5. CASE PeerDisconnected(m)
  BY <1>5 DEF PeerDisconnected
<1>6. CASE SendTimeout(m)
  BY <1>6 DEF SendTimeout
<1>7. CASE Send(m)
  BY <1>7 DEF Send
<1> QED
  BY <1>1, <1>2, <1>3, <1>4, <1>5, <1>6, <1>7 DEF SendStep

\* A client that connects or leaves keeps the types.
LEMMA ClientTypeOK ==
  ASSUME TypeOK, NEW s \in Streams,
         ClientLeaves(s) \/ \E t \in 1..MaxClock : ConnectStream(s, t)
  PROVE  TypeOK'
<1> USE SignalAssumption DEF TypeOK, Steps, msgVars
<1>1. CASE ClientLeaves(s)
  BY <1>1 DEF ClientLeaves
<1>2. ASSUME NEW t \in 1..MaxClock, ConnectStream(s, t) PROVE TypeOK'
  BY <1>2 DEF ConnectStream
<1> QED
  BY <1>1, <1>2

\* Every step keeps the types.
LEMMA NextTypeOK == TypeOK /\ [Next]_vars => TypeOK'
<1> SUFFICES ASSUME TypeOK, [Next]_vars PROVE TypeOK'
  OBVIOUS
<1>1. CASE UNCHANGED vars
  BY <1>1 DEF vars, TypeOK
<1>2. CASE Next
  BY <1>2, HandlerTypeOK, SendTypeOK, ClientTypeOK DEF Next, Environment
<1> QED
  BY <1>1, <1>2

\* TypeCorrect: the signal server's state stays well-typed.
THEOREM TypeCorrect == Spec => []TypeOK
<1>1. Init => TypeOK
  BY InitTypeOK
<1>2. TypeOK /\ [Next]_vars => TypeOK'
  BY NextTypeOK
<1> QED
  BY <1>1, <1>2, PTL DEF Spec

-----------------------------------------------------------------------------
(* The registry: the inductive invariant.  One lemma per part, one step per *)
(* action that can disturb it.                                              *)

\* A step of Register or Deregister leaves every entry with a registered stream of its id.
LEMMA EntryOKStep ==
  ASSUME IInv, NEW s \in Streams, HandlerStep(s)
  PROVE  EntryOK'
<1> USE SignalAssumption DEF IInv, TypeOK, EntryOK, Serving, msgVars
<1>1. CASE Register(s)
  BY <1>1 DEF Register, IsNewer
<1>2. CASE Swap(s)
  BY <1>2 DEF Swap, EntryUnchanged
<1>3. CASE CancelOld(s) \/ CountPeer(s)
  BY <1>3 DEF CancelOld, CountPeer
<1>4. CASE ListenForMessages(s)
  BY <1>4 DEF ListenForMessages
<1>5. CASE SendHeader(s) \/ Serve(s)
  BY <1>5 DEF SendHeader, Serve
<1>6. CASE Deregister(s)
  BY <1>6 DEF Deregister, IsRegistered
<1>7. CASE UncountPeer(s)
  BY <1>7 DEF UncountPeer
<1> QED
  BY <1>1, <1>2, <1>3, <1>4, <1>5, <1>6, <1>7 DEF HandlerStep

\* A stream about to swap has seen an entry that is older than itself.
LEMMA SeenIsOlderStep ==
  ASSUME IInv, NEW s \in Streams, HandlerStep(s)
  PROVE  SeenIsOlder'
<1> USE SignalAssumption DEF IInv, TypeOK, SeenIsOlder, msgVars
<1>1. CASE Register(s)
  BY <1>1 DEF Register, IsNewer, EntryOK, Serving
<1>2. CASE Swap(s)
  BY <1>2 DEF Swap, EntryUnchanged
<1>3. CASE CancelOld(s) \/ CountPeer(s)
  BY <1>3 DEF CancelOld, CountPeer
<1>4. CASE ListenForMessages(s)
  BY <1>4 DEF ListenForMessages
<1>5. CASE SendHeader(s) \/ Serve(s)
  BY <1>5 DEF SendHeader, Serve
<1>6. CASE Deregister(s)
  BY <1>6 DEF Deregister, IsRegistered
<1>7. CASE UncountPeer(s)
  BY <1>7 DEF UncountPeer
<1> QED
  BY <1>1, <1>2, <1>3, <1>4, <1>5, <1>6, <1>7 DEF HandlerStep

\* A step of Register or Deregister leaves no replaced stream uncancelled.
LEMMA SupersededStep ==
  ASSUME IInv, NEW s \in Streams, HandlerStep(s)
  PROVE  SupersededIsCancelled'
<1> USE SignalAssumption DEF IInv, TypeOK, SupersededIsCancelled, Serving, msgVars
<1>1. CASE Register(s)
  BY <1>1 DEF Register, IsNewer
<1>2. CASE Swap(s)
  BY <1>2 DEF Swap, EntryUnchanged
<1>3. CASE CancelOld(s)
  BY <1>3 DEF CancelOld, SeenIsOlder
<1>4. CASE CountPeer(s)
  BY <1>4 DEF CountPeer
<1>5. CASE ListenForMessages(s)
  BY <1>5 DEF ListenForMessages
<1>6. CASE SendHeader(s) \/ Serve(s)
  BY <1>6 DEF SendHeader, Serve
<1>7. CASE Deregister(s)
  BY <1>7 DEF Deregister, IsRegistered
<1>8. CASE UncountPeer(s)
  BY <1>8 DEF UncountPeer
<1> QED
  BY <1>1, <1>2, <1>3, <1>4, <1>5, <1>6, <1>7, <1>8 DEF HandlerStep
\* Clients and senders leave the registry alone; a timeout only cancels.
LEMMA EnvironmentStep ==
  ASSUME IInv, Environment \/ (\E m \in Messages : SendStep(m)) \/ UNCHANGED vars
  PROVE  EntryOK' /\ SeenIsOlder' /\ SupersededIsCancelled'
<1> USE SignalAssumption
        DEF IInv, TypeOK, EntryOK, SeenIsOlder, SupersededIsCancelled, Serving,
            regVars, msgVars
<1>1. CASE UNCHANGED vars
  BY <1>1 DEF vars
<1>2. ASSUME NEW s \in Streams, ClientLeaves(s)
      PROVE  EntryOK' /\ SeenIsOlder' /\ SupersededIsCancelled'
  BY <1>2 DEF ClientLeaves
<1>3. ASSUME NEW s \in Streams, NEW t \in 1..MaxClock, ConnectStream(s, t)
      PROVE  EntryOK' /\ SeenIsOlder' /\ SupersededIsCancelled'
  <2> USE <1>3 DEF ConnectStream
  <2>1. EntryOK'
    OBVIOUS
  <2>2. SeenIsOlder'
    OBVIOUS
  <2>3. SupersededIsCancelled'
    OBVIOUS
  <2> QED
    BY <2>1, <2>2, <2>3
<1>4. ASSUME NEW m \in Messages, Send(m) \/ SendStep(m) \/ WriteOk(m)
      PROVE  EntryOK' /\ SeenIsOlder' /\ SupersededIsCancelled'
  <2>1. CASE SendTimeout(m)
    BY <2>1 DEF SendTimeout
  <2>2. CASE ~SendTimeout(m)
    <3>1. UNCHANGED regVars
      BY <1>4, <2>2 DEF Send, SendStep, WriteOk, Forward, LockSend, WriteFails,
                        SendResult, PeerDisconnected
    <3> QED
      BY <3>1
  <2> QED
    BY <2>1, <2>2
<1> QED
  BY <1>1, <1>2, <1>3, <1>4 DEF Environment

\* IInv holds at the start.
LEMMA InitIInv == Init => IInv
  BY InitTypeOK DEF Init, IInv, EntryOK, SeenIsOlder, SupersededIsCancelled, Serving

\* Every step of the signal server keeps IInv.
LEMMA NextIInv == IInv /\ [Next]_vars => IInv'
<1> SUFFICES ASSUME IInv, [Next]_vars PROVE IInv'
  OBVIOUS
<1>1. TypeOK'
  BY NextTypeOK DEF IInv
<1>2. EntryOK' /\ SeenIsOlder' /\ SupersededIsCancelled'
  BY EntryOKStep, SeenIsOlderStep, SupersededStep, EnvironmentStep DEF Next
<1> QED
  BY <1>1, <1>2 DEF IInv

\* IInv is an invariant of the signal server.
LEMMA Invariance == Spec => []IInv
  BY InitIInv, NextIInv, PTL DEF Spec

\* Superseded: a stream that lost its registry entry to a newer one has been
\* cancelled or is about to be, however registrations of an id interleave.
THEOREM Superseded == Spec => []SupersededIsCancelled
<1>1. IInv => SupersededIsCancelled
  BY DEF IInv
<1> QED
  BY <1>1, Invariance, PTL

\* NewerReplaces: a registered stream is only ever replaced by a newer one.
THEOREM NewerReplaces == Spec => ReplacedByNewer
<1> DEFINE Newer ==
      \A i \in Ids :
        (registry[i] # NoStream /\ registry'[i] \notin {NoStream, registry[i]})
        => streamID[registry'[i]] > streamID[registry[i]]
<1>1. IInv /\ [Next]_vars => [Newer]_vars
  <2> SUFFICES ASSUME IInv, Next PROVE Newer
    OBVIOUS
  <2> USE SignalAssumption DEF IInv, TypeOK
  <2>1. ASSUME NEW s \in Streams, Swap(s) PROVE Newer
    BY <2>1 DEF Swap, EntryUnchanged, SeenIsOlder
  <2>2. ASSUME NEW s \in Streams, Register(s) \/ Deregister(s) PROVE Newer
    BY <2>2 DEF Register, Deregister, IsRegistered
  <2>3. CASE registry' = registry
    BY <2>3
  <2>4. registry' = registry \/ \E s \in Streams : Register(s) \/ Swap(s) \/ Deregister(s)
    BY DEF Next, Environment, HandlerStep, SendStep, ConnectStream, ClientLeaves,
           CancelOld, CountPeer, ListenForMessages, SendHeader, Serve, UncountPeer,
           Send, Forward, LockSend, WriteOk, WriteFails, SendResult,
           PeerDisconnected, SendTimeout, regVars
  <2> QED
    BY <2>1, <2>2, <2>3, <2>4
<1> QED
  BY <1>1, Invariance, PTL DEF Spec, ReplacedByNewer

\* RegistryHoldsConnected: every registry entry has a running handler that will
\* remove it, or is of a stream whose ListenForMessages failed.
THEOREM RegistryHoldsConnected == Spec => []ConnectedOnly
<1>1. IInv => ConnectedOnly
  BY DEF IInv, EntryOK, ConnectedOnly
<1> QED
  BY <1>1, Invariance, PTL
-----------------------------------------------------------------------------
(* The ActivePeers metric.  Only four steps move one of the three sets, and *)
(* each moves the two sides of ActiveCount by the same amount.              *)

\* The sets that the metric is compared with are finite.
LEMMA SetsAreFinite ==
  /\ IsFiniteSet(Registered) /\ Cardinality(Registered) \in Nat
  /\ IsFiniteSet(Counting) /\ Cardinality(Counting) \in Nat
  /\ IsFiniteSet(Uncounting) /\ Cardinality(Uncounting) \in Nat
<1>1. Registered \subseteq Ids /\ Counting \subseteq Streams /\ Uncounting \subseteq Streams
  BY DEF Registered, Counting, Uncounting
<1>2. IsFiniteSet(Registered) /\ IsFiniteSet(Counting) /\ IsFiniteSet(Uncounting)
  BY <1>1, SignalAssumption, FS_Subset
<1> QED
  BY <1>2, FS_CardinalityType

\* Register and Deregister count an id exactly when they add or remove it.
LEMMA ActiveStep ==
  ASSUME IInv, ActiveCount, NEW s \in Streams, HandlerStep(s)
  PROVE  ActiveCount'
<1> USE SignalAssumption DEF IInv, TypeOK
<1>0. active \in Int
  OBVIOUS
<1>1. CASE Register(s) /\ registry[IdOf[s]] = NoStream
  <2>1. Registered' = Registered \cup {IdOf[s]} /\ IdOf[s] \notin Registered
    BY <1>1 DEF Register, Registered
  <2>2. Counting' = Counting \cup {s} /\ s \notin Counting
    BY <1>1 DEF Register, Counting
  <2>3. Uncounting' = Uncounting /\ active' = active
    BY <1>1 DEF Register, Uncounting
  <2>4. /\ Cardinality(Registered') = Cardinality(Registered) + 1
        /\ Cardinality(Counting') = Cardinality(Counting) + 1
    BY <2>1, <2>2, SetsAreFinite, FS_AddElement
  <2> QED
    BY <1>0, <2>3, <2>4, SetsAreFinite DEF ActiveCount
<1>2. CASE CountPeer(s)
  <2>1. Counting' = Counting \ {s} /\ s \in Counting
    BY <1>2 DEF CountPeer, Counting
  <2>2. Registered' = Registered /\ Uncounting' = Uncounting /\ active' = active + 1
    BY <1>2 DEF CountPeer, Uncounting, Registered
  <2>3. Cardinality(Counting') = Cardinality(Counting) - 1
    BY <2>1, SetsAreFinite, FS_RemoveElement
  <2> QED
    BY <1>0, <2>2, <2>3, SetsAreFinite DEF ActiveCount
<1>3. CASE Deregister(s) /\ registry[IdOf[s]] = s
  <2>1. Registered' = Registered \ {IdOf[s]} /\ IdOf[s] \in Registered
    BY <1>3 DEF Deregister, IsRegistered, Registered
  <2>2. Uncounting' = Uncounting \cup {s} /\ s \notin Uncounting
    BY <1>3 DEF Deregister, IsRegistered, Uncounting
  <2>3. Counting' = Counting /\ active' = active
    BY <1>3 DEF Deregister, IsRegistered, Counting
  <2>4. Cardinality(Registered') = Cardinality(Registered) - 1
    BY <2>1, SetsAreFinite, FS_RemoveElement
  <2>5. Cardinality(Uncounting') = Cardinality(Uncounting) + 1
    BY <2>2, SetsAreFinite, FS_AddElement
  <2> QED
    BY <1>0, <2>3, <2>4, <2>5, SetsAreFinite DEF ActiveCount
<1>4. CASE UncountPeer(s)
  <2>1. Uncounting' = Uncounting \ {s} /\ s \in Uncounting
    BY <1>4 DEF UncountPeer, Uncounting
  <2>2. Registered' = Registered /\ Counting' = Counting /\ active' = active - 1
    BY <1>4 DEF UncountPeer, Counting, Registered
  <2>3. Cardinality(Uncounting') = Cardinality(Uncounting) - 1
    BY <2>1, SetsAreFinite, FS_RemoveElement
  <2> QED
    BY <1>0, <2>2, <2>3, SetsAreFinite DEF ActiveCount
<1>5. CASE \/ Register(s) /\ registry[IdOf[s]] # NoStream
           \/ Deregister(s) /\ registry[IdOf[s]] # s
           \/ Swap(s) \/ CancelOld(s) \/ ListenForMessages(s)
           \/ SendHeader(s) \/ Serve(s)
  <2>1. Registered' = Registered
    BY <1>5 DEF Registered, Register, Deregister, IsRegistered, Swap, EntryUnchanged,
                SeenIsOlder, CancelOld,
                ListenForMessages, SendHeader, Serve
  <2>2. Counting' = Counting
    BY <1>5 DEF Counting, Register, Deregister, IsRegistered, Swap, CancelOld,
                ListenForMessages, SendHeader, Serve
  <2>3. Uncounting' = Uncounting
    BY <1>5 DEF Uncounting, Register, Deregister, IsRegistered, Swap, CancelOld,
                ListenForMessages, SendHeader, Serve
  <2>4. active' = active
    BY <1>5 DEF Register, Deregister, IsRegistered, Swap, CancelOld, ListenForMessages, SendHeader, Serve
  <2> QED
    BY <2>1, <2>2, <2>3, <2>4 DEF ActiveCount
<1> QED
  BY <1>1, <1>2, <1>3, <1>4, <1>5 DEF HandlerStep

\* Clients and messages leave the registry and the metric alone.
LEMMA ActiveUnmoved ==
  ASSUME IInv, ActiveCount,
         Environment \/ (\E m \in Messages : SendStep(m)) \/ UNCHANGED vars
  PROVE  ActiveCount'
<1>1. registry' = registry /\ active' = active
  BY DEF Environment, ConnectStream, ClientLeaves, Send, WriteOk, SendStep, Forward,
         LockSend, WriteFails, SendResult, PeerDisconnected, SendTimeout, regVars, vars
<1>2. \/ step' = step
      \/ \E s \in Streams : step[s] = "idle" /\ step' = [step EXCEPT ![s] = "register"]
  BY DEF Environment, ConnectStream, ClientLeaves, Send, WriteOk, SendStep, Forward,
         LockSend, WriteFails, SendResult, PeerDisconnected, SendTimeout, regVars, vars
<1>3. Registered' = Registered
  BY <1>1 DEF Registered
<1>4. Counting' = Counting /\ Uncounting' = Uncounting
  BY <1>2 DEF Counting, Uncounting, IInv, TypeOK
<1> QED
  BY <1>1, <1>3, <1>4 DEF ActiveCount

\* MetricIsExact: the ActivePeers metric counts the registered ids, up to
\* updates still to come, under any interleaving of registrations.
THEOREM MetricIsExact == Spec => []ActiveCount
<1>1. Init => ActiveCount
  <2> SUFFICES ASSUME Init PROVE ActiveCount
    OBVIOUS
  <2>1. Registered = {} /\ Counting = {} /\ Uncounting = {}
    BY DEF Init, Registered, Counting, Uncounting
  <2> QED
    BY <2>1, FS_EmptySet DEF Init, ActiveCount
<1>2. IInv /\ ActiveCount /\ [Next]_vars => ActiveCount'
  BY ActiveStep, ActiveUnmoved DEF Next
<1> QED
  BY <1>1, <1>2, Invariance, PTL DEF Spec

-----------------------------------------------------------------------------
(* Where messages go. *)

\* ForwardedWell: forwardMessageToPeer sends only to a stream that registered with the id
\* the message is for, one message at a time on a stream (sendMu); it reports a failed
\* send only of a stream that is over, and a timeout only once the stream is cancelled.
ForwardedWell ==
    \A m \in Messages :
        /\ dst[m] # NoStream => IdOf[dst[m]] = Dest[m] /\ step[dst[m]] \notin {"idle", "register", "swap"}
        /\ fwd[m] = "failed" => ended[dst[m]]
        /\ fwd[m] = "timeout" => cancelled[dst[m]]
        /\ wr[m] = "writing" => \A n \in Messages : wr[n] = "writing" /\ dst[n] = dst[m] => n = m

\* A write that failed is one on a stream that is over.
ForwardInv == ForwardedWell /\ \A m \in Messages : wr[m] = "error" => ended[dst[m]]

\* The handlers of streams go on, end and are cancelled; they take nothing of it back.
LEMMA ForwardUnmoved ==
  ASSUME IInv, ForwardInv, UNCHANGED <<fwd, dst, wr>>,
         \A s \in Streams : /\ step[s] \notin {"idle", "register", "swap"}
                               => step'[s] \notin {"idle", "register", "swap"}
                            /\ ended[s] => ended'[s]
                            /\ cancelled[s] => cancelled'[s]
  PROVE  ForwardInv'
<1>1. \A m \in Messages : /\ dst[m] \in Streams \cup {NoStream}
                          /\ fwd[m] \in {"failed", "timeout"} \/ wr[m] = "error" => dst[m] \in Streams
  BY DEF IInv, TypeOK
<1> QED
  BY <1>1 DEF ForwardInv, ForwardedWell

LEMMA HandlerForward ==
  ASSUME IInv, ForwardInv, NEW s \in Streams,
         HandlerStep(s) \/ ClientLeaves(s) \/ \E t \in 1..MaxClock : ConnectStream(s, t)
  PROVE  ForwardInv'
<1> USE DEF IInv, TypeOK
<1>1. UNCHANGED <<fwd, dst, wr>>
  BY DEF HandlerStep, ConnectStream, ClientLeaves, Register, Swap, CancelOld, CountPeer,
         ListenForMessages, SendHeader, Serve, Deregister, UncountPeer, msgVars
<1>2. \A t \in Streams : step[t] \notin {"idle", "register", "swap"}
                         => step'[t] \notin {"idle", "register", "swap"}
  BY DEF HandlerStep, ConnectStream, ClientLeaves, Register, Swap, CancelOld, CountPeer,
         ListenForMessages, SendHeader, Serve, Deregister, UncountPeer
<1>3. \A t \in Streams : ended[t] => ended'[t]
  BY DEF HandlerStep, ConnectStream, ClientLeaves, Register, Swap, CancelOld, CountPeer,
         ListenForMessages, SendHeader, Serve, Deregister, UncountPeer
<1>4. \A t \in Streams : cancelled[t] => cancelled'[t]
  BY DEF HandlerStep, ConnectStream, ClientLeaves, Register, Swap, CancelOld, CountPeer,
         ListenForMessages, SendHeader, Serve, Deregister, UncountPeer
<1> QED
  BY <1>1, <1>2, <1>3, <1>4, ForwardUnmoved

\* The steps of Send: the stream is the one the registry holds for the id at that time.
LEMMA SendForward ==
  ASSUME IInv, ForwardInv, NEW m \in Messages, Send(m) \/ SendStep(m) \/ WriteOk(m)
  PROVE  ForwardInv'
<1> USE SignalAssumption DEF IInv, TypeOK, ForwardInv, ForwardedWell, regVars
<1>1. CASE Send(m)
  BY <1>1 DEF Send
<1>2. CASE Forward(m)
  <2>1. Dest[m] \in Ids /\ wr[m] = "none" /\ UNCHANGED <<step, ended, cancelled>>
    BY <1>2 DEF Forward
  <2>2. registry[Dest[m]] # NoStream
        => /\ IdOf[registry[Dest[m]]] = Dest[m]
           /\ step[registry[Dest[m]]] \notin {"idle", "register", "swap"}
    BY <2>1 DEF EntryOK, Serving
  <2>3. /\ fwd'[m] \in {"dropped", "sending"} /\ wr'[m] \in {"none", "wait"}
        /\ dst'[m] = registry[Dest[m]]
        /\ \A n \in Messages : n # m => fwd'[n] = fwd[n] /\ wr'[n] = wr[n] /\ dst'[n] = dst[n]
    BY <1>2, <2>1 DEF Forward
  <2> QED
    BY <2>1, <2>2, <2>3
<1>3. CASE LockSend(m)
  BY <1>3 DEF LockSend
<1>4. CASE WriteOk(m) \/ WriteFails(m)
  BY <1>4 DEF WriteOk, WriteFails
<1>5. CASE SendResult(m) \/ PeerDisconnected(m)
  BY <1>5 DEF SendResult, PeerDisconnected
<1>6. CASE SendTimeout(m)
  <2>1. /\ fwd' = [fwd EXCEPT ![m] = "timeout"] /\ cancelled' = [cancelled EXCEPT ![dst[m]] = TRUE]
        /\ UNCHANGED <<step, ended, dst, wr>> /\ dst[m] \in Streams
    BY <1>6 DEF SendTimeout
  <2>2. cancelled'[dst[m]] /\ \A s \in Streams : cancelled[s] => cancelled'[s]
    BY <2>1
  <2>3. \A n \in Messages : fwd[n] = "timeout" => dst[n] \in Streams
    OBVIOUS
  <2> QED
    BY <2>1, <2>2, <2>3
<1> QED
  BY <1>1, <1>2, <1>3, <1>4, <1>5, <1>6 DEF SendStep

\* MessagesGoToTheirPeer: although the registry is read twice and changes in between, and
\* streams of the id replace one another meanwhile, no message is sent to another peer's
\* stream, and Send's error and timeout returns mean what they say of that stream.
THEOREM MessagesGoToTheirPeer == Spec => []ForwardedWell
<1>1. Init => ForwardInv
  BY DEF Init, ForwardInv, ForwardedWell
<1>2. IInv /\ ForwardInv /\ [Next]_vars => ForwardInv'
  <2> SUFFICES ASSUME IInv, ForwardInv, [Next]_vars PROVE ForwardInv'
    OBVIOUS
  <2>1. CASE UNCHANGED vars
    BY <2>1, ForwardUnmoved DEF vars
  <2> QED
    BY <2>1, HandlerForward, SendForward DEF Next, Environment
<1>3. ForwardInv => ForwardedWell
  BY DEF ForwardInv
<1> QED
  BY <1>1, <1>2, <1>3, Invariance, PTL DEF Spec
===============================================================================
