--------------------------- MODULE ManagementProofs ---------------------------
(***************************************************************************)
(* Proofs about two of the parts MCManagement puts side by side: the       *)
(* request buffer and the handler of a stream's updates, for every set of  *)
(* callers and every number of writes and updates.  The job manager has    *)
(* JobManagerProofs.                                                       *)
(***************************************************************************)
EXTENDS MCManagement, TLAPS, SequenceTheorems

\* The provers that a leaf which names none is tried with, in turn.
USE ZenonT(4), SMTT(10), ZenonT(30), SMTT(30)

-----------------------------------------------------------------------------
(* The request buffer.  FreshData is about the channels, but what makes it  *)
(* true happens two steps earlier: no caller joins a batch after the fetch  *)
(* has started.  FetchedIsFresh says so of the batches, and IdleIsFree that *)
(* a caller that has not asked yet is in none.                              *)

\* What was asked is not newer than the resource.
AskedIsPast == \A c \in Callers : asked[c] <= resource

\* A caller that has not called Get is nowhere, and has opened no window.
IdleIsFree ==
    \A c \in Callers : caller[c] = "idle" =>
        c \notin waiting /\ answer[c] = {} /\ \A f \in Callers : c \notin batch[f]

\* A window is opened once, by the caller that found the map empty.
OpensOnce == \A c \in Callers : caller[c] \in {"idle", "arm"} => flush[c] = "none"

\* Only a flush that fetches or replies has a batch.
BatchIsServed == \A f \in Callers : flush[f] \in {"none", "window", "done"} => batch[f] = {}

\* What a flush has fetched is fresh for everybody in its batch.
FetchedIsFresh ==
    \A f \in Callers : flush[f] = "reply" => \A c \in batch[f] : value[f] >= asked[c]

\* Nobody who waits in the window has an answer.
WaitingIsEmpty == \A c \in waiting : answer[c] = {}

IInv ==
    /\ TypeOK /\ AskedIsPast /\ IdleIsFree /\ OpensOnce /\ BatchIsServed
    /\ FetchedIsFresh /\ WaitingIsEmpty /\ FreshData /\ OneBatch

-----------------------------------------------------------------------------
\* IInv holds at the start.
LEMMA InitIInv == Init => IInv
  BY BufferAssumption
  DEF Init, IInv, TypeOK, Values, AskedIsPast, IdleIsFree, OpensOnce, BatchIsServed,
      FetchedIsFresh, WaitingIsEmpty, FreshData, OneBatch

\* Every step keeps the types.
LEMMA TypeStep ==
  ASSUME TypeOK, [Next]_vars
  PROVE  TypeOK'
<1> USE BufferAssumption DEF TypeOK, Values
<1>1. CASE UNCHANGED vars
  BY <1>1 DEF vars
<1>2. CASE Write
  BY <1>2 DEF Write
<1>3. ASSUME NEW c \in Callers, Get(c) PROVE TypeOK'
  BY <1>3 DEF Get
<1>4. ASSUME NEW c \in Callers, AfterFunc(c) \/ Receive(c) \/ Cancel(c) PROVE TypeOK'
  BY <1>4 DEF AfterFunc, Receive, Cancel
<1>5. ASSUME NEW f \in Callers, TakeBatch(f) PROVE TypeOK'
  BY <1>5 DEF TakeBatch
<1>6. ASSUME NEW f \in Callers, Fetch(f) \/ Flushed(f) PROVE TypeOK'
  BY <1>6 DEF Fetch, Flushed
<1>7. ASSUME NEW f \in Callers, NEW c \in Callers, Reply(f, c) PROVE TypeOK'
  BY <1>7 DEF Reply, Room
<1> QED
  BY <1>1, <1>2, <1>3, <1>4, <1>5, <1>6, <1>7 DEF Next, FlushStep

\* The callers' side: a new caller joins the window only.
LEMMA CallerStep ==
  ASSUME IInv, NEW c \in Callers, Write \/ Get(c) \/ AfterFunc(c) \/ Receive(c) \/ Cancel(c), TypeOK'
  PROVE  IInv'
<1> USE BufferAssumption DEF IInv, TypeOK, Values
<1>1. CASE Write
  BY <1>1 DEF Write, AskedIsPast, IdleIsFree, OpensOnce, BatchIsServed,
      FetchedIsFresh, WaitingIsEmpty, FreshData, OneBatch
<1>2. CASE Get(c)
  <2> USE <1>2 DEF Get
  <2>1. AskedIsPast'
    BY DEF AskedIsPast
  <2>2. c \notin waiting /\ answer[c] = {} /\ \A f \in Callers : c \notin batch[f]
    BY DEF IdleIsFree
  <2>3. IdleIsFree'
    BY DEF IdleIsFree
  <2>4. OpensOnce' /\ BatchIsServed'
    BY DEF OpensOnce, BatchIsServed
  <2>5. FetchedIsFresh' /\ FreshData'
    BY <2>2 DEF FetchedIsFresh, FreshData
  <2>6. WaitingIsEmpty' /\ OneBatch'
    BY <2>2 DEF WaitingIsEmpty, OneBatch
  <2> QED
    BY <2>1, <2>3, <2>4, <2>5, <2>6
<1>3. CASE AfterFunc(c)
  BY <1>3 DEF AfterFunc, AskedIsPast, IdleIsFree, OpensOnce, BatchIsServed,
      FetchedIsFresh, WaitingIsEmpty, FreshData, OneBatch
<1>4. CASE Receive(c) \/ Cancel(c)
  BY <1>4 DEF Receive, Cancel, AskedIsPast, IdleIsFree, OpensOnce, BatchIsServed,
      FetchedIsFresh, WaitingIsEmpty, FreshData, OneBatch
<1> QED
  BY <1>1, <1>2, <1>3, <1>4

\* The flush: it empties the window before it reads the resource.
LEMMA FlushPreserves ==
  ASSUME IInv, NEW f \in Callers, FlushStep(f), TypeOK'
  PROVE  IInv'
<1> USE BufferAssumption DEF IInv, TypeOK, Values
<1>1. CASE TakeBatch(f)
  <2> USE <1>1 DEF TakeBatch
  <2>1. batch[f] = {} /\ flush[f] = "window"
    BY DEF BatchIsServed
  <2>2. AskedIsPast' /\ IdleIsFree' /\ OpensOnce' /\ BatchIsServed'
    BY DEF AskedIsPast, IdleIsFree, OpensOnce, BatchIsServed
  <2>3. FetchedIsFresh' /\ WaitingIsEmpty' /\ FreshData'
    BY DEF FetchedIsFresh, WaitingIsEmpty, FreshData
  <2>4. OneBatch'
    BY DEF OneBatch, WaitingIsEmpty
  <2> QED
    BY <2>2, <2>3, <2>4
<1>2. CASE Fetch(f)
  BY <1>2 DEF Fetch, AskedIsPast, IdleIsFree, OpensOnce, BatchIsServed,
      FetchedIsFresh, WaitingIsEmpty, FreshData, OneBatch
<1>3. ASSUME NEW c \in Callers, Reply(f, c) PROVE IInv'
  <2> USE <1>3 DEF Reply
  <2>1. AskedIsPast' /\ OpensOnce' /\ BatchIsServed' /\ FetchedIsFresh'
    BY DEF AskedIsPast, OpensOnce, BatchIsServed, FetchedIsFresh
  <2>2. c \notin waiting /\ \A g \in Callers : g # f => c \notin batch[g]
    BY DEF OneBatch
  <2>3. IdleIsFree' /\ WaitingIsEmpty'
    BY <2>2 DEF IdleIsFree, WaitingIsEmpty
  <2>4. value[f] >= asked[c]
    BY DEF FetchedIsFresh
  <2>5. FreshData'
    BY <2>4 DEF FreshData
  <2>6. OneBatch'
    BY <2>2 DEF OneBatch
  <2> QED
    BY <2>1, <2>3, <2>5, <2>6
<1>4. CASE Flushed(f)
  BY <1>4 DEF Flushed, AskedIsPast, IdleIsFree, OpensOnce, BatchIsServed,
      FetchedIsFresh, WaitingIsEmpty, FreshData, OneBatch
<1> QED
  BY <1>1, <1>2, <1>3, <1>4 DEF FlushStep

\* Get, flush, a reply and a caller that gives up keep IInv.
LEMMA NextIInv == IInv /\ [Next]_vars => IInv'
<1> SUFFICES ASSUME IInv, [Next]_vars PROVE IInv'
  OBVIOUS
<1>0. TypeOK'
  BY TypeStep DEF IInv
<1>1. CASE UNCHANGED vars
  BY <1>1 DEF vars, IInv, TypeOK, AskedIsPast, IdleIsFree, OpensOnce, BatchIsServed,
      FetchedIsFresh, WaitingIsEmpty, FreshData, OneBatch
<1>2. CASE Write
  <2>1. CASE Callers = {}
    BY <1>0, <1>2, <2>1 DEF Write, IInv, AskedIsPast, IdleIsFree, OpensOnce, BatchIsServed,
      FetchedIsFresh, WaitingIsEmpty, FreshData, OneBatch, TypeOK
  <2>2. CASE Callers # {}
    BY <1>0, <1>2, <2>2, CallerStep
  <2> QED
    BY <2>1, <2>2
<1>3. ASSUME NEW c \in Callers, Get(c) \/ AfterFunc(c) \/ Receive(c) \/ Cancel(c) \/ FlushStep(c)
      PROVE  IInv'
  BY <1>0, <1>3, CallerStep, FlushPreserves
<1> QED
  BY <1>1, <1>2, <1>3 DEF Next

-----------------------------------------------------------------------------
\* IInv is an invariant of the request buffer; the two theorems below follow from it.
THEOREM Invariance == Spec => []IInv
  BY InitIInv, NextIInv, PTL DEF Spec

\* CallersGetFreshData: no caller of Buffer.Get is given data that was read
\* before its own request, however callers, flushes and writes interleave.
THEOREM CallersGetFreshData == Spec => []FreshData
<1>1. IInv => FreshData
  BY DEF IInv
<1> QED
  BY <1>1, Invariance, PTL

\* CallersAreServedOnce: a caller is in the window or in one batch, and while it
\* is there its channel has room for the value, so a flush never blocks.
THEOREM CallersAreServedOnce == Spec => []OneBatch
<1>1. IInv => OneBatch
  BY DEF IInv
<1> QED
  BY <1>1, Invariance, PTL

-----------------------------------------------------------------------------
(* Nobody is forgotten: the state CallersReturn rests on.                   *)

\* A window with callers in it has a timer, or a caller that is about to start it.
WindowIsTimed == waiting # {} => \E f \in Callers : caller[f] = "arm" \/ flush[f] = "window"

\* A caller of Get that waits is in the window, in the batch of a flush that is still
\* to answer it, or has its answer.
CallerIsHeld ==
    \A c \in Callers : caller[c] \in {"arm", "select"} =>
        \/ c \in waiting
        \/ \E f \in Callers : flush[f] \in {"fetch", "reply"} /\ c \in batch[f]
        \/ answer[c] # {}

\* Every step hands a waiting caller on: from the window to a batch to its channel.
LEMMA HeldStep ==
  ASSUME TypeOK, OpensOnce, BatchIsServed, WindowIsTimed, CallerIsHeld, [Next]_vars
  PROVE  WindowIsTimed' /\ CallerIsHeld'
<1> USE DEF TypeOK, WindowIsTimed, CallerIsHeld
<1>1. CASE UNCHANGED vars
  BY <1>1 DEF vars
<1>2. CASE Write
  BY <1>2 DEF Write
<1>3. ASSUME NEW c \in Callers, Get(c) PROVE WindowIsTimed' /\ CallerIsHeld'
  <2>1. WindowIsTimed'
    BY <1>3 DEF Get, First
  <2>2. CallerIsHeld'
    BY <1>3 DEF Get
  <2> QED
    BY <2>1, <2>2
<1>4. ASSUME NEW c \in Callers, AfterFunc(c) PROVE WindowIsTimed' /\ CallerIsHeld'
  <2>1. WindowIsTimed'
    BY <1>4 DEF AfterFunc
  <2>2. flush[c] = "none"
    BY <1>4 DEF AfterFunc, OpensOnce
  <2>3. CallerIsHeld'
    BY <1>4, <2>2 DEF AfterFunc
  <2> QED
    BY <2>1, <2>3
<1>5. ASSUME NEW c \in Callers, Receive(c) \/ Cancel(c) PROVE WindowIsTimed' /\ CallerIsHeld'
  BY <1>5 DEF Receive, Cancel
<1>6. ASSUME NEW f \in Callers, TakeBatch(f) PROVE WindowIsTimed' /\ CallerIsHeld'
  BY <1>6 DEF TakeBatch, BatchIsServed
<1>7. ASSUME NEW f \in Callers, Fetch(f) \/ Flushed(f) PROVE WindowIsTimed' /\ CallerIsHeld'
  BY <1>7 DEF Fetch, Flushed
<1>8. ASSUME NEW f \in Callers, NEW c \in Callers, Reply(f, c) PROVE WindowIsTimed' /\ CallerIsHeld'
  BY <1>8 DEF Reply
<1> QED
  BY <1>1, <1>2, <1>3, <1>4, <1>5, <1>6, <1>7, <1>8 DEF Next, FlushStep

\* NobodyIsForgotten: at every moment a caller that waits in Get is in a window that
\* has a timer, in the batch of a flush that will answer it, or has its answer,
\* although callers join, give up and open new windows while older flushes run.
\* With CallersAreServedOnce no flush waits either, so under the fairness of the
\* scheduler every call returns.
THEOREM NobodyIsForgotten == Spec => [](WindowIsTimed /\ CallerIsHeld)
<1>1. Init => WindowIsTimed /\ CallerIsHeld
  BY DEF Init, WindowIsTimed, CallerIsHeld
<1>2. IInv => TypeOK /\ OpensOnce /\ BatchIsServed
  BY DEF IInv
<1>3. TypeOK /\ OpensOnce /\ BatchIsServed /\ WindowIsTimed /\ CallerIsHeld /\ [Next]_vars
      => (WindowIsTimed /\ CallerIsHeld)'
  BY HeldStep
<1> QED
  BY <1>1, <1>2, <1>3, Invariance, PTL DEF Spec

-----------------------------------------------------------------------------
(* The handler of a stream's updates implements UpdateDelivery.  The two    *)
(* queues of the code, the batch it is sending and the updates it keeps     *)
(* back, are one backlog of the abstract specification: HandlerInv says     *)
(* that nothing is kept back while an update would be sent at once.         *)

\* The shape of the handler's state, and two facts about it: updates are kept back
\* only while the timer runs, and nothing is left once the handler has returned.
HandlerInv ==
    /\ received \in Seq(UD!Kinds)
    /\ pending \in Seq(Nat) /\ sending \in Seq(Nat) /\ sent \in Seq(Nat)
    /\ timer = "nil" => pending = <<>>
    /\ over => pending = <<>> /\ sending = <<>>

\* HandlerInv holds at the start.
LEMMA HandlerInit == UD!Init => HandlerInv
  BY DEF UD!Init, HandlerInv

\* Every step of the handler keeps HandlerInv.
LEMMA HandlerStep == HandlerInv /\ [UD!Next]_(UD!vars) => HandlerInv'
<1> SUFFICES ASSUME HandlerInv, [UD!Next]_(UD!vars) PROVE HandlerInv'
  OBVIOUS
<1> USE DEF HandlerInv
<1>1. ASSUME NEW kind \in UD!Kinds, UD!ProcessUpdate(kind) PROVE HandlerInv'
  <2>1. Len(received) + 1 \in Nat /\ received' \in Seq(UD!Kinds)
    BY <1>1 DEF UD!ProcessUpdate
  <2>2. sending' \in Seq(Nat)
    <3>1. <<Len(received) + 1>> \in Seq(Nat)
      BY <2>1
    <3> QED
      BY <1>1, <3>1 DEF UD!ProcessUpdate
  <2>3. pending' \in Seq(Nat)
    <3>1. /\ Append(pending, Len(received) + 1) \in Seq(Nat)
          /\ pending # <<>> => [pending EXCEPT ![Len(pending)] = Len(received) + 1] \in Seq(Nat)
      <4>1. Append(pending, Len(received) + 1) \in Seq(Nat)
        BY <2>1
      <4>2. pending # <<>> => Len(pending) \in 1..Len(pending)
        OBVIOUS
      <4>3. pending # <<>> => [pending EXCEPT ![Len(pending)] = Len(received) + 1] \in Seq(Nat)
        BY <2>1, <4>2, ExceptSeq
      <4> QED
        BY <4>1, <4>3
    <3> QED
      BY <1>1, <3>1 DEF UD!ProcessUpdate, UD!Accumulate, UD!Coalesces
  <2> QED
    BY <1>1, <2>1, <2>2, <2>3 DEF UD!ProcessUpdate
<1>2. CASE UD!TimerFires
  BY <1>2 DEF UD!TimerFires
<1>3. CASE UD!GetPendingUpdates
  BY <1>3 DEF UD!GetPendingUpdates
<1>4. CASE UD!SendUpdate
  BY <1>4 DEF UD!SendUpdate
<1>5. CASE UD!Stop
  BY <1>5 DEF UD!Stop
<1>6. CASE UNCHANGED UD!vars
  BY <1>6 DEF UD!vars
<1> QED
  BY <1>1, <1>2, <1>3, <1>4, <1>5, <1>6 DEF UD!Next

\* Every step of the handler is a step of UpdateDelivery, or changes nothing of it.
LEMMA DeliveryStep ==
  ASSUME HandlerInv, [UD!Next]_(UD!vars)
  PROVE  [UD!Delivery!Next]_(UD!Delivery!vars)
<1> USE DEF HandlerInv
<1> DEFINE backlog == sending \o pending
<1>0. backlog \in Seq(Nat)
  OBVIOUS
<1>1. ASSUME NEW kind \in UD!Kinds, UD!ProcessUpdate(kind) PROVE UD!Delivery!Receive(kind)
  <2> USE DEF UD!ProcessUpdate, UD!Accumulate, UD!Coalesces, UD!Last
  <2>1. ~over /\ sending = <<>> /\ backlog = pending
    BY <1>1
  <2>2. received' = Append(received, kind) /\ Len(received') = Len(received) + 1
    BY <1>1
  <2>3. CASE timer = "nil"
    <3>1. pending = <<>> /\ sending' = <<Len(received')>> /\ pending' = <<>>
      BY <1>1, <2>2, <2>3
    <3>2. backlog = <<>> /\ backlog' = <<Len(received')>>
      BY <2>1, <2>2, <3>1
    <3>3. backlog' = Append(backlog, Len(received'))
      BY <3>2
    <3> QED
      BY <1>1, <2>1, <3>3 DEF UD!Delivery!Receive
  <2>4. CASE timer # "nil" /\ UD!Coalesces(kind)
    <3>1. /\ sending' = <<>> /\ pending' \in Seq(Nat)
          /\ pending' = [pending EXCEPT ![Len(pending)] = Len(received')]
      BY <1>1, <2>1, <2>2, <2>4
    <3>2. backlog' = [backlog EXCEPT ![Len(backlog)] = Len(received')]
      BY <2>1, <3>1
    <3>3. backlog # <<>> /\ kind = NetworkMap /\ received[backlog[Len(backlog)]] = NetworkMap
      BY <2>1, <2>4
    <3> QED
      BY <1>1, <2>1, <3>2, <3>3 DEF UD!Delivery!Receive
  <2>5. CASE timer # "nil" /\ ~UD!Coalesces(kind)
    <3>1. sending' = <<>> /\ pending' = Append(pending, Len(received'))
      BY <1>1, <2>1, <2>2, <2>5
    <3>2. backlog' = Append(backlog, Len(received'))
      BY <2>1, <2>2, <3>1
    <3> QED
      BY <1>1, <2>1, <3>2 DEF UD!Delivery!Receive
  <2> QED
    BY <2>3, <2>4, <2>5
<1>2. CASE UD!TimerFires \/ UNCHANGED UD!vars
  BY <1>2 DEF UD!TimerFires, UD!vars, UD!Delivery!vars
<1>3. CASE UD!GetPendingUpdates
  <2>1. backlog' = backlog
    BY <1>3 DEF UD!GetPendingUpdates
  <2> QED
    BY <1>3, <2>1 DEF UD!GetPendingUpdates, UD!Delivery!vars
<1>4. CASE UD!SendUpdate
  <2>1. sending # <<>> /\ ~over
    BY <1>4 DEF UD!SendUpdate
  <2>2. backlog # <<>> /\ Head(backlog) = Head(sending) /\ Tail(backlog) = Tail(sending) \o pending
    BY <2>1
  <2> QED
    BY <1>4, <2>1, <2>2 DEF UD!SendUpdate, UD!Delivery!Next, UD!Delivery!Deliver
<1>5. CASE UD!Stop
  BY <1>5 DEF UD!Stop, UD!Delivery!Next, UD!Delivery!GiveUp
<1> QED
  BY <1>1, <1>2, <1>3, <1>4, <1>5 DEF UD!Next, UD!Delivery!Next, UD!Kinds, UD!Delivery!Kinds

\* HandlerDelivers: the handler of a stream's updates implements UpdateDelivery.
THEOREM HandlerDelivers == UD!Spec => ImplementsDelivery
<1>1. UD!Init => UD!Delivery!Init
  BY DEF UD!Init, UD!Delivery!Init
<1> QED
  BY <1>1, HandlerInit, HandlerStep, DeliveryStep, PTL DEF UD!Spec, ImplementsDelivery, UD!ImplementsDelivery, UD!Delivery!Spec

-----------------------------------------------------------------------------
(* What UpdateDelivery promises holds of the handler: r, b, s and o are the *)
(* updates received, waiting and sent, and whether the stream is over.      *)

Increasing(s) == \A i, j \in DOMAIN s : i < j => s[i] < s[j]

Superseded(i, r) ==
    r[i] = NetworkMap /\ i + 1 \in DOMAIN r /\ r[i + 1] = NetworkMap

Accounted(i, r, b, s, o) ==
    \/ \E k \in DOMAIN s : s[k] = i
    \/ \E k \in DOMAIN b : b[k] = i
    \/ Superseded(i, r)
    \/ o /\ \A k \in DOMAIN s : s[k] < i

\* What is sent comes before what waits, the last that waits is the newest, and
\* every update is accounted for.
WellDelivered(r, b, s, o) ==
    /\ r \in Seq(UD!Kinds) /\ b \in Seq(Nat) /\ s \in Seq(Nat) /\ o \in BOOLEAN
    /\ Increasing(b) /\ Increasing(s)
    /\ \A i \in DOMAIN s, j \in DOMAIN b : s[i] < b[j]
    /\ \A i \in DOMAIN s : s[i] <= Len(r)
    /\ \A i \in DOMAIN b : b[i] <= Len(r)
    /\ b # <<>> => b[Len(b)] = Len(r)
    /\ o => b = <<>>
    /\ \A i \in DOMAIN r : Accounted(i, r, b, s, o)

\* An update that is queued last keeps the delivery in order.
LEMMA QueuedWell ==
  ASSUME NEW r, NEW b, NEW s, WellDelivered(r, b, s, FALSE), NEW kind \in UD!Kinds
  PROVE  WellDelivered(Append(r, kind), Append(b, Len(r) + 1), s, FALSE)
<1> DEFINE n == Len(r) + 1
           r2 == Append(r, kind)
           b2 == Append(b, n)
<1>1. r \in Seq(UD!Kinds) /\ b \in Seq(Nat) /\ s \in Seq(Nat)
  BY DEF WellDelivered
<1>2. /\ r2 \in Seq(UD!Kinds) /\ b2 \in Seq(Nat) /\ n \in Nat
      /\ Len(r2) = n /\ DOMAIN r2 = 1..n /\ DOMAIN r = 1..(n - 1)
      /\ \A i \in 1..(n - 1) : r2[i] = r[i]
      /\ r2[n] = kind
  BY <1>1
<1>3. /\ Len(b) \in Nat /\ DOMAIN b = 1..Len(b) /\ DOMAIN b2 = 1..(Len(b) + 1)
      /\ Len(b2) = Len(b) + 1
      /\ \A i \in 1..Len(b) : b2[i] = b[i] /\ b[i] \in Nat
      /\ b2[Len(b) + 1] = n
  BY <1>1, <1>2
<1>4. /\ Len(s) \in Nat /\ DOMAIN s = 1..Len(s)
      /\ \A i \in 1..Len(s) : s[i] \in Nat
  BY <1>1
<1>5. /\ Increasing(b) /\ Increasing(s)
      /\ \A i \in DOMAIN s, j \in DOMAIN b : s[i] < b[j]
      /\ \A i \in DOMAIN s : s[i] < n
      /\ \A i \in DOMAIN b : b[i] < n
      /\ \A i \in DOMAIN r : Accounted(i, r, b, s, FALSE)
  <2>1. /\ Increasing(b) /\ Increasing(s)
        /\ \A i \in DOMAIN s, j \in DOMAIN b : s[i] < b[j]
        /\ \A i \in DOMAIN s : s[i] <= Len(r)
        /\ \A i \in DOMAIN b : b[i] <= Len(r)
        /\ \A i \in DOMAIN r : Accounted(i, r, b, s, FALSE)
    BY DEF WellDelivered
  <2>2. Len(r) \in Nat
    BY <1>1
  <2>3. (\A i \in DOMAIN s : s[i] < n) /\ (\A i \in DOMAIN b : b[i] < n)
    BY <1>3, <1>4, <2>1, <2>2
  <2> QED
    BY <2>1, <2>3
<1> HIDE DEF n, r2, b2
<1>6. Increasing(b2)
  BY <1>2, <1>3, <1>5 DEF Increasing
<1>7. \A i \in DOMAIN s, j \in DOMAIN b2 : s[i] < b2[j]
  BY <1>3, <1>5
<1>8. ASSUME NEW i \in DOMAIN r2 PROVE Accounted(i, r2, b2, s, FALSE)
  <2>1. CASE i = n
    BY <1>3, <2>1 DEF Accounted
  <2>2. CASE i # n
    <3>1. i \in DOMAIN r
      BY <1>2, <2>2
    <3>2. Superseded(i, r) => Superseded(i, r2)
      BY <1>2, <3>1 DEF Superseded
    <3>3. (\E k \in DOMAIN b : b[k] = i) => \E k \in DOMAIN b2 : b2[k] = i
      BY <1>3
    <3> QED
      BY <1>5, <3>1, <3>2, <3>3 DEF Accounted
  <2> QED
    BY <2>1, <2>2
<1>9. /\ \A i \in DOMAIN s : s[i] <= Len(r2)
      /\ \A i \in DOMAIN b2 : b2[i] <= Len(r2)
      /\ b2[Len(b2)] = Len(r2)
  BY <1>2, <1>3, <1>4, <1>5
<1>10. WellDelivered(r2, b2, s, FALSE)
  BY <1>1, <1>2, <1>5, <1>6, <1>7, <1>8, <1>9 DEF WellDelivered
<1> QED
  BY <1>10 DEF n, r2, b2

\* A network map that takes the place of one that waits leaves no gap.
LEMMA CoalescedWell ==
  ASSUME NEW r, NEW b, NEW s, WellDelivered(r, b, s, FALSE),
         b # <<>>, r[b[Len(b)]] = NetworkMap
  PROVE  WellDelivered(Append(r, NetworkMap), [b EXCEPT ![Len(b)] = Len(r) + 1], s, FALSE)
<1> DEFINE n == Len(r) + 1
           r2 == Append(r, NetworkMap)
           b2 == [b EXCEPT ![Len(b)] = n]
<1>1. r \in Seq(UD!Kinds) /\ b \in Seq(Nat) /\ s \in Seq(Nat) /\ NetworkMap \in UD!Kinds
  BY DEF WellDelivered, UD!Kinds
<1>0. /\ Len(b) \in Nat \ {0} /\ DOMAIN b = 1..Len(b)
      /\ \A i \in 1..Len(b) : b[i] \in Nat
  BY <1>1
<1>2. /\ r2 \in Seq(UD!Kinds) /\ n \in Nat
      /\ Len(r2) = n /\ DOMAIN r2 = 1..n /\ DOMAIN r = 1..(n - 1)
      /\ \A i \in 1..(n - 1) : r2[i] = r[i]
      /\ r2[n] = NetworkMap
  BY <1>1
<1>3. /\ Len(b) \in Nat \ {0} /\ DOMAIN b = 1..Len(b) /\ DOMAIN b2 = 1..Len(b)
      /\ \A i \in 1..(Len(b) - 1) : b2[i] = b[i]
      /\ \A i \in 1..Len(b) : b[i] \in Nat
      /\ b2[Len(b)] = n
  BY <1>1, <1>2
<1>a. b2 \in Seq(Nat) /\ Len(b2) = Len(b)
  <2>1. Len(b) \in 1..Len(b)
    BY <1>0
  <2> QED
    BY <1>1, <1>2, <2>1, ExceptSeq
<1>4. /\ Len(s) \in Nat /\ DOMAIN s = 1..Len(s)
      /\ \A i \in 1..Len(s) : s[i] \in Nat
  BY <1>1
<1>5. /\ Increasing(b) /\ Increasing(s)
      /\ \A i \in DOMAIN s, j \in DOMAIN b : s[i] < b[j]
      /\ \A i \in DOMAIN s : s[i] < n
      /\ \A i \in DOMAIN b : b[i] < n
      /\ b[Len(b)] = n - 1
      /\ \A i \in DOMAIN r : Accounted(i, r, b, s, FALSE)
  <2>1. /\ Increasing(b) /\ Increasing(s)
        /\ \A i \in DOMAIN s, j \in DOMAIN b : s[i] < b[j]
        /\ \A i \in DOMAIN s : s[i] <= Len(r)
        /\ \A i \in DOMAIN b : b[i] <= Len(r)
        /\ b[Len(b)] = Len(r)
        /\ \A i \in DOMAIN r : Accounted(i, r, b, s, FALSE)
    BY DEF WellDelivered
  <2>2. Len(r) \in Nat
    BY <1>1
  <2>3. /\ \A i \in DOMAIN s : s[i] < n
        /\ \A i \in DOMAIN b : b[i] < n
        /\ b[Len(b)] = n - 1
    BY <1>0, <1>4, <2>1, <2>2
  <2> QED
    BY <2>1, <2>3
<1> HIDE DEF n, r2, b2
<1>6. Increasing(b2)
  <2> SUFFICES ASSUME NEW i \in DOMAIN b2, NEW j \in DOMAIN b2, i < j PROVE b2[i] < b2[j]
    BY DEF Increasing
  <2>1. i \in 1..(Len(b) - 1) /\ b2[i] = b[i] /\ i \in DOMAIN b
    BY <1>3
  <2>2. CASE j = Len(b)
    BY <1>3, <1>5, <2>1, <2>2
  <2>3. CASE j # Len(b)
    <3>1. b2[j] = b[j] /\ j \in DOMAIN b
      BY <1>3, <2>3
    <3> QED
      BY <1>5, <2>1, <3>1 DEF Increasing
  <2> QED
    BY <2>2, <2>3
<1>7. \A i \in DOMAIN s, j \in DOMAIN b2 : s[i] < b2[j]
  BY <1>3, <1>5
<1>8. ASSUME NEW i \in DOMAIN r2 PROVE Accounted(i, r2, b2, s, FALSE)
  <2>1. CASE i = n
    BY <1>3, <2>1 DEF Accounted
  <2>2. CASE i = n - 1
    <3>1. i \in DOMAIN r /\ r[i] = NetworkMap
      BY <1>2, <1>5, <2>2
    <3> QED
      BY <1>2, <2>2, <3>1 DEF Accounted, Superseded
  <2>3. CASE i # n /\ i # n - 1
    <3>1. i \in DOMAIN r
      BY <1>2, <2>3
    <3>2. Superseded(i, r) => Superseded(i, r2)
      BY <1>2, <3>1 DEF Superseded
    <3>3. (\E k \in DOMAIN b : b[k] = i) => \E k \in DOMAIN b2 : b2[k] = i
      BY <1>3, <1>5, <2>3
    <3> QED
      BY <1>5, <3>1, <3>2, <3>3 DEF Accounted
  <2> QED
    BY <2>1, <2>2, <2>3
<1>9. /\ \A i \in DOMAIN s : s[i] <= Len(r2)
      /\ \A i \in DOMAIN b2 : b2[i] <= Len(r2)
      /\ b2[Len(b2)] = Len(r2)
  <2>1. n \in Nat /\ Len(r2) = n /\ Len(b2) = Len(b) /\ b2[Len(b)] = n
    BY <1>2, <1>3, <1>a
  <2>2. ASSUME NEW i \in DOMAIN s PROVE s[i] <= n
    BY <1>4, <1>5, <2>1
  <2>3. ASSUME NEW i \in DOMAIN b2 PROVE b2[i] <= n
    <3>1. CASE i = Len(b)
      BY <2>1, <3>1
    <3>2. CASE i # Len(b)
      <4>1. b2[i] = b[i] /\ i \in DOMAIN b /\ b[i] \in Nat
        BY <1>3, <3>2
      <4> QED
        BY <1>5, <2>1, <4>1
    <3> QED
      BY <3>1, <3>2
  <2> QED
    BY <2>1, <2>2, <2>3
<1>10. WellDelivered(r2, b2, s, FALSE)
  BY <1>1, <1>2, <1>a, <1>5, <1>6, <1>7, <1>8, <1>9 DEF WellDelivered
<1> QED
  BY <1>10 DEF n, r2, b2

\* Sending the first that waits keeps the order.
LEMMA SentWell ==
  ASSUME NEW r, NEW b, NEW s, WellDelivered(r, b, s, FALSE), b # <<>>
  PROVE  WellDelivered(r, Tail(b), Append(s, Head(b)), FALSE)
<1> DEFINE rest == Tail(b)
           gone == Append(s, Head(b))
<1>1. r \in Seq(UD!Kinds) /\ b \in Seq(Nat) /\ s \in Seq(Nat)
  BY DEF WellDelivered
<1>2. /\ Len(b) \in Nat \ {0} /\ DOMAIN b = 1..Len(b)
      /\ \A i \in 1..Len(b) : b[i] \in Nat
  BY <1>1
<1>3. /\ rest \in Seq(Nat) /\ Len(rest) = Len(b) - 1 /\ DOMAIN rest = 1..(Len(b) - 1)
      /\ \A i \in 1..(Len(b) - 1) : rest[i] = b[i + 1]
      /\ rest # <<>> => Len(b) > 1
  BY <1>1, <1>2
<1>4. /\ Len(s) \in Nat /\ DOMAIN s = 1..Len(s)
      /\ \A i \in 1..Len(s) : s[i] \in Nat
  BY <1>1
<1>5. /\ gone \in Seq(Nat) /\ DOMAIN gone = 1..(Len(s) + 1)
      /\ \A i \in 1..Len(s) : gone[i] = s[i]
      /\ gone[Len(s) + 1] = b[1]
  BY <1>1, <1>2, <1>4
<1>6. /\ Increasing(b) /\ Increasing(s)
      /\ \A i \in DOMAIN s, j \in DOMAIN b : s[i] < b[j]
      /\ \A i \in DOMAIN s : s[i] <= Len(r)
      /\ \A i \in DOMAIN b : b[i] <= Len(r)
      /\ b[Len(b)] = Len(r)
      /\ \A i \in DOMAIN r : Accounted(i, r, b, s, FALSE)
  BY DEF WellDelivered
<1> HIDE DEF rest, gone
<1>a. \A i \in DOMAIN rest : i + 1 \in DOMAIN b /\ rest[i] = b[i + 1]
  BY <1>2, <1>3
<1>b. \A i \in DOMAIN gone : \/ i \in DOMAIN s /\ gone[i] = s[i]
                             \/ i = Len(s) + 1 /\ gone[i] = b[1]
  BY <1>4, <1>5
<1>c. 1 \in DOMAIN b /\ \A i \in DOMAIN b : i > 1 => b[1] < b[i]
  BY <1>2, <1>6 DEF Increasing
<1>7. Increasing(rest)
  <2> SUFFICES ASSUME NEW i \in DOMAIN rest, NEW j \in DOMAIN rest, i < j PROVE rest[i] < rest[j]
    BY DEF Increasing
  <2>1. i + 1 \in DOMAIN b /\ j + 1 \in DOMAIN b /\ i + 1 < j + 1
    BY <1>a, <1>3
  <2>2. b[i + 1] < b[j + 1]
    BY <1>6, <2>1 DEF Increasing
  <2> QED
    BY <1>a, <2>2
<1>8. Increasing(gone)
  <2> SUFFICES ASSUME NEW i \in DOMAIN gone, NEW j \in DOMAIN gone, i < j PROVE gone[i] < gone[j]
    BY DEF Increasing
  <2>1. i \in DOMAIN s /\ gone[i] = s[i]
    BY <1>4, <1>5
  <2>2. CASE j \in DOMAIN s /\ gone[j] = s[j]
    BY <1>6, <2>1, <2>2 DEF Increasing
  <2>3. CASE gone[j] = b[1]
    BY <1>6, <1>c, <2>1, <2>3
  <2> QED
    BY <1>b, <2>2, <2>3
<1>9. \A i \in DOMAIN gone, j \in DOMAIN rest : gone[i] < rest[j]
  <2> SUFFICES ASSUME NEW i \in DOMAIN gone, NEW j \in DOMAIN rest PROVE gone[i] < rest[j]
    OBVIOUS
  <2>1. j + 1 \in DOMAIN b /\ rest[j] = b[j + 1] /\ j + 1 > 1
    BY <1>a, <1>3
  <2>2. CASE i \in DOMAIN s /\ gone[i] = s[i]
    BY <1>6, <2>1, <2>2
  <2>3. CASE gone[i] = b[1]
    BY <1>c, <2>1, <2>3
  <2> QED
    BY <1>b, <2>2, <2>3
<1>10. /\ \A i \in DOMAIN gone : gone[i] <= Len(r)
       /\ \A i \in DOMAIN rest : rest[i] <= Len(r)
       /\ rest # <<>> => rest[Len(rest)] = Len(r)
  <2>1. \A i \in DOMAIN gone : gone[i] <= Len(r)
    BY <1>6, <1>b, <1>c
  <2>2. \A i \in DOMAIN rest : rest[i] <= Len(r)
    BY <1>6, <1>a
  <2>3. rest # <<>> => rest[Len(rest)] = b[Len(b)]
    BY <1>2, <1>3
  <2> QED
    BY <1>6, <2>1, <2>2, <2>3
<1>11. ASSUME NEW i \in DOMAIN r PROVE Accounted(i, r, rest, gone, FALSE)
  <2>1. (\E k \in DOMAIN s : s[k] = i) => \E k \in DOMAIN gone : gone[k] = i
    BY <1>4, <1>5
  <2>2. ASSUME NEW k \in DOMAIN b, b[k] = i
        PROVE  (\E j \in DOMAIN gone : gone[j] = i) \/ (\E j \in DOMAIN rest : rest[j] = i)
    <3>1. CASE k = 1
      BY <1>4, <1>5, <2>2, <3>1
    <3>2. CASE k # 1
      <4>1. k - 1 \in DOMAIN rest /\ rest[k - 1] = b[k]
        BY <1>2, <1>3, <3>2
      <4> QED
        BY <2>2, <4>1
    <3> QED
      BY <3>1, <3>2
  <2> QED
    BY <1>6, <2>1, <2>2 DEF Accounted
<1>12. WellDelivered(r, rest, gone, FALSE)
  BY <1>1, <1>3, <1>5, <1>7, <1>8, <1>9, <1>10, <1>11 DEF WellDelivered
<1> QED
  BY <1>12 DEF rest, gone

\* When the stream ends, what waited comes after everything that was sent.
LEMMA DroppedWell ==
  ASSUME NEW r, NEW b, NEW s, WellDelivered(r, b, s, FALSE)
  PROVE  WellDelivered(r, <<>>, s, TRUE)
<1>1. r \in Seq(UD!Kinds) /\ b \in Seq(Nat) /\ s \in Seq(Nat)
  BY DEF WellDelivered
<1>2. /\ Increasing(s)
      /\ \A i \in DOMAIN s, j \in DOMAIN b : s[i] < b[j]
      /\ \A i \in DOMAIN s : s[i] <= Len(r)
      /\ \A i \in DOMAIN r : Accounted(i, r, b, s, FALSE)
  BY DEF WellDelivered
<1>3. \A i \in DOMAIN r : Accounted(i, r, <<>>, s, TRUE)
  BY <1>2 DEF Accounted
<1>4. <<>> \in Seq(Nat) /\ DOMAIN <<>> = {} /\ Increasing(<<>>)
  BY DEF Increasing
<1> QED
  BY <1>1, <1>2, <1>3, <1>4 DEF WellDelivered

DeliveryInv == WellDelivered(received, sending \o pending, sent, over)

\* DeliveryInv holds at the start.
LEMMA DeliveryInvInit == UD!Delivery!Init => DeliveryInv
<1> SUFFICES ASSUME UD!Delivery!Init PROVE DeliveryInv
  OBVIOUS
<1>1. received = <<>> /\ sending \o pending = <<>> /\ sent = <<>> /\ over = FALSE
  BY DEF UD!Delivery!Init
<1>2. /\ <<>> \in Seq(Nat) /\ <<>> \in Seq(UD!Kinds) /\ DOMAIN <<>> = {} /\ Increasing(<<>>)
      /\ FALSE \in BOOLEAN
  BY DEF Increasing
<1>3. WellDelivered(<<>>, <<>>, <<>>, FALSE)
  BY <1>2 DEF WellDelivered
<1> QED
  BY <1>1, <1>3 DEF DeliveryInv

\* Every step of UpdateDelivery keeps DeliveryInv.
LEMMA DeliveryInvStep ==
  ASSUME DeliveryInv, [UD!Delivery!Next]_(UD!Delivery!vars)
  PROVE  DeliveryInv'
<1> DEFINE b == sending \o pending
<1>0. over \in BOOLEAN /\ received \in Seq(UD!Kinds)
  BY DEF DeliveryInv, WellDelivered
<1>1. ASSUME NEW kind \in UD!Kinds, UD!Delivery!Receive(kind) PROVE DeliveryInv'
  <2>1. /\ over = FALSE /\ over' = FALSE /\ sent' = sent
        /\ received' = Append(received, kind) /\ Len(received') = Len(received) + 1
    BY <1>0, <1>1 DEF UD!Delivery!Receive
  <2>2. \/ b' = Append(b, Len(received) + 1)
        \/ /\ b # <<>> /\ kind = NetworkMap /\ received[b[Len(b)]] = NetworkMap
           /\ b' = [b EXCEPT ![Len(b)] = Len(received) + 1]
    BY <1>1, <2>1 DEF UD!Delivery!Receive
  <2>3. WellDelivered(received, b, sent, FALSE)
    BY <2>1 DEF DeliveryInv
  <2> HIDE DEF b
  <2>4. WellDelivered(received', b', sent', over')
    <3>1. CASE b' = Append(b, Len(received) + 1)
      BY <2>1, <2>3, <3>1, QueuedWell
    <3>2. CASE ~(b' = Append(b, Len(received) + 1))
      <4>1. /\ b # <<>> /\ kind = NetworkMap /\ received[b[Len(b)]] = NetworkMap
            /\ b' = [b EXCEPT ![Len(b)] = Len(received) + 1]
        BY <2>2, <3>2
      <4>2. WellDelivered(Append(received, NetworkMap), [b EXCEPT ![Len(b)] = Len(received) + 1],
                          sent, FALSE)
        BY <2>3, <4>1, CoalescedWell
      <4> QED
        BY <2>1, <4>1, <4>2
    <3> QED
      BY <3>1, <3>2
  <2> QED
    BY <2>4 DEF DeliveryInv, b
<1>2. CASE UD!Delivery!Deliver
  <2>1. /\ over = FALSE /\ over' = FALSE /\ received' = received
        /\ b # <<>> /\ b' = Tail(b) /\ sent' = Append(sent, Head(b))
    BY <1>0, <1>2 DEF UD!Delivery!Deliver
  <2>2. WellDelivered(received, b, sent, FALSE)
    BY <2>1 DEF DeliveryInv
  <2> HIDE DEF b
  <2>3. WellDelivered(received', b', sent', over')
    BY <2>1, <2>2, SentWell
  <2> QED
    BY <2>3 DEF DeliveryInv, b
<1>3. CASE UD!Delivery!GiveUp
  <2>1. over = FALSE /\ over' = TRUE /\ received' = received /\ sent' = sent /\ b' = <<>>
    BY <1>0, <1>3 DEF UD!Delivery!GiveUp
  <2>2. WellDelivered(received, b, sent, FALSE)
    BY <2>1 DEF DeliveryInv
  <2> HIDE DEF b
  <2>3. WellDelivered(received', b', sent', over')
    BY <2>1, <2>2, DroppedWell
  <2> QED
    BY <2>3 DEF DeliveryInv, b
<1>4. CASE UNCHANGED UD!Delivery!vars
  BY <1>4 DEF UD!Delivery!vars, DeliveryInv
<1> QED
  BY <1>1, <1>2, <1>3, <1>4 DEF UD!Delivery!Next, UD!Kinds, UD!Delivery!Kinds

\* UpdatesInOrder: updates are sent in the order they were received, none twice; and
\* each one has been sent or waits, unless it is a network map that another directly
\* follows or the stream ended before its turn.
THEOREM UpdatesInOrder == UD!Spec => [](UD!Delivery!InOrder /\ UD!Delivery!NothingLost)
<1>1. UD!Delivery!Spec => []DeliveryInv
  BY DeliveryInvInit, DeliveryInvStep, PTL DEF UD!Delivery!Spec
<1>2. DeliveryInv => UD!Delivery!InOrder /\ UD!Delivery!NothingLost
  BY DEF DeliveryInv, WellDelivered, Increasing, Accounted, Superseded,
         UD!Delivery!InOrder, UD!Delivery!NothingLost
<1>3. UD!Spec => UD!Delivery!Spec
  BY HandlerDelivers DEF ImplementsDelivery, UD!ImplementsDelivery
<1> QED
  BY <1>1, <1>2, <1>3, PTL

\* KeptBackIsTimed: updates are kept back only by a handler that still runs, under a
\* timer that runs or has fired, whether the timer raced an update in the select or
\* was reset: nothing waits for an update that need not come.
THEOREM KeptBackIsTimed == UD!Spec => [](pending # <<>> => ~over /\ timer \in {"running", "fired"})
<1> DEFINE TimerType == timer \in {"nil", "running", "fired"}
<1>1. UD!Init => TimerType
  BY DEF UD!Init
<1>2. TimerType /\ [UD!Next]_(UD!vars) => TimerType'
  BY DEF UD!Next, UD!ProcessUpdate, UD!TimerFires, UD!GetPendingUpdates, UD!SendUpdate, UD!Stop, UD!vars
<1>3. HandlerInv /\ TimerType => (pending # <<>> => ~over /\ timer \in {"running", "fired"})
  BY DEF HandlerInv
<1> QED
  BY <1>1, <1>2, <1>3, HandlerInit, HandlerStep, PTL DEF UD!Spec

-----------------------------------------------------------------------------
\* PartsBehave: what is proved of a part's own specification holds of the
\* specification that puts the parts side by side.
THEOREM PartsBehave == PartSpec => Spec /\ JM!Spec /\ UD!Spec
<1>1. PartInit => Init /\ JM!Init /\ UD!Init
  BY DEF PartInit
<1>2. [PartNext]_partVars => [Next]_vars /\ [JM!Next]_(JM!vars) /\ [UD!Next]_(UD!vars)
  BY DEF PartNext, BufferNext, JobsNext, UpdatesNext, partVars, jobVars, updateVars,
               JM!vars, UD!vars
<1> QED
  BY <1>1, <1>2, PTL DEF PartSpec, Spec, JM!Spec, UD!Spec
===============================================================================
