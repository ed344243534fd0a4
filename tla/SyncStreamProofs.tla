--------------------------- MODULE SyncStreamProofs ---------------------------
(***************************************************************************)
(* Proofs about SyncStream, for any number of streams and of changes, any  *)
(* capacity of the channels, with failing statements and with restarts.    *)
(*                                                                         *)
(* NeverClosed is about the channel that is registered.  A stream that     *)
(* registers its channel must not have had one before, which Unopened says *)
(* of every step up to OnPeerConnected.                                    *)
(*                                                                         *)
(* WholeSession and NothingLeftBehind hold for a store that does not fail. *)
(* WholeInv is the first with what the peer lock gives it: one stream at a *)
(* time between the lock and its release, and a session token that is its  *)
(* stream's own.  OwnedInv is the second: each of the channel, the refresh *)
(* and the stored status belongs to a stream whose cleanup is to come.     *)
(*                                                                         *)
(* UpdatesReachStream holds as long as no push finds the channel full      *)
(* (PushFits): Reach says where the current map is while the pushes still  *)
(* run.  Room says that a channel with room for all updates is never full. *)
(***************************************************************************)
EXTENDS SyncStream, FiniteSetTheorems, TLAPS

\* The provers that a leaf which names none is tried with, in turn.
USE ZenonT(4), SMTT(10), ZenonT(30), SMTT(30)

BeforeChannel == {"idle", "admitted", "entered", "lock", "sync", "mark", "initial", "connect"}

\* A stream that has not got to OnPeerConnected has no channel, open or closed.
Unopened == \A s \in Streams : step[s] \in BeforeChannel => s \notin closed /\ s # channel

IInv == TypeOK /\ Unopened /\ NeverClosed /\ SemBalanced

StepsOf == {"sync", "mark", "initial", "connect", "refresh", "abort", "disconnect", "close",
            "cancel", "idle", "admitted", "entered", "lock", "release", "serve", "relock", "done"}

\* The steps of a Sync call, listed.
LEMMA StepsAre == Steps = StepsOf
  BY DEF Steps, LockedSteps, StepsOf

-----------------------------------------------------------------------------
(* Types. *)

\* What SendUpdate puts into a channel keeps its type and its length.
LEMMA SendUpdateType ==
  ASSUME TypeOK, NEW update \in Nat, SendUpdate(update)
  PROVE  /\ queue' \in [Streams -> Seq(Nat)]
         /\ \A s \in Streams : Len(queue'[s]) <= ChanCap
<1> USE SyncAssumption
<1>1. CASE channel # NoStream /\ HasRoom(channel)
  <2>1. channel \in Streams /\ queue[channel] \in Seq(Nat) /\ Len(queue[channel]) < ChanCap
    BY <1>1 DEF TypeOK, HasRoom
  <2>2. queue' = [queue EXCEPT ![channel] = Append(queue[channel], update)]
    BY <1>1 DEF SendUpdate
  <2>3. Append(queue[channel], update) \in Seq(Nat)
        /\ Len(Append(queue[channel], update)) = Len(queue[channel]) + 1
    BY <2>1
  <2>4. Len(queue[channel]) + 1 <= ChanCap
    BY <2>1
  <2> QED
    BY <2>1, <2>2, <2>3, <2>4 DEF TypeOK
<1>2. CASE ~(channel # NoStream /\ HasRoom(channel))
  BY <1>2 DEF SendUpdate, TypeOK
<1> QED
  BY <1>1, <1>2

\* A step of a stream leads to a step.
LEMMA GotoType ==
  ASSUME TypeOK, NEW s \in Streams, NEW next \in Steps, Goto(s, next)
  PROVE  step' \in [Streams -> Steps]
  BY DEF TypeOK, Goto

\* The steps of a handler up to serving.
LEMMA SyncType ==
  ASSUME TypeOK, NEW s \in Streams,
         \/ CheckLimit(s) \/ \E now \in 1..MaxClock : Sync(s, now)
         \/ Validate(s) \/ LockPeer(s) \/ SyncPeer(s) \/ MarkPeerConnected(s)
         \/ SendInitialSync(s) \/ OnPeerConnected(s) \/ SetupRefresh(s) \/ Release(s)
  PROVE  TypeOK'
<1> USE SyncAssumption
<1>0. \A next \in StepsOf : Goto(s, next) => step' \in [Streams -> Steps]
  BY GotoType, StepsAre
<1>1. CASE CheckLimit(s)
  <2>1. step' \in [Streams -> Steps]
    BY <1>0, <1>1 DEF CheckLimit, StepsOf
  <2> QED
    BY <1>1, <2>1 DEF CheckLimit, TypeOK, chanVars, statusVars, mapVars, pushVars
<1>2. ASSUME NEW now \in 1..MaxClock, Sync(s, now) PROVE TypeOK'
  <2>1. step' \in [Streams -> Steps]
    BY <1>0, <1>2 DEF Sync, StepsOf
  <2>2. syncSem' \in Int /\ token' \in [Streams -> Nat]
    BY <1>2 DEF Sync, TypeOK, statusVars
  <2>3. UNCHANGED <<ended, channel, closed, queue, connected, session, refresher, listed, serial, netMap, sent, push, pushed, ticking, ticks, opened>>
    BY <1>2 DEF Sync, chanVars, statusVars, mapVars, pushVars
  <2> QED
    BY <2>1, <2>2, <2>3 DEF TypeOK
<1>3. CASE Validate(s)
  <2>1. step' \in [Streams -> Steps]
    BY <1>0, <1>3 DEF Validate, StepsOf
  <2>2. syncSem' \in Int
    BY <1>3 DEF Validate, TypeOK, statusVars
  <2>3. UNCHANGED <<token, ended, channel, closed, queue, connected, session, refresher, listed, serial, netMap, sent, push, pushed, ticking, ticks, opened>>
    BY <1>3 DEF Validate, chanVars, statusVars, mapVars, pushVars
  <2> QED
    BY <2>1, <2>2, <2>3 DEF TypeOK
<1>4. CASE LockPeer(s)
  <2>1. step' \in [Streams -> Steps]
    BY <1>0, <1>4 DEF LockPeer, StepsOf
  <2> QED
    BY <1>4, <2>1 DEF LockPeer, TypeOK, chanVars, statusVars, mapVars, pushVars
<1>5. CASE SyncPeer(s)
  <2>1. step' \in [Streams -> Steps]
    BY <1>0, <1>5 DEF SyncPeer, StepsOf
  <2>2. syncSem' \in Int /\ netMap' \in [Streams -> Nat]
    <3>1. syncSem \in Int /\ serial \in Nat /\ netMap \in [Streams -> Nat]
      BY DEF TypeOK
    <3>2. /\ syncSem' = syncSem \/ syncSem' = syncSem - 1
          /\ netMap' = netMap \/ netMap' = [netMap EXCEPT ![s] = serial]
      BY <1>5 DEF SyncPeer, statusVars
    <3> QED
      BY <3>1, <3>2
  <2>3. UNCHANGED <<token, ended, channel, closed, queue, connected, session, refresher, listed, serial, sent, push, pushed, ticking, ticks, opened>>
    BY <1>5 DEF SyncPeer, chanVars, statusVars, mapVars, pushVars
  <2> QED
    BY <2>1, <2>2, <2>3 DEF TypeOK
<1>6. CASE MarkPeerConnected(s)
  <2>1. step' \in [Streams -> Steps]
    BY <1>0, <1>6 DEF MarkPeerConnected, StepsOf
  <2>2. connected' \in BOOLEAN /\ session' \in Nat
    <3>1. connected \in BOOLEAN /\ session \in Nat /\ token[s] \in Nat
      BY DEF TypeOK
    <3>2. (connected' = TRUE /\ session' = token[s]) \/ (connected' = connected /\ session' = session)
      BY <1>6 DEF MarkPeerConnected, statusVars
    <3> QED
      BY <3>1, <3>2
  <2>3. UNCHANGED <<token, ended, syncSem, channel, closed, queue, refresher, listed, serial, netMap, sent, push, pushed, ticking, ticks, opened>>
    BY <1>6 DEF MarkPeerConnected, chanVars, statusVars, mapVars, pushVars
  <2> QED
    BY <2>1, <2>2, <2>3 DEF TypeOK
<1>7. CASE SendInitialSync(s)
  <2>1. step' \in [Streams -> Steps]
    BY <1>0, <1>7 DEF SendInitialSync, StepsOf
  <2>2. syncSem' \in Int /\ sent' \in [Streams -> Nat]
    <3>1. syncSem \in Int /\ netMap[s] \in Nat /\ sent \in [Streams -> Nat]
      BY DEF TypeOK
    <3>2. /\ syncSem' = syncSem \/ syncSem' = syncSem - 1
          /\ sent' = sent \/ sent' = [sent EXCEPT ![s] = netMap[s]]
      BY <1>7 DEF SendInitialSync, statusVars
    <3> QED
      BY <3>1, <3>2
  <2>3. UNCHANGED <<token, ended, channel, closed, queue, connected, session, refresher, listed, serial, netMap, push, pushed, ticking, ticks, opened>>
    BY <1>7 DEF SendInitialSync, chanVars, statusVars, mapVars, pushVars
  <2> QED
    BY <2>1, <2>2, <2>3 DEF TypeOK
<1>8. CASE OnPeerConnected(s)
  <2>1. step' \in [Streams -> Steps]
    BY <1>0, <1>8 DEF OnPeerConnected, StepsOf
  <2>2. /\ syncSem' \in Int /\ listed' \in BOOLEAN /\ opened' \in [Streams -> Nat]
        /\ channel' \in Streams \cup {NoStream} /\ closed' \subseteq Streams
    <3>1. /\ syncSem \in Int /\ listed \in BOOLEAN /\ opened \in [Streams -> Nat] /\ serial \in Nat
          /\ channel \in Streams \cup {NoStream} /\ closed \subseteq Streams
      BY DEF TypeOK
    <3>2. /\ syncSem' = syncSem \/ syncSem' = syncSem - 1
          /\ listed' = FALSE \/ listed' = listed
          /\ opened' = opened \/ opened' = [opened EXCEPT ![s] = serial]
          /\ channel' = s \/ channel' = channel
          /\ closed' = closed \/ (channel # NoStream /\ closed' = closed \cup {channel})
      BY <1>8 DEF OnPeerConnected, CreateChannel, statusVars
    <3>3. listed' \in BOOLEAN
      BY <3>1, <3>2
    <3> QED
      BY <3>1, <3>2, <3>3
  <2>3. UNCHANGED <<token, ended, queue, connected, session, refresher, serial, netMap, sent, push, pushed, ticking, ticks>>
    BY <1>8 DEF OnPeerConnected, CreateChannel, chanVars, statusVars, mapVars, pushVars
  <2> QED
    BY <2>1, <2>2, <2>3 DEF TypeOK
<1>9. CASE SetupRefresh(s)
  <2>1. step' \in [Streams -> Steps]
    BY <1>0, <1>9 DEF SetupRefresh, StepsOf
  <2> QED
    BY <1>9, <2>1 DEF SetupRefresh, TypeOK, chanVars, statusVars, mapVars, pushVars
<1>10. CASE Release(s)
  <2>1. step' \in [Streams -> Steps]
    BY <1>0, <1>10 DEF Release, StepsOf
  <2>2. syncSem' \in Int
    BY <1>10 DEF Release, TypeOK, statusVars
  <2>3. UNCHANGED <<token, ended, channel, closed, queue, connected, session, refresher, listed, serial, netMap, sent, push, pushed, ticking, ticks, opened>>
    BY <1>10 DEF Release, chanVars, statusVars, mapVars, pushVars
  <2> QED
    BY <2>1, <2>2, <2>3 DEF TypeOK
<1> QED
  BY <1>1, <1>2, <1>3, <1>4, <1>5, <1>6, <1>7, <1>8, <1>9, <1>10

\* Serving and the cleanup.
LEMMA ServeType ==
  ASSUME TypeOK, NEW s \in Streams,
         \/ HandleUpdate(s) \/ ChannelClosed(s) \/ StreamEnded(s)
         \/ CancelPeerRoutines(s) \/ MarkPeerDisconnected(s) \/ OnPeerDisconnected(s)
         \/ CancelRefresh(s) \/ ClientLeaves(s)
  PROVE  TypeOK'
<1> USE SyncAssumption
<1>0. \A next \in StepsOf : Goto(s, next) => step' \in [Streams -> Steps]
  BY GotoType, StepsAre
<1>1. CASE HandleUpdate(s)
  <2>1. queue[s] \in Seq(Nat) /\ queue[s] # <<>> /\ Len(queue[s]) <= ChanCap
    BY <1>1 DEF HandleUpdate, TypeOK
  <2>2. Head(queue[s]) \in Nat /\ Tail(queue[s]) \in Seq(Nat) /\ Len(Tail(queue[s])) <= ChanCap
    BY <2>1
  <2>3. queue' \in [Streams -> Seq(Nat)] /\ \A r \in Streams : Len(queue'[r]) <= ChanCap
    BY <1>1, <2>2 DEF HandleUpdate, TypeOK
  <2>4. sent' \in [Streams -> Nat]
    BY <1>1, <2>2 DEF HandleUpdate, TypeOK
  <2>5. step' \in [Streams -> Steps]
    BY <1>0, <1>1 DEF HandleUpdate, StepsOf, TypeOK
  <2> QED
    BY <1>1, <2>3, <2>4, <2>5 DEF HandleUpdate, TypeOK, statusVars, pushVars
<1>2. CASE ChannelClosed(s) \/ StreamEnded(s) \/ CancelPeerRoutines(s)
  <2>1. step' \in [Streams -> Steps]
    BY <1>0, <1>2 DEF ChannelClosed, StreamEnded, CancelPeerRoutines, StepsOf
  <2> QED
    BY <1>2, <2>1 DEF ChannelClosed, StreamEnded, CancelPeerRoutines, TypeOK, chanVars, statusVars, mapVars, pushVars
<1>3. CASE MarkPeerDisconnected(s)
  <2>1. step' \in [Streams -> Steps]
    BY <1>0, <1>3 DEF MarkPeerDisconnected, StepsOf
  <2>2. connected' \in BOOLEAN /\ session' \in Nat
    <3>1. connected \in BOOLEAN /\ session \in Nat
      BY DEF TypeOK
    <3>2. (connected' = FALSE /\ session' = 0) \/ (connected' = connected /\ session' = session)
      BY <1>3 DEF MarkPeerDisconnected, statusVars
    <3>3. connected' \in BOOLEAN
      BY <3>1, <3>2
    <3> QED
      BY <3>1, <3>2, <3>3
  <2>3. UNCHANGED <<token, ended, syncSem, channel, closed, queue, refresher, listed, serial, netMap, sent, push, pushed, ticking, ticks, opened>>
    BY <1>3 DEF MarkPeerDisconnected, chanVars, statusVars, mapVars, pushVars
  <2> QED
    BY <2>1, <2>2, <2>3 DEF TypeOK
<1>4. CASE OnPeerDisconnected(s)
  <2>1. step' \in [Streams -> Steps]
    BY <1>0, <1>4 DEF OnPeerDisconnected, StepsOf
  <2>2. /\ listed' \in BOOLEAN
        /\ channel' \in Streams \cup {NoStream} /\ closed' \subseteq Streams
    BY <1>4 DEF OnPeerDisconnected, CloseRegistered, TypeOK, statusVars
  <2>3. UNCHANGED <<token, ended, syncSem, queue, connected, session, refresher, serial, netMap, sent, push, pushed, ticking, ticks, opened>>
    BY <1>4 DEF OnPeerDisconnected, CloseRegistered, chanVars, statusVars, mapVars, pushVars
  <2> QED
    BY <2>1, <2>2, <2>3 DEF TypeOK
<1>5. CASE CancelRefresh(s)
  <2>1. step' \in [Streams -> Steps]
    BY <1>0, <1>5 DEF CancelRefresh, StepsOf
  <2> QED
    BY <1>5, <2>1 DEF CancelRefresh, TypeOK, chanVars, statusVars, mapVars, pushVars
<1>6. CASE ClientLeaves(s)
  BY <1>6 DEF ClientLeaves, TypeOK, chanVars, statusVars, mapVars, pushVars
<1> QED
  BY <1>1, <1>2, <1>3, <1>4, <1>5, <1>6

\* What runs beside the streams.
LEMMA BesideType ==
  ASSUME TypeOK,
         \/ DisconnectPeers \/ RefreshTick \/ PushNewRelayTokens \/ Restart
         \/ \E u \in Updates : AccountChanges(u) \/ PushStep(u)
  PROVE  TypeOK'
<1> USE SyncAssumption
<1>1. CASE DisconnectPeers
  BY <1>1 DEF DisconnectPeers, CloseRegistered, TypeOK, streamVars, statusVars, mapVars, pushVars
<1>2. CASE RefreshTick
  <2>1. ticks' \in 0..MaxTicks
    BY <1>2 DEF RefreshTick, TypeOK
  <2>2. ticking' \in BOOLEAN
    BY <1>2 DEF RefreshTick
  <2>3. /\ UNCHANGED <<step, token, ended, syncSem, channel, closed, queue, connected, session>>
        /\ UNCHANGED <<refresher, listed, serial, netMap, sent, push, pushed, opened>>
    BY <1>2 DEF RefreshTick, streamVars, chanVars, statusVars, pushVars
  <2> QED
    BY <2>1, <2>2, <2>3 DEF TypeOK
<1>3. CASE PushNewRelayTokens
  <2>1. /\ queue' \in [Streams -> Seq(Nat)]
        /\ \A s \in Streams : Len(queue'[s]) <= ChanCap
    BY <1>3, SendUpdateType DEF PushNewRelayTokens, ControlConfig
  <2> QED
    BY <1>3, <2>1 DEF PushNewRelayTokens, TypeOK, streamVars, statusVars, pushVars
<1>4. CASE Restart
  <2>1. step' \in [Streams -> Steps]
    BY <1>4, StepsAre DEF Restart, StepsOf
  <2>2. push' \in [Updates -> {"idle", "load", "check", "send", "done", "failed"}]
    BY <1>4 DEF Restart
  <2>3. /\ syncSem' = 0 /\ channel' = NoStream /\ refresher' = NoStream
        /\ ticking' = FALSE /\ listed' = TRUE
    BY <1>4 DEF Restart
  <2>4. UNCHANGED <<token, ended, closed, queue, connected, session, serial, netMap, sent, pushed, ticks, opened>>
    BY <1>4 DEF Restart, statusVars
  <2>5. ticking' \in BOOLEAN /\ listed' \in BOOLEAN
    BY <2>3
  <2> QED
    BY <2>1, <2>2, <2>3, <2>4, <2>5 DEF TypeOK
<1>5. ASSUME NEW u \in Updates, AccountChanges(u) PROVE TypeOK'
  BY <1>5 DEF AccountChanges, TypeOK, streamVars, chanVars, statusVars
<1>6. ASSUME NEW u \in Updates, LoadAccount(u) PROVE TypeOK'
  BY <1>6 DEF LoadAccount, TypeOK, streamVars, chanVars, statusVars, mapVars
<1>7. ASSUME NEW u \in Updates, ComputeMap(u) PROVE TypeOK'
  BY <1>7 DEF ComputeMap, TypeOK, streamVars, chanVars, statusVars, mapVars
<1>8. ASSUME NEW u \in Updates, PushUpdate(u) PROVE TypeOK'
  <2>1. /\ queue' \in [Streams -> Seq(Nat)]
        /\ \A s \in Streams : Len(queue'[s]) <= ChanCap
    BY <1>8, SendUpdateType DEF PushUpdate, TypeOK
  <2> QED
    BY <1>8, <2>1 DEF PushUpdate, TypeOK, streamVars, statusVars, mapVars
<1> QED
  BY <1>1, <1>2, <1>3, <1>4, <1>5, <1>6, <1>7, <1>8 DEF PushStep

\* Every step keeps the types, and no update channel overflows.
LEMMA TypeStep ==
  ASSUME TypeOK, [Next]_vars
  PROVE  TypeOK'
<1>1. CASE UNCHANGED vars
  BY <1>1 DEF vars, TypeOK
<1>2. CASE Environment
  BY <1>2, BesideType, SyncType, ServeType DEF Environment
<1>3. ASSUME NEW s \in Streams, HandlerStep(s) PROVE TypeOK'
  BY <1>3, SyncType, ServeType DEF HandlerStep
<1>4. ASSUME NEW u \in Updates, PushStep(u) PROVE TypeOK'
  BY <1>4, BesideType
<1> QED
  BY <1>1, <1>2, <1>3, <1>4 DEF Next

\* The initial state has the right type.
LEMMA InitType == Init => TypeOK
<1> SUFFICES ASSUME Init PROVE TypeOK
  OBVIOUS
<1>1. step \in [Streams -> Steps]
  BY StepsAre DEF Init, StepsOf
<1>2. connected \in BOOLEAN /\ listed \in BOOLEAN /\ ticking \in BOOLEAN
  BY DEF Init
<1>3. queue \in [Streams -> Seq(Nat)] /\ \A s \in Streams : Len(queue[s]) <= ChanCap
  BY SyncAssumption DEF Init
<1> QED
  BY <1>1, <1>2, <1>3, SyncAssumption DEF Init, TypeOK

\* TypeCorrect: the state of the Sync streams stays well-typed; no channel ever
\* holds more than its capacity.
THEOREM TypeCorrect == Spec => []TypeOK
<1>1. TypeOK /\ [Next]_vars => TypeOK'
  BY TypeStep
<1> QED
  BY <1>1, InitType, PTL DEF Spec

-----------------------------------------------------------------------------
(* The registered channel. *)

\* Only OnPeerConnected registers a channel; three steps close the registered
\* one or forget it; no step but these moves a stream back or touches closed.
LEMMA ChannelMoves ==
  ASSUME TypeOK, [Next]_vars
  PROVE  \/ \E s \in Streams :
               /\ step[s] = "connect" /\ CreateChannel(s)
               /\ step' = [step EXCEPT ![s] = "refresh"]
         \/ /\ CloseRegistered \/ (closed' = closed /\ channel' \in {channel, NoStream})
            /\ \A s \in Streams : step'[s] \in BeforeChannel => step[s] \in BeforeChannel
<1> DEFINE Kept == closed' = closed /\ channel' = channel
           Forward == \A s \in Streams : step'[s] \in BeforeChannel => step[s] \in BeforeChannel
<1> USE DEF TypeOK, chanVars, streamVars
<1>1. CASE UNCHANGED vars
  BY <1>1 DEF vars
<1>2. ASSUME NEW s \in Streams, CheckLimit(s) \/ ClientLeaves(s)
      PROVE  Kept /\ Forward
  BY <1>2 DEF CheckLimit, ClientLeaves, Goto, BeforeChannel
<1>3. ASSUME NEW s \in Streams,
             \/ \E now \in 1..MaxClock : Sync(s, now)
             \/ Validate(s) \/ LockPeer(s) \/ SyncPeer(s) \/ MarkPeerConnected(s) \/ SendInitialSync(s)
      PROVE  Kept /\ Forward
  BY <1>3 DEF Sync, Validate, LockPeer, SyncPeer, MarkPeerConnected, SendInitialSync, Goto, BeforeChannel
<1>4. ASSUME NEW s \in Streams,
             \/ SetupRefresh(s) \/ Release(s) \/ HandleUpdate(s) \/ ChannelClosed(s) \/ StreamEnded(s)
             \/ CancelPeerRoutines(s) \/ MarkPeerDisconnected(s) \/ CancelRefresh(s)
      PROVE  Kept /\ Forward
  BY <1>4 DEF SetupRefresh, Release, HandleUpdate, ChannelClosed, StreamEnded, CancelPeerRoutines,
              MarkPeerDisconnected, CancelRefresh, Goto, BeforeChannel
<1>5. ASSUME NEW s \in Streams, OnPeerDisconnected(s) PROVE CloseRegistered /\ Forward
  BY <1>5 DEF OnPeerDisconnected, Goto, BeforeChannel
<1>6. CASE DisconnectPeers
  BY <1>6 DEF DisconnectPeers
<1>7. CASE Restart
  BY <1>7 DEF Restart, BeforeChannel
<1>8. CASE RefreshTick \/ PushNewRelayTokens \/ \E u \in Updates : AccountChanges(u) \/ PushStep(u)
  BY <1>8 DEF RefreshTick, PushNewRelayTokens, AccountChanges, PushStep, LoadAccount, ComputeMap, PushUpdate
<1>9. ASSUME NEW s \in Streams, OnPeerConnected(s)
      PROVE  \/ /\ step[s] = "connect" /\ CreateChannel(s)
                /\ step' = [step EXCEPT ![s] = "refresh"]
             \/ Kept /\ Forward
  BY <1>9 DEF OnPeerConnected, Goto, BeforeChannel
<1> QED
  BY <1>1, <1>2, <1>3, <1>4, <1>5, <1>6, <1>7, <1>8, <1>9 DEF Next, Environment, HandlerStep

\* Every step keeps the registered channel open, and channels not yet made unused.
LEMMA ChannelStep ==
  ASSUME TypeOK, Unopened, NeverClosed, [Next]_vars
  PROVE  Unopened' /\ NeverClosed'
<1> USE SyncAssumption DEF TypeOK, Unopened, NeverClosed
<1>1. ASSUME NEW s \in Streams, step[s] = "connect", CreateChannel(s),
             step' = [step EXCEPT ![s] = "refresh"]
      PROVE  Unopened' /\ NeverClosed'
  BY <1>1 DEF CreateChannel, BeforeChannel
<1>2. CASE /\ CloseRegistered \/ (closed' = closed /\ channel' \in {channel, NoStream})
           /\ \A s \in Streams : step'[s] \in BeforeChannel => step[s] \in BeforeChannel
  BY <1>2 DEF CloseRegistered
<1> QED
  BY <1>1, <1>2, ChannelMoves

-----------------------------------------------------------------------------
(* The semaphore.  A step moves one stream into or out of Counted and the   *)
(* semaphore by one, or neither; a restart empties both.                    *)

\* The streams that hold the semaphore are finitely many.
LEMMA CountedIsFinite == IsFiniteSet(Counted) /\ Cardinality(Counted) \in Nat
<1>1. Counted \subseteq Streams
  BY DEF Counted
<1>2. IsFiniteSet(Counted)
  BY <1>1, SyncAssumption, FS_Subset
<1> QED
  BY <1>2, FS_CardinalityType

\* A step takes the semaphore for one stream, gives it back for one, resets it, or leaves
\* it.
LEMMA SemMoves ==
  ASSUME TypeOK, [Next]_vars
  PROVE  \/ syncSem' = syncSem /\ Counted' = Counted
         \/ \E s \in Streams \ Counted : syncSem' = syncSem + 1 /\ Counted' = Counted \cup {s}
         \/ \E s \in Counted : syncSem' = syncSem - 1 /\ Counted' = Counted \ {s}
         \/ syncSem' = 0 /\ Counted' = {}
<1> DEFINE Same == syncSem' = syncSem /\ Counted' = Counted
           Leaves(s) == s \in Counted /\ syncSem' = syncSem - 1 /\ Counted' = Counted \ {s}
<1> USE DEF TypeOK, streamVars, Counted, Goto
<1>1. CASE UNCHANGED vars
  BY <1>1 DEF vars
<1>2. ASSUME NEW s \in Streams, CheckLimit(s) \/ ClientLeaves(s) PROVE Same
  BY <1>2 DEF CheckLimit, ClientLeaves
<1>3. ASSUME NEW s \in Streams, NEW now \in 1..MaxClock, Sync(s, now)
      PROVE  s \notin Counted /\ syncSem' = syncSem + 1 /\ Counted' = Counted \cup {s}
  BY <1>3 DEF Sync
<1>4. ASSUME NEW s \in Streams, Validate(s) \/ SyncPeer(s) PROVE Same \/ Leaves(s)
  BY <1>4 DEF Validate, SyncPeer
<1>5. ASSUME NEW s \in Streams, SendInitialSync(s) \/ OnPeerConnected(s) \/ Release(s)
      PROVE  Same \/ Leaves(s)
  BY <1>5 DEF SendInitialSync, OnPeerConnected, Release
<1>6. ASSUME NEW s \in Streams, LockPeer(s) \/ MarkPeerConnected(s) \/ SetupRefresh(s) PROVE Same
  BY <1>6 DEF LockPeer, MarkPeerConnected, SetupRefresh
<1>7. ASSUME NEW s \in Streams,
             \/ HandleUpdate(s) \/ ChannelClosed(s) \/ StreamEnded(s) \/ CancelPeerRoutines(s)
             \/ MarkPeerDisconnected(s) \/ OnPeerDisconnected(s) \/ CancelRefresh(s)
      PROVE  Same
  BY <1>7 DEF HandleUpdate, ChannelClosed, StreamEnded, CancelPeerRoutines, MarkPeerDisconnected,
              OnPeerDisconnected, CancelRefresh
<1>8. CASE \/ DisconnectPeers \/ RefreshTick \/ PushNewRelayTokens
           \/ \E u \in Updates : AccountChanges(u) \/ PushStep(u)
  BY <1>8 DEF DisconnectPeers, RefreshTick, PushNewRelayTokens, AccountChanges, PushStep,
              LoadAccount, ComputeMap, PushUpdate
<1>9. CASE Restart
  BY <1>9 DEF Restart
<1> QED
  <2> HIDE DEF TypeOK, Counted, Goto
  <2> QED
    BY <1>1, <1>2, <1>3, <1>4, <1>5, <1>6, <1>7, <1>8, <1>9 DEF Next, Environment, HandlerStep

\* Every step keeps syncSem equal to the number of streams that hold it.
LEMMA SemStep ==
  ASSUME TypeOK, SemBalanced, [Next]_vars
  PROVE  SemBalanced'
<1>1. CASE syncSem' = syncSem /\ Counted' = Counted
  BY <1>1 DEF SemBalanced
<1>2. ASSUME NEW s \in Streams \ Counted, syncSem' = syncSem + 1, Counted' = Counted \cup {s}
      PROVE  SemBalanced'
  <2>1. Cardinality(Counted') = Cardinality(Counted) + 1
    BY <1>2, CountedIsFinite, FS_AddElement
  <2> QED
    BY <1>2, <2>1 DEF SemBalanced
<1>3. ASSUME NEW s \in Counted, syncSem' = syncSem - 1, Counted' = Counted \ {s}
      PROVE  SemBalanced'
  <2>1. Cardinality(Counted') = Cardinality(Counted) - 1
    BY <1>3, CountedIsFinite, FS_RemoveElement
  <2> QED
    BY <1>3, <2>1 DEF SemBalanced
<1>4. CASE syncSem' = 0 /\ Counted' = {}
  BY <1>4, FS_EmptySet DEF SemBalanced
<1> QED
  BY <1>1, <1>2, <1>3, <1>4, SemMoves

-----------------------------------------------------------------------------
\* IInv holds at the start.
LEMMA InitIInv == Init => IInv
<1> SUFFICES ASSUME Init PROVE IInv
  OBVIOUS
<1>1. Counted = {}
  BY DEF Init, Counted
<1>2. SemBalanced
  BY <1>1, FS_EmptySet DEF Init, SemBalanced
<1> QED
  BY <1>2, InitType, SyncAssumption DEF Init, IInv, Unopened, NeverClosed

\* IInv is an invariant of the Sync streams.
LEMMA Invariance == Spec => []IInv
<1>1. IInv /\ [Next]_vars => IInv'
  BY TypeStep, ChannelStep, SemStep DEF IInv
<1> QED
  BY <1>1, InitIInv, PTL DEF Spec

\* ChannelIsOpen: no interleaving of streams, forced disconnects and restarts
\* leaves a closed channel registered, so SendUpdate and closeChannel never meet
\* one.
THEOREM ChannelIsOpen == Spec => []NeverClosed
<1>1. IInv => NeverClosed
  BY DEF IInv
<1> QED
  BY <1>1, Invariance, PTL

\* SemaphoreIsExact: syncSem counts the Sync calls between their admission and
\* serving, on every error path and after a restart, so the limit on concurrent
\* syncs is never eaten up by calls that are over.
THEOREM SemaphoreIsExact == Spec => []SemBalanced
<1>1. IInv => SemBalanced
  BY DEF IInv
<1> QED
  BY <1>1, Invariance, PTL

-----------------------------------------------------------------------------
(* The session of the peer: what the streams set up and take down under the  *)
(* peer lock.  The statements of the store that fail are left to the error   *)
(* paths here: the theorems below assume ~StoreMayFail.                      *)

\* The peer lock has one holder.
Exclusive ==
    \A s, t \in Streams : (step[s] \in LockedSteps /\ step[t] \in LockedSteps) => s = t

\* A stream has its start time before it is marked.
TokenTaken == \A s \in Streams : step[s] \in {"entered", "lock", "sync", "mark"} => token[s] # 0

\* A stored session is connected.
SessionConnected == session # 0 => connected

\* Between marking and registering, the peer is connected or the stream over.
MarkedIsConnected ==
    \A s \in Streams : (step[s] \in {"initial", "connect"} /\ ~ended[s]) => connected

\* Between registering and SetupRefresh only the refresh is missing.
RefreshIsMissing ==
    \A s \in Streams : (step[s] = "refresh" /\ channel # NoStream /\ ~ended[channel])
                           => connected /\ ~listed

\* Otherwise the session is whole, but for a cleanup under way.
Served ==
    (/\ \A s \in Streams : step[s] \notin {"refresh", "close"}
     /\ channel # NoStream /\ ~ended[channel])
    => connected /\ refresher # NoStream /\ ~listed

\* The refresh is cancelled when there is no channel any more.
NoChannelToCancel == \A s \in Streams : step[s] = "cancel" => channel = NoStream

\* Whose cleanup is still to come: of the channel and the list, of the refresh.
ClosesLater == {"refresh", "release", "serve", "relock", "disconnect", "close"}
CancelsLater == {"release", "serve", "relock", "disconnect", "close", "cancel"}

ChannelOwned == channel # NoStream => step[channel] \in ClosesLater
RefresherOwned == refresher # NoStream => step[refresher] \in CancelsLater
UnlistedOwned == ~listed => \E s \in Streams : step[s] \in ClosesLater

WholeInv ==
    /\ Exclusive /\ TokenTaken /\ SessionConnected /\ MarkedIsConnected
    /\ RefreshIsMissing /\ Served /\ NoChannelToCancel
OwnedInv == ChannelOwned /\ RefresherOwned /\ UnlistedOwned

\* A step of one stream that takes the lock only when it is free keeps it with
\* one holder.
LEMMA ExclusiveMove ==
  ASSUME TypeOK, Exclusive, NEW s \in Streams, NEW x, Goto(s, x),
         x \in LockedSteps => step[s] \in LockedSteps \/ LockFree
  PROVE  Exclusive'
  BY DEF Exclusive, Goto, LockFree, TypeOK

\* The steps of a stream that change only the stream's own state.
QuietMove(s, x) ==
    /\ Goto(s, x)
    /\ UNCHANGED <<channel, refresher, listed, connected, session, ended>>
    /\ \A t \in Streams \ {s} : token'[t] = token[t]

\* Such a step keeps the session whole if it does not enter or leave the steps
\* in which a session is incomplete.
LEMMA QuietWhole ==
  ASSUME TypeOK, WholeInv, NEW s \in Streams, NEW x, QuietMove(s, x),
         x \in LockedSteps => step[s] \in LockedSteps \/ LockFree,
         x \notin {"refresh", "close", "cancel"},
         step[s] \notin {"refresh", "close"},
         x \in {"initial", "connect"} => step[s] \in {"initial", "connect"},
         x \in {"entered", "lock", "sync", "mark"} => token'[s] # 0
  PROVE  WholeInv'
<1>1. /\ step'[s] = x
      /\ \A t \in Streams \ {s} : step'[t] = step[t] /\ token'[t] = token[t]
      /\ UNCHANGED <<channel, refresher, listed, connected, session, ended>>
  BY DEF QuietMove, Goto, TypeOK
<1>2. Exclusive'
  BY ExclusiveMove DEF WholeInv, QuietMove
<1>3. TokenTaken'
  BY <1>1 DEF WholeInv, TokenTaken
<1>4. SessionConnected'
  BY <1>1 DEF WholeInv, SessionConnected
<1>5. MarkedIsConnected'
  BY <1>1 DEF WholeInv, MarkedIsConnected
<1>6. RefreshIsMissing'
  BY <1>1 DEF WholeInv, RefreshIsMissing
<1>7. Served'
  BY <1>1 DEF WholeInv, Served
<1>8. NoChannelToCancel'
  BY <1>1 DEF WholeInv, NoChannelToCancel
<1> QED
  BY <1>2, <1>3, <1>4, <1>5, <1>6, <1>7, <1>8 DEF WholeInv

\* It keeps every piece owned if the stream does not lose what it has to do.
LEMMA QuietOwned ==
  ASSUME TypeOK, OwnedInv, NEW s \in Streams, NEW x, QuietMove(s, x),
         step[s] \in ClosesLater => x \in ClosesLater,
         step[s] \in CancelsLater => x \in CancelsLater
  PROVE  OwnedInv'
<1>1. /\ step'[s] = x
      /\ \A t \in Streams \ {s} : step'[t] = step[t]
      /\ UNCHANGED <<channel, refresher, listed>>
  BY DEF QuietMove, Goto, TypeOK
<1>2. ChannelOwned'
  BY <1>1 DEF OwnedInv, ChannelOwned, TypeOK
<1>3. RefresherOwned'
  BY <1>1 DEF OwnedInv, RefresherOwned, TypeOK
<1>4. UnlistedOwned'
  BY <1>1 DEF OwnedInv, UnlistedOwned
<1> QED
  BY <1>2, <1>3, <1>4 DEF OwnedInv

\* What the handlers do that touch neither the session nor what a session needs.
QuietAction(s) ==
    \/ CheckLimit(s) \/ \E now \in 1..MaxClock : Sync(s, now)
    \/ Validate(s) \/ LockPeer(s) \/ SyncPeer(s) \/ SendInitialSync(s) \/ Release(s)
    \/ HandleUpdate(s) \/ ChannelClosed(s) \/ StreamEnded(s) \/ CancelPeerRoutines(s)

\* Each of them moves its stream as the two lemmas above ask.
LEMMA QuietActions ==
  ASSUME TypeOK, WholeInv, NEW s \in Streams, QuietAction(s)
  PROVE  \E x \in Steps :
            /\ QuietMove(s, x)
            /\ x \in LockedSteps => step[s] \in LockedSteps \/ LockFree
            /\ x \notin {"refresh", "close", "cancel"} /\ step[s] \notin {"refresh", "close"}
            /\ x \in {"initial", "connect"} => step[s] \in {"initial", "connect"}
            /\ x \in {"entered", "lock", "sync", "mark"} => token'[s] # 0
            /\ step[s] \in ClosesLater => x \in ClosesLater
            /\ step[s] \in CancelsLater => x \in CancelsLater
<1> USE StepsAre DEF StepsOf, QuietMove, Goto, ClosesLater, CancelsLater, LockedSteps, chanVars, statusVars
<1>0. step \in [Streams -> Steps] /\ token \in [Streams -> Nat]
  BY DEF TypeOK
<1>T. step[s] \in {"entered", "lock", "sync", "mark"} => token[s] # 0
  BY DEF WholeInv, TokenTaken
<1>1. CASE CheckLimit(s)
  <2>1. step[s] = "idle" /\ token' = token /\ (Goto(s, "done") \/ Goto(s, "admitted"))
        /\ UNCHANGED <<channel, refresher, listed, connected, session, ended>>
    BY <1>1 DEF CheckLimit
  <2> QED
    BY <2>1
<1>2. CASE \E now \in 1..MaxClock : Sync(s, now)
  <2>1. PICK now \in 1..MaxClock : Sync(s, now)
    BY <1>2
  <2>2. step[s] = "admitted" /\ token' = [token EXCEPT ![s] = now] /\ Goto(s, "entered")
        /\ UNCHANGED <<channel, refresher, listed, connected, session, ended>>
    BY <2>1 DEF Sync
  <2>3. token'[s] # 0 /\ \A t \in Streams \ {s} : token'[t] = token[t]
    BY <1>0, <2>2, SyncAssumption
  <2> QED
    BY <2>2, <2>3
<1>3. CASE Validate(s)
  <2>1. step[s] = "entered" /\ token' = token /\ (Goto(s, "lock") \/ Goto(s, "done"))
        /\ UNCHANGED <<channel, refresher, listed, connected, session, ended>>
    BY <1>3 DEF Validate
  <2> QED
    BY <2>1, <1>T
<1>4. CASE LockPeer(s)
  <2>1. step[s] = "lock" /\ token' = token /\ Goto(s, "sync") /\ LockFree
        /\ UNCHANGED <<channel, refresher, listed, connected, session, ended>>
    BY <1>4 DEF LockPeer
  <2> QED
    BY <2>1, <1>T
<1>5. CASE SyncPeer(s)
  <2>1. step[s] = "sync" /\ token' = token /\ (Goto(s, "mark") \/ Goto(s, "done"))
        /\ UNCHANGED <<channel, refresher, listed, connected, session, ended>>
    BY <1>5 DEF SyncPeer
  <2> QED
    BY <2>1, <1>T
<1>6. CASE SendInitialSync(s)
  <2>1. step[s] = "initial" /\ token' = token /\ (Goto(s, "connect") \/ Goto(s, "abort"))
        /\ UNCHANGED <<channel, refresher, listed, connected, session, ended>>
    BY <1>6 DEF SendInitialSync
  <2> QED
    BY <2>1
<1>7. CASE Release(s) \/ ChannelClosed(s) \/ StreamEnded(s)
  <2>1. /\ token' = token
        /\ \/ step[s] = "release" /\ Goto(s, "serve")
           \/ step[s] = "serve" /\ Goto(s, "relock")
        /\ UNCHANGED <<channel, refresher, listed, connected, session, ended>>
    BY <1>7 DEF Release, ChannelClosed, StreamEnded
  <2> QED
    BY <2>1
<1>8. CASE HandleUpdate(s)
  <2>1. /\ step[s] = "serve" /\ token' = token
        /\ UNCHANGED <<channel, refresher, listed, connected, session, ended>>
        /\ step' = step \/ Goto(s, "relock")
    BY <1>8 DEF HandleUpdate
  <2>2. step' = step => Goto(s, "serve")
    BY <2>1, <1>0
  <2> QED
    BY <2>1, <2>2
<1>9. CASE CancelPeerRoutines(s)
  <2>1. step[s] = "relock" /\ token' = token /\ Goto(s, "disconnect") /\ LockFree
        /\ UNCHANGED <<channel, refresher, listed, connected, session, ended>>
    BY <1>9 DEF CancelPeerRoutines
  <2> QED
    BY <2>1
<1> QED
  BY <1>1, <1>2, <1>3, <1>4, <1>5, <1>6, <1>7, <1>8, <1>9 DEF QuietAction

\* What runs beside the streams touches neither their steps nor the session.
LEMMA BesideWhole ==
  ASSUME TypeOK, WholeInv, OwnedInv,
         UNCHANGED <<step, token, connected, session, refresher, listed>>,
         channel' \in {channel, NoStream},
         \A s \in Streams : ended[s] => ended'[s]
  PROVE  WholeInv' /\ OwnedInv'
<1>1. Exclusive' /\ TokenTaken' /\ SessionConnected'
  BY DEF WholeInv, Exclusive, TokenTaken, SessionConnected
<1>2. MarkedIsConnected'
  BY DEF WholeInv, MarkedIsConnected
<1>3. RefreshIsMissing'
  BY DEF WholeInv, RefreshIsMissing, TypeOK
<1>4. Served'
  BY DEF WholeInv, Served, TypeOK
<1>5. NoChannelToCancel'
  BY DEF WholeInv, NoChannelToCancel
<1>6. OwnedInv'
  BY DEF OwnedInv, ChannelOwned, RefresherOwned, UnlistedOwned
<1> QED
  BY <1>1, <1>2, <1>3, <1>4, <1>5, <1>6 DEF WholeInv

-----------------------------------------------------------------------------
\* MarkPeerConnected: a live stream finds or makes the peer connected.
LEMMA MarkConnectedKeeps ==
  ASSUME ~StoreMayFail, TypeOK, WholeInv, OwnedInv, NEW s \in Streams, MarkPeerConnected(s)
  PROVE  WholeInv' /\ OwnedInv'
<1>1. /\ step[s] = "mark" /\ step'[s] = "initial"
      /\ \A t \in Streams \ {s} : step'[t] = step[t]
      /\ UNCHANGED <<channel, refresher, listed, token, ended>>
  BY DEF MarkPeerConnected, Goto, TypeOK, chanVars
<1>2. Exclusive'
  BY <1>1, ExclusiveMove DEF WholeInv, MarkPeerConnected, LockedSteps
<1>3. token[s] # 0 /\ token[s] \in Nat /\ session \in Nat
  BY <1>1 DEF WholeInv, TokenTaken, TypeOK
<1>4. \/ connected' = TRUE
      \/ /\ session >= token[s] \/ ended[s]
         /\ UNCHANGED <<connected, session>>
  BY <1>1 DEF MarkPeerConnected, Canceled, statusVars
<1>5. session >= token[s] => session # 0
  BY <1>3
<1>6. ~ended[s] => connected'
  BY <1>4, <1>5 DEF WholeInv, SessionConnected
<1>7. connected => connected'
  BY <1>4
<1>8. SessionConnected'
  BY <1>4 DEF WholeInv, SessionConnected
<1>9. TokenTaken'
  BY <1>1 DEF WholeInv, TokenTaken
<1>10. MarkedIsConnected'
  BY <1>1, <1>6, <1>7 DEF WholeInv, MarkedIsConnected
<1>11. RefreshIsMissing'
  BY <1>1, <1>7 DEF WholeInv, RefreshIsMissing
<1>12. Served'
  BY <1>1, <1>7 DEF WholeInv, Served
<1>13. NoChannelToCancel'
  BY <1>1 DEF WholeInv, NoChannelToCancel
<1>14. OwnedInv'
  BY <1>1 DEF OwnedInv, ChannelOwned, RefresherOwned, UnlistedOwned, ClosesLater, CancelsLater, TypeOK
<1> QED
  BY <1>2, <1>8, <1>9, <1>10, <1>11, <1>12, <1>13, <1>14 DEF WholeInv

\* OnPeerConnected: the new channel belongs to the holder of the lock.
LEMMA ConnectedKeeps ==
  ASSUME ~StoreMayFail, TypeOK, WholeInv, OwnedInv, NEW s \in Streams, OnPeerConnected(s)
  PROVE  WholeInv' /\ OwnedInv'
<1>1. /\ step[s] = "connect" /\ step'[s] = "refresh"
      /\ \A t \in Streams \ {s} : step'[t] = step[t]
      /\ UNCHANGED <<refresher, connected, session, token, ended>>
      /\ channel' = s /\ listed' = FALSE
  BY DEF OnPeerConnected, CreateChannel, Goto, TypeOK, statusVars
<1>2. Exclusive'
  BY <1>1, ExclusiveMove DEF WholeInv, OnPeerConnected, LockedSteps
<1>3. \A t \in Streams \ {s} : step'[t] \notin LockedSteps
  BY <1>1 DEF WholeInv, Exclusive, LockedSteps
<1>4. TokenTaken' /\ SessionConnected'
  BY <1>1 DEF WholeInv, TokenTaken, SessionConnected
<1>5. MarkedIsConnected'
  BY <1>1 DEF WholeInv, MarkedIsConnected
<1>6. RefreshIsMissing'
  BY <1>1, <1>3 DEF WholeInv, MarkedIsConnected, RefreshIsMissing, LockedSteps
<1>7. Served'
  BY <1>1 DEF Served
<1>8. NoChannelToCancel'
  BY <1>1, <1>3 DEF NoChannelToCancel, LockedSteps
<1>9. OwnedInv'
  BY <1>1 DEF OwnedInv, ChannelOwned, RefresherOwned, UnlistedOwned, ClosesLater, CancelsLater, TypeOK
<1> QED
  BY <1>2, <1>4, <1>5, <1>6, <1>7, <1>8, <1>9 DEF WholeInv

\* SetupRefresh completes the session.
LEMMA SetupRefreshKeeps ==
  ASSUME TypeOK, WholeInv, OwnedInv, NEW s \in Streams, SetupRefresh(s)
  PROVE  WholeInv' /\ OwnedInv'
<1>1. /\ step[s] = "refresh" /\ step'[s] = "release"
      /\ \A t \in Streams \ {s} : step'[t] = step[t]
      /\ UNCHANGED <<channel, listed, connected, session, token, ended>>
      /\ refresher' = s /\ refresher' # NoStream
  BY SyncAssumption DEF SetupRefresh, Goto, TypeOK, statusVars, chanVars
<1>2. Exclusive'
  BY <1>1, ExclusiveMove DEF WholeInv, SetupRefresh, LockedSteps
<1>4. TokenTaken' /\ SessionConnected'
  BY <1>1 DEF WholeInv, TokenTaken, SessionConnected
<1>5. MarkedIsConnected' /\ NoChannelToCancel'
  BY <1>1 DEF WholeInv, MarkedIsConnected, NoChannelToCancel
<1>6. RefreshIsMissing'
  BY <1>1 DEF WholeInv, RefreshIsMissing
<1>7. Served'
  BY <1>1 DEF WholeInv, RefreshIsMissing, Served
<1>9. OwnedInv'
  BY <1>1 DEF OwnedInv, ChannelOwned, RefresherOwned, UnlistedOwned, ClosesLater, CancelsLater, TypeOK
<1> QED
  BY <1>2, <1>4, <1>5, <1>6, <1>7, <1>9 DEF WholeInv

\* MarkPeerDisconnected: whoever disconnects the peer goes on to close its channel.
LEMMA MarkDisconnectedKeeps ==
  ASSUME TypeOK, WholeInv, OwnedInv, NEW s \in Streams, MarkPeerDisconnected(s)
  PROVE  WholeInv' /\ OwnedInv'
<1>1. /\ step[s] \in {"abort", "disconnect"} /\ step'[s] = "close"
      /\ \A t \in Streams \ {s} : step'[t] = step[t]
      /\ UNCHANGED <<channel, listed, refresher, token, ended>>
  BY DEF MarkPeerDisconnected, Goto, TypeOK, chanVars
<1>2. session' = 0 \/ UNCHANGED <<connected, session>>
  BY DEF MarkPeerDisconnected, statusVars
<1>3. \A t \in Streams \ {s} : step'[t] \notin LockedSteps
  BY <1>1 DEF WholeInv, Exclusive, LockedSteps
<1>4. Exclusive'
  BY <1>1, ExclusiveMove DEF WholeInv, MarkPeerDisconnected, LockedSteps
<1>5. TokenTaken'
  BY <1>1 DEF WholeInv, TokenTaken
<1>6. SessionConnected'
  BY <1>2 DEF WholeInv, SessionConnected
<1>7. MarkedIsConnected' /\ RefreshIsMissing' /\ NoChannelToCancel'
  BY <1>1, <1>3 DEF MarkedIsConnected, RefreshIsMissing, NoChannelToCancel, LockedSteps
<1>8. Served'
  BY <1>1 DEF Served
<1>9. OwnedInv'
  BY <1>1 DEF OwnedInv, ChannelOwned, RefresherOwned, UnlistedOwned, ClosesLater, CancelsLater, TypeOK
<1> QED
  BY <1>4, <1>5, <1>6, <1>7, <1>8, <1>9 DEF WholeInv

\* OnPeerDisconnected: there is no channel afterwards, and the peer is listed.
LEMMA DisconnectedKeeps ==
  ASSUME ~StoreMayFail, TypeOK, WholeInv, OwnedInv, NEW s \in Streams, OnPeerDisconnected(s)
  PROVE  WholeInv' /\ OwnedInv'
<1>1. /\ step[s] = "close" /\ step'[s] = "cancel"
      /\ \A t \in Streams \ {s} : step'[t] = step[t]
      /\ UNCHANGED <<connected, session, refresher, token, ended>>
      /\ channel' = NoStream /\ listed' = TRUE
  BY DEF OnPeerDisconnected, CloseRegistered, Goto, TypeOK, statusVars
<1>2. Exclusive'
  BY <1>1, ExclusiveMove DEF WholeInv, OnPeerDisconnected, LockedSteps
<1>3. TokenTaken' /\ SessionConnected'
  BY <1>1 DEF WholeInv, TokenTaken, SessionConnected
<1>4. MarkedIsConnected'
  BY <1>1 DEF WholeInv, MarkedIsConnected
<1>5. RefreshIsMissing' /\ Served' /\ NoChannelToCancel'
  BY <1>1 DEF RefreshIsMissing, Served, NoChannelToCancel
<1>6. OwnedInv'
  BY <1>1 DEF OwnedInv, ChannelOwned, RefresherOwned, UnlistedOwned, CancelsLater, TypeOK
<1> QED
  BY <1>2, <1>3, <1>4, <1>5, <1>6 DEF WholeInv

\* CancelRefresh: without a channel nobody misses the refresh.
LEMMA CancelRefreshKeeps ==
  ASSUME TypeOK, WholeInv, OwnedInv, NEW s \in Streams, CancelRefresh(s)
  PROVE  WholeInv' /\ OwnedInv'
<1>1. /\ step[s] = "cancel" /\ step'[s] = "done"
      /\ \A t \in Streams \ {s} : step'[t] = step[t]
      /\ UNCHANGED <<channel, listed, connected, session, token, ended>>
      /\ refresher' = NoStream
  BY DEF CancelRefresh, Goto, TypeOK, statusVars, chanVars
<1>2. channel = NoStream
  BY <1>1 DEF WholeInv, NoChannelToCancel
<1>3. Exclusive'
  BY <1>1, ExclusiveMove DEF WholeInv, CancelRefresh, LockedSteps
<1>4. TokenTaken' /\ SessionConnected'
  BY <1>1 DEF WholeInv, TokenTaken, SessionConnected
<1>5. MarkedIsConnected'
  BY <1>1 DEF WholeInv, MarkedIsConnected
<1>6. RefreshIsMissing' /\ Served' /\ NoChannelToCancel'
  BY <1>1, <1>2 DEF RefreshIsMissing, Served, NoChannelToCancel
<1>7. ChannelOwned' /\ RefresherOwned'
  BY <1>1, <1>2 DEF ChannelOwned, RefresherOwned
<1>8. UnlistedOwned'
  BY <1>1 DEF OwnedInv, UnlistedOwned, ClosesLater
<1> QED
  BY <1>3, <1>4, <1>5, <1>6, <1>7, <1>8 DEF WholeInv, OwnedInv

\* A restart leaves no stream, no channel and no refresh, and loads the list.
LEMMA RestartKeeps ==
  ASSUME TypeOK, WholeInv, Restart
  PROVE  WholeInv' /\ OwnedInv'
<1>1. /\ \A s \in Streams : step'[s] \in {"idle", "done"}
      /\ channel' = NoStream /\ refresher' = NoStream /\ listed' = TRUE
      /\ UNCHANGED <<connected, session>>
  BY DEF Restart, statusVars
<1>2. Exclusive' /\ TokenTaken' /\ MarkedIsConnected' /\ NoChannelToCancel'
  BY <1>1 DEF Exclusive, TokenTaken, MarkedIsConnected, NoChannelToCancel, LockedSteps
<1>3. SessionConnected'
  BY <1>1 DEF WholeInv, SessionConnected
<1>4. RefreshIsMissing' /\ Served' /\ OwnedInv'
  BY <1>1 DEF RefreshIsMissing, Served, OwnedInv, ChannelOwned, RefresherOwned, UnlistedOwned
<1> QED
  BY <1>2, <1>3, <1>4 DEF WholeInv

\* With a store that does not fail, every step keeps a session whole and its parts owned.
LEMMA SessionStep ==
  ASSUME ~StoreMayFail, TypeOK, WholeInv, OwnedInv, [Next]_vars
  PROVE  WholeInv' /\ OwnedInv'
<1>1. CASE UNCHANGED vars
  <2>1. UNCHANGED <<step, token, ended, channel, connected, session, refresher, listed>>
    BY <1>1 DEF vars
  <2> QED
    BY <2>1, BesideWhole
<1>2. ASSUME NEW s \in Streams, QuietAction(s) PROVE WholeInv' /\ OwnedInv'
  BY <1>2, QuietActions, QuietWhole, QuietOwned
<1>3. ASSUME NEW s \in Streams, ClientLeaves(s) PROVE WholeInv' /\ OwnedInv'
  <2>1. /\ UNCHANGED <<step, token, channel, connected, session, refresher, listed>>
        /\ \A t \in Streams : ended[t] => ended'[t]
    BY <1>3 DEF ClientLeaves, TypeOK, chanVars, statusVars
  <2> QED
    BY <2>1, BesideWhole
<1>4. CASE DisconnectPeers \/ RefreshTick \/ PushNewRelayTokens
           \/ \E u \in Updates : AccountChanges(u) \/ PushStep(u)
  <2>1. /\ UNCHANGED <<step, token, ended, connected, session, refresher, listed>>
        /\ channel' \in {channel, NoStream}
    BY <1>4 DEF DisconnectPeers, CloseRegistered, RefreshTick, PushNewRelayTokens, AccountChanges,
                PushStep, LoadAccount, ComputeMap, PushUpdate, streamVars, chanVars, statusVars
  <2> QED
    BY <2>1, BesideWhole
<1> QED
  BY <1>1, <1>2, <1>3, <1>4, RestartKeeps, MarkConnectedKeeps, ConnectedKeeps, SetupRefreshKeeps,
     MarkDisconnectedKeeps, DisconnectedKeeps, CancelRefreshKeeps
  DEF Next, Environment, HandlerStep, QuietAction

\* Without streams there is no session and nothing to own.
LEMMA SessionInit == Init => WholeInv /\ OwnedInv
<1> SUFFICES ASSUME Init PROVE WholeInv /\ OwnedInv
  OBVIOUS
<1>1. /\ \A s \in Streams : step[s] = "idle"
      /\ channel = NoStream /\ refresher = NoStream /\ listed = TRUE /\ session = 0
  BY DEF Init
<1>2. Exclusive /\ TokenTaken /\ SessionConnected /\ MarkedIsConnected /\ NoChannelToCancel
  BY <1>1 DEF Exclusive, TokenTaken, SessionConnected, MarkedIsConnected, NoChannelToCancel, LockedSteps
<1>3. RefreshIsMissing /\ Served /\ OwnedInv
  BY <1>1 DEF RefreshIsMissing, Served, OwnedInv, ChannelOwned, RefresherOwned, UnlistedOwned
<1> QED
  BY <1>2, <1>3 DEF WholeInv

\* The invariant of the session, when the statements of the store succeed.
LEMMA SessionInvariance ==
  ASSUME ~StoreMayFail
  PROVE  Spec => [](TypeOK /\ WholeInv /\ OwnedInv)
<1> DEFINE I == TypeOK /\ WholeInv /\ OwnedInv
<1>1. Init => I
  BY InitType, SessionInit
<1>2. I /\ [Next]_vars => I'
  BY TypeStep, SessionStep
<1> QED
  BY <1>1, <1>2, PTL DEF Spec

\* SessionIsWhole: when the statements of the store succeed, a registered channel
\* of a live stream comes with the connected status, with a refresh and without
\* an entry in the list of ephemeral peers whenever the peer lock is free, for
\* any number of streams that overlap, replace one another and fail.
THEOREM SessionIsWhole ==
  ASSUME ~StoreMayFail
  PROVE  Spec => []WholeSession
<1>1. Served => WholeSession
  BY DEF Served, WholeSession, LockedSteps
<1> QED
  BY <1>1, SessionInvariance, PTL DEF WholeInv

\* NothingIsLeftBehind: when the statements of the store succeed, the last stream
\* of the peer takes channel and refresh with it and puts the peer back on the
\* list of ephemeral peers.
THEOREM NothingIsLeftBehind ==
  ASSUME ~StoreMayFail
  PROVE  Spec => []NothingLeftBehind
<1>1. TypeOK /\ OwnedInv => NothingLeftBehind
  BY DEF TypeOK, OwnedInv, ChannelOwned, RefresherOwned, UnlistedOwned, NothingLeftBehind, Handled,
         ClosesLater, CancelsLater
<1> QED
  BY <1>1, SessionInvariance, PTL
-----------------------------------------------------------------------------
(* Updates.  A stream that has a channel keeps it until it is closed; while *)
(* the channel has room, a change made after it was created is either sent, *)
(* in the channel, or with a push that still has to load the account or has *)
(* loaded the current one.                                                  *)

InChannel == {"refresh", "release", "serve"}

\* A stream whose channel was not closed is the one that is registered.
OwnChannel == \A s \in Streams : step[s] \in InChannel /\ s \notin closed => channel = s

\* No map is newer than the account.
Serials ==
    /\ \A s \in Streams : sent[s] <= serial /\ netMap[s] <= serial
    /\ \A s \in Streams : \A i \in DOMAIN queue[s] : queue[s][i] <= serial
    /\ \A u \in Updates : pushed[u] <= serial

Delivered == {u \in Updates : push[u] = "done"}

Pushes == Cardinality(Delivered) + ticks - (IF ticking THEN 1 ELSE 0)

\* A channel holds at most what the pushes and the refreshes put there.
Room == \A s \in Streams : Len(queue[s]) <= Pushes

OnItsWay(u) ==
    \/ push[u] \in {"load", "failed"}
    \/ push[u] \in {"check", "send"} /\ pushed[u] = serial

Owed(s) == channel = s /\ step[s] \in InChannel /\ serial > opened[s]

Reach == \A s \in Streams : Owed(s) => UpToDate(s) \/ \E u \in Updates : OnItsWay(u)

ReachInv == OwnChannel /\ Serials /\ Reach

\* A stream gets its channel from OnPeerConnected, and keeps it unless it is closed
\* or the server stops.
LEMMA ChannelKept ==
  ASSUME TypeOK, [Next]_vars
  PROVE  \/ \E s \in Streams :
               /\ CreateChannel(s) /\ step' = [step EXCEPT ![s] = "refresh"]
               /\ opened' = [opened EXCEPT ![s] = serial] /\ serial' = serial
         \/ \A t \in Streams : step'[t] \notin InChannel
         \/ /\ \A t \in Streams : step'[t] \in InChannel => step[t] \in InChannel
            /\ CloseRegistered \/ (channel' = channel /\ closed' = closed)
            /\ opened' = opened
<1> DEFINE Kept == channel' = channel /\ closed' = closed /\ opened' = opened
           Stays == \A t \in Streams : step'[t] \in InChannel => step[t] \in InChannel
<1> USE DEF TypeOK, chanVars, streamVars, mapVars
<1>1. CASE UNCHANGED vars
  BY <1>1 DEF vars
<1>2. ASSUME NEW s \in Streams, CheckLimit(s) \/ ClientLeaves(s) PROVE Kept /\ Stays
  BY <1>2 DEF CheckLimit, ClientLeaves, Goto, InChannel
<1>3. ASSUME NEW s \in Streams,
             \/ \E now \in 1..MaxClock : Sync(s, now)
             \/ Validate(s) \/ LockPeer(s) \/ SyncPeer(s) \/ MarkPeerConnected(s) \/ SendInitialSync(s)
      PROVE  Kept /\ Stays
  BY <1>3 DEF Sync, Validate, LockPeer, SyncPeer, MarkPeerConnected, SendInitialSync, Goto, InChannel
<1>4. ASSUME NEW s \in Streams,
             \/ SetupRefresh(s) \/ Release(s) \/ HandleUpdate(s) \/ ChannelClosed(s) \/ StreamEnded(s)
             \/ CancelPeerRoutines(s) \/ MarkPeerDisconnected(s) \/ CancelRefresh(s)
      PROVE  Kept /\ Stays
  BY <1>4 DEF SetupRefresh, Release, HandleUpdate, ChannelClosed, StreamEnded, CancelPeerRoutines,
              MarkPeerDisconnected, CancelRefresh, Goto, InChannel
<1>5. ASSUME NEW s \in Streams, OnPeerDisconnected(s) PROVE CloseRegistered /\ opened' = opened /\ Stays
  BY <1>5 DEF OnPeerDisconnected, Goto, InChannel
<1>6. CASE DisconnectPeers
  BY <1>6 DEF DisconnectPeers
<1>7. CASE Restart
  BY <1>7 DEF Restart, InChannel
<1>8. CASE RefreshTick \/ PushNewRelayTokens \/ \E u \in Updates : AccountChanges(u) \/ PushStep(u)
  BY <1>8 DEF RefreshTick, PushNewRelayTokens, AccountChanges, PushStep, LoadAccount, ComputeMap, PushUpdate
<1>9. ASSUME NEW s \in Streams, OnPeerConnected(s)
      PROVE  \/ /\ CreateChannel(s) /\ step' = [step EXCEPT ![s] = "refresh"]
                /\ opened' = [opened EXCEPT ![s] = serial] /\ serial' = serial
             \/ Kept /\ Stays
  BY <1>9 DEF OnPeerConnected, Goto, InChannel
<1> QED
  BY <1>1, <1>2, <1>3, <1>4, <1>5, <1>6, <1>7, <1>8, <1>9 DEF Next, Environment, HandlerStep

\* OwnChannel: a stream whose channel is replaced finds it closed.
LEMMA OwnChannelStep ==
  ASSUME TypeOK, OwnChannel, [Next]_vars
  PROVE  OwnChannel'
<1> USE SyncAssumption DEF TypeOK, OwnChannel
<1>1. ASSUME NEW s \in Streams, CreateChannel(s), step' = [step EXCEPT ![s] = "refresh"]
      PROVE  OwnChannel'
  BY <1>1 DEF CreateChannel
<1>2. CASE \A t \in Streams : step'[t] \notin InChannel
  BY <1>2
<1>3. CASE /\ \A t \in Streams : step'[t] \in InChannel => step[t] \in InChannel
           /\ CloseRegistered \/ (channel' = channel /\ closed' = closed)
  BY <1>3 DEF CloseRegistered
<1> QED
  BY <1>1, <1>2, <1>3, ChannelKept

\* A stream that has missed nothing after a step had the same channel before it.
LEMMA ServedBefore ==
  ASSUME TypeOK, [Next]_vars, NEW t \in Streams, Owed(t)'
  PROVE  channel = t /\ step[t] \in InChannel /\ opened'[t] = opened[t]
<1> USE SyncAssumption DEF TypeOK, Owed
<1>1. ASSUME NEW s \in Streams, CreateChannel(s), opened' = [opened EXCEPT ![s] = serial], serial' = serial
      PROVE  FALSE
  <2>1. t = s
    BY <1>1 DEF CreateChannel
  <2>2. opened'[t] = serial
    BY <1>1, <2>1
  <2>3. serial \in Nat /\ serial' > opened'[t] /\ serial' = serial
    BY <1>1
  <2> HIDE DEF TypeOK, Owed
  <2> QED
    BY <2>2, <2>3
<1>2. CASE /\ \A r \in Streams : step'[r] \in InChannel => step[r] \in InChannel
           /\ CloseRegistered \/ (channel' = channel /\ closed' = closed)
           /\ opened' = opened
  BY <1>2 DEF CloseRegistered
<1> QED
  BY <1>1, <1>2, ChannelKept

\* What a step does to the serials, the channels and the pushes.
LEMMA DataMoves ==
  ASSUME TypeOK, [Next]_vars
  PROVE  \/ /\ UNCHANGED <<serial, sent, queue, push, pushed, ticks, ticking>>
            /\ netMap' = netMap \/ \E s \in Streams : netMap' = [netMap EXCEPT ![s] = serial]
         \/ \E s \in Streams : SendInitialSync(s) \/ HandleUpdate(s)
         \/ RefreshTick \/ PushNewRelayTokens \/ Restart
         \/ \E u \in Updates : AccountChanges(u) \/ LoadAccount(u) \/ ComputeMap(u) \/ PushUpdate(u)
<1> DEFINE Still == UNCHANGED <<serial, sent, queue, push, pushed, ticks, ticking, netMap>>
<1> USE DEF chanVars, streamVars, mapVars, pushVars
<1>1. CASE UNCHANGED vars
  BY <1>1 DEF vars
<1>2. ASSUME NEW s \in Streams, CheckLimit(s) \/ ClientLeaves(s) PROVE Still
  BY <1>2 DEF CheckLimit, ClientLeaves
<1>3. ASSUME NEW s \in Streams,
             \/ \E now \in 1..MaxClock : Sync(s, now)
             \/ Validate(s) \/ LockPeer(s) \/ MarkPeerConnected(s) \/ OnPeerConnected(s)
      PROVE  Still
  BY <1>3 DEF Sync, Validate, LockPeer, MarkPeerConnected, OnPeerConnected
<1>4. ASSUME NEW s \in Streams,
             \/ SetupRefresh(s) \/ Release(s) \/ ChannelClosed(s) \/ StreamEnded(s)
             \/ CancelPeerRoutines(s) \/ MarkPeerDisconnected(s) \/ OnPeerDisconnected(s) \/ CancelRefresh(s)
      PROVE  Still
  BY <1>4 DEF SetupRefresh, Release, ChannelClosed, StreamEnded, CancelPeerRoutines,
              MarkPeerDisconnected, OnPeerDisconnected, CancelRefresh
<1>5. ASSUME NEW s \in Streams, SyncPeer(s)
      PROVE  /\ UNCHANGED <<serial, sent, queue, push, pushed, ticks, ticking>>
             /\ netMap' = netMap \/ netMap' = [netMap EXCEPT ![s] = serial]
  BY <1>5 DEF SyncPeer
<1>6. CASE DisconnectPeers
  BY <1>6 DEF DisconnectPeers
<1> QED
  BY <1>1, <1>2, <1>3, <1>4, <1>5, <1>6 DEF Next, Environment, HandlerStep, PushStep

\* SendUpdate appends to the registered channel, and does so when it has room.
LEMMA SendUpdateAppends ==
  ASSUME TypeOK, NEW update \in Nat, SendUpdate(update)
  PROVE  /\ \A t \in Streams : \/ queue'[t] = queue[t]
                               \/ t = channel /\ queue'[t] = Append(queue[t], update)
         /\ channel \in Streams /\ HasRoom(channel) => queue'[channel] = Append(queue[channel], update)
  BY SyncAssumption DEF TypeOK, SendUpdate

\* What the appended channel holds, and how long it is.
LEMMA AppendHolds ==
  ASSUME NEW q \in Seq(Nat), NEW x \in Nat
  PROVE  /\ Len(Append(q, x)) = Len(q) + 1
         /\ \A i \in DOMAIN q : i \in DOMAIN Append(q, x) /\ Append(q, x)[i] = q[i]
         /\ Len(q) + 1 \in DOMAIN Append(q, x) /\ Append(q, x)[Len(q) + 1] = x
         /\ \A i \in DOMAIN Append(q, x) : i \in DOMAIN q \/ Append(q, x)[i] = x
  OBVIOUS

\* The channel has what was appended.
LEMMA AppendHas ==
  ASSUME NEW q \in Seq(Nat), NEW x \in Nat
  PROVE  \E i \in DOMAIN Append(q, x) : Append(q, x)[i] = x
  BY AppendHolds

\* What the channel holds after a receive.
LEMMA TailHolds ==
  ASSUME NEW q \in Seq(Nat), q # <<>>
  PROVE  /\ Head(q) \in Nat /\ 1 \in DOMAIN q /\ Head(q) = q[1]
         /\ Len(Tail(q)) = Len(q) - 1
         /\ \A i \in DOMAIN Tail(q) : i + 1 \in DOMAIN q /\ Tail(q)[i] = q[i + 1]
         /\ \A i \in DOMAIN q : i = 1 \/ (i - 1 \in DOMAIN Tail(q) /\ Tail(q)[i - 1] = q[i])
  OBVIOUS

\* A receive: what is sent and what is left.
LEMMA HandleUpdateData ==
  ASSUME TypeOK, NEW s \in Streams, HandleUpdate(s)
  PROVE  /\ queue[s] \in Seq(Nat) /\ queue[s] # <<>>
         /\ queue'[s] = Tail(queue[s])
         /\ \A t \in Streams \ {s} : queue'[t] = queue[t] /\ sent'[t] = sent[t]
         /\ UNCHANGED <<serial, netMap, push, pushed, ticks, ticking>>
         /\ \/ sent'[s] = (IF Head(queue[s]) > sent[s] THEN Head(queue[s]) ELSE sent[s])
            \/ sent'[s] = sent[s] /\ step'[s] = "relock"
  BY DEF HandleUpdate, TypeOK, Goto, pushVars

\* Serials: a map is computed from the account as it is, and moves from there.
LEMMA SerialsStep ==
  ASSUME TypeOK, Serials, [Next]_vars
  PROVE  Serials'
<1>0. /\ serial \in Nat /\ sent \in [Streams -> Nat] /\ netMap \in [Streams -> Nat]
      /\ pushed \in [Updates -> Nat] /\ queue \in [Streams -> Seq(Nat)]
  BY DEF TypeOK
<1>1. CASE /\ UNCHANGED <<serial, sent, queue, push, pushed, ticks, ticking>>
           /\ netMap' = netMap \/ \E s \in Streams : netMap' = [netMap EXCEPT ![s] = serial]
  BY <1>0, <1>1 DEF Serials
<1>2. ASSUME NEW s \in Streams, SendInitialSync(s) PROVE Serials'
  <2>1. /\ sent' = [sent EXCEPT ![s] = netMap[s]] \/ sent' = sent
        /\ UNCHANGED <<serial, netMap, queue, pushed>>
    BY <1>2 DEF SendInitialSync, chanVars, pushVars
  <2> QED
    BY <1>0, <2>1 DEF Serials
<1>3. ASSUME NEW s \in Streams, HandleUpdate(s) PROVE Serials'
  <2>1. /\ Head(queue[s]) \in Nat /\ Head(queue[s]) <= serial
        /\ \A i \in DOMAIN Tail(queue[s]) : Tail(queue[s])[i] <= serial
    BY <1>3, HandleUpdateData, TailHolds DEF Serials
  <2>2. \A t \in Streams : sent'[t] <= serial
    BY <1>0, <1>3, <2>1, HandleUpdateData DEF Serials
  <2>3. ASSUME NEW t \in Streams PROVE \A i \in DOMAIN queue'[t] : queue'[t][i] <= serial
    <3>1. CASE t = s
      <4>1. queue'[t] = Tail(queue[s])
        BY <1>3, <3>1, HandleUpdateData
      <4> QED
        BY <2>1, <4>1
    <3>2. CASE t # s
      <4>1. queue'[t] = queue[t]
        BY <1>3, <3>2, HandleUpdateData
      <4> QED
        BY <4>1 DEF Serials
    <3> QED
      BY <3>1, <3>2
  <2> QED
    BY <1>3, <2>2, <2>3, HandleUpdateData DEF Serials
<1>4. CASE RefreshTick \/ Restart
  BY <1>4 DEF RefreshTick, Restart, Serials, chanVars, pushVars
<1>5. ASSUME NEW update \in Nat, update <= serial, SendUpdate(update),
             UNCHANGED <<serial, netMap, sent, pushed>>
      PROVE  Serials'
  <2>1. ASSUME NEW t \in Streams PROVE \A i \in DOMAIN queue'[t] : queue'[t][i] <= serial
    <3>1. \A i \in DOMAIN queue[t] : queue[t][i] <= serial
      BY DEF Serials
    <3>2. \A i \in DOMAIN Append(queue[t], update) :
            \/ i \in DOMAIN queue[t] /\ Append(queue[t], update)[i] = queue[t][i]
            \/ Append(queue[t], update)[i] = update
      BY <1>0, AppendHolds
    <3>3. \A i \in DOMAIN Append(queue[t], update) : Append(queue[t], update)[i] <= serial
      BY <1>5, <3>1, <3>2
    <3> QED
      BY <1>5, <3>1, <3>3, SendUpdateAppends
  <2> QED
    BY <1>5, <2>1 DEF Serials
<1>6. CASE PushNewRelayTokens
  <2>1. SendUpdate(0) /\ UNCHANGED <<serial, netMap, sent, pushed>>
    BY <1>6 DEF PushNewRelayTokens, ControlConfig, pushVars
  <2> QED
    BY <1>0, <1>5, <2>1
<1>7. ASSUME NEW u \in Updates, PushUpdate(u) PROVE Serials'
  <2>1. SendUpdate(pushed[u]) /\ UNCHANGED <<serial, netMap, sent, pushed>>
    BY <1>7 DEF PushUpdate, mapVars
  <2> QED
    BY <1>0, <1>5, <2>1 DEF Serials
<1>8. ASSUME NEW u \in Updates, AccountChanges(u) PROVE Serials'
  <2>1. serial' = serial + 1 /\ UNCHANGED <<netMap, sent, queue, pushed>>
    BY <1>8 DEF AccountChanges, chanVars
  <2>2. \A n \in Nat : n <= serial => n <= serial'
    BY <1>0, <2>1
  <2>3. \A s \in Streams : \A i \in DOMAIN queue[s] : queue[s][i] \in Nat
    BY <1>0
  <2>4. \A s \in Streams : \A i \in DOMAIN queue[s] : queue[s][i] <= serial'
    BY <2>2, <2>3 DEF Serials
  <2>5. /\ \A s \in Streams : sent[s] <= serial' /\ netMap[s] <= serial'
        /\ \A r \in Updates : pushed[r] <= serial'
    BY <1>0, <2>2 DEF Serials
  <2>6. netMap' = netMap /\ sent' = sent /\ queue' = queue /\ pushed' = pushed
    BY <2>1
  <2> QED
    BY <2>4, <2>5, <2>6 DEF Serials
<1>9. ASSUME NEW u \in Updates, LoadAccount(u) \/ ComputeMap(u) PROVE Serials'
  <2>1. UNCHANGED <<serial, netMap, sent, queue>> /\ (pushed' = pushed \/ pushed' = [pushed EXCEPT ![u] = serial])
    BY <1>9 DEF LoadAccount, ComputeMap, chanVars, mapVars
  <2>2. \A r \in Updates : pushed'[r] <= serial
    BY <1>0, <2>1 DEF Serials
  <2> QED
    BY <2>1, <2>2 DEF Serials
<1> QED
  BY <1>1, <1>2, <1>3, <1>4, <1>6, <1>7, <1>8, <1>9, DataMoves

\* The number of pushes that are over.
LEMMA DeliveredIsFinite ==
  ASSUME IsFiniteSet(Updates)
  PROVE  /\ IsFiniteSet(Delivered) /\ Cardinality(Delivered) \in Nat
         /\ Cardinality(Delivered) <= Cardinality(Updates)
<1>1. Delivered \subseteq Updates
  BY DEF Delivered
<1> QED
  BY <1>1, FS_Subset, FS_CardinalityType

\* More pushes and refreshes that are over leave Room as it is.
LEMMA RoomGrows ==
  ASSUME IsFiniteSet(Updates), TypeOK, TypeOK', Room, Delivered \subseteq Delivered',
         ticks' - (IF ticking' THEN 1 ELSE 0) >= ticks - (IF ticking THEN 1 ELSE 0),
         \A t \in Streams : Len(queue'[t]) <= Len(queue[t])
  PROVE  Room'
<1>1. IsFiniteSet(Delivered')
  BY FS_Subset DEF Delivered
<1>2. Cardinality(Delivered) \in Nat /\ Cardinality(Delivered') \in Nat
      /\ Cardinality(Delivered) <= Cardinality(Delivered')
  BY <1>1, DeliveredIsFinite, FS_Subset, FS_CardinalityType
<1>3. ticks \in Nat /\ ticks' \in Nat
  BY SyncAssumption DEF TypeOK
<1> DEFINE t1 == IF ticking THEN 1 ELSE 0
           t2 == IF ticking' THEN 1 ELSE 0
<1>a. t1 \in Nat /\ t2 \in Nat /\ ticks' - t2 >= ticks - t1
  OBVIOUS
<1>b. Pushes = Cardinality(Delivered) + ticks - t1 /\ Pushes' = Cardinality(Delivered') + ticks' - t2
  BY DEF Pushes
<1> HIDE DEF t1, t2
<1>c. \A c1, c2, k1, k2, x1, x2 \in Nat :
        c1 <= c2 /\ k2 - x2 >= k1 - x1
        => c1 + k1 - x1 \in Int /\ c2 + k2 - x2 \in Int /\ c1 + k1 - x1 <= c2 + k2 - x2
  OBVIOUS
<1>4. Pushes \in Int /\ Pushes' \in Int /\ Pushes <= Pushes'
  BY <1>2, <1>3, <1>a, <1>b, <1>c
<1>5. \A t \in Streams : Len(queue[t]) \in Nat /\ Len(queue'[t]) \in Nat
  <2>1. queue \in [Streams -> Seq(Nat)] /\ queue' \in [Streams -> Seq(Nat)]
    BY DEF TypeOK
  <2> QED
    BY <2>1
<1> QED
  BY <1>4, <1>5 DEF Room

\* Room: each push and each refresh puts at most one update into a channel.
LEMMA RoomStep ==
  ASSUME IsFiniteSet(Updates), TypeOK, TypeOK', Room, [Next]_vars
  PROVE  Room'
<1>0. /\ ticks \in Nat /\ pushed \in [Updates -> Nat] /\ \A t \in Streams : queue[t] \in Seq(Nat)
      /\ \A t \in Streams : Len(queue[t]) \in Nat
      /\ push \in [Updates -> {"idle", "load", "check", "send", "done", "failed"}]
  <2>1. /\ pushed \in [Updates -> Nat] /\ queue \in [Streams -> Seq(Nat)]
        /\ push \in [Updates -> {"idle", "load", "check", "send", "done", "failed"}]
    BY DEF TypeOK
  <2>2. ticks \in Nat
    BY SyncAssumption DEF TypeOK
  <2>3. \A t \in Streams : queue[t] \in Seq(Nat) /\ Len(queue[t]) \in Nat
    BY <2>1
  <2> QED
    BY <2>1, <2>2, <2>3
<1>1. CASE UNCHANGED <<queue, push, ticks, ticking>>
  BY <1>1 DEF Room, Pushes, Delivered
<1>2. ASSUME NEW s \in Streams, SendInitialSync(s) PROVE Room'
  BY <1>1, <1>2 DEF SendInitialSync, chanVars, pushVars
<1>3. ASSUME NEW s \in Streams, HandleUpdate(s) PROVE Room'
  <2>1. Len(queue'[s]) = Len(queue[s]) - 1 /\ \A t \in Streams \ {s} : queue'[t] = queue[t]
    BY <1>3, HandleUpdateData, TailHolds
  <2>2. ASSUME NEW t \in Streams PROVE Len(queue'[t]) <= Len(queue[t])
    <3>1. Len(queue[t]) \in Nat
      BY <1>0
    <3>2. Len(queue'[t]) = Len(queue[t]) - 1 \/ Len(queue'[t]) = Len(queue[t])
      BY <2>1
    <3> QED
      BY <3>1, <3>2
  <2>3. Delivered' = Delivered /\ ticks' = ticks /\ ticking' = ticking
    BY <1>3, HandleUpdateData DEF Delivered
  <2> QED
    BY <1>0, <2>2, <2>3, RoomGrows
<1>4. CASE RefreshTick
  <2>1. ticks' = ticks + 1 /\ ~ticking /\ ticking' /\ queue' = queue /\ Delivered' = Delivered
    BY <1>0, <1>4 DEF RefreshTick, chanVars, pushVars, Delivered
  <2> QED
    BY <1>0, <2>1, RoomGrows
<1>5. CASE Restart
  <2>1. ticks' = ticks /\ ~ticking' /\ queue' = queue /\ Delivered \subseteq Delivered'
    BY <1>5 DEF Restart, Delivered
  <2> QED
    BY <1>0, <2>1, RoomGrows
<1>6. CASE \E u \in Updates : AccountChanges(u) \/ LoadAccount(u) \/ ComputeMap(u)
  <2>1. ticks' = ticks /\ ticking' = ticking /\ queue' = queue /\ Delivered \subseteq Delivered'
    BY <1>0, <1>6 DEF AccountChanges, LoadAccount, ComputeMap, Delivered, chanVars, mapVars
  <2> QED
    BY <1>0, <2>1, RoomGrows
<1>7. ASSUME NEW update \in Nat, SendUpdate(update), Pushes' = Pushes + 1 PROVE Room'
  <2>1. \A t \in Streams : Len(queue'[t]) <= Len(queue[t]) + 1
    <3>1. \A t \in Streams : Len(Append(queue[t], update)) = Len(queue[t]) + 1
      BY <1>0, AppendHolds
    <3>2. \A t \in Streams : Len(queue'[t]) = Len(queue[t]) \/ Len(queue'[t]) = Len(queue[t]) + 1
      BY <1>7, <3>1, SendUpdateAppends
    <3> QED
      BY <1>0, <3>2
  <2>2. Cardinality(Delivered) \in Nat /\ Pushes \in Int
    BY <1>0, DeliveredIsFinite DEF Pushes
  <2>3. \A t \in Streams : Len(queue'[t]) \in Nat
    BY DEF TypeOK
  <2> QED
    BY <1>0, <1>7, <2>1, <2>2, <2>3 DEF Room
<1>8. CASE PushNewRelayTokens
  <2>1. SendUpdate(0) /\ ticking /\ ~ticking' /\ ticks' = ticks /\ Delivered' = Delivered
    BY <1>0, <1>8 DEF PushNewRelayTokens, ControlConfig, pushVars, Delivered
  <2>a. Pushes = Cardinality(Delivered) + ticks - 1 /\ Pushes' = Cardinality(Delivered) + ticks - 0
    BY <2>1 DEF Pushes
  <2>b. Cardinality(Delivered) \in Nat
    BY DeliveredIsFinite
  <2>2. Pushes' = Pushes + 1
    BY <1>0, <2>a, <2>b
  <2> QED
    BY <1>7, <2>1, <2>2
<1>9. ASSUME NEW u \in Updates, PushUpdate(u) PROVE Room'
  <2>1. SendUpdate(pushed[u]) /\ ticking' = ticking /\ ticks' = ticks
        /\ Delivered' = Delivered \cup {u} /\ u \notin Delivered
    BY <1>0, <1>9 DEF PushUpdate, mapVars, Delivered
  <2>2. Cardinality(Delivered') = Cardinality(Delivered) + 1
    BY <2>1, DeliveredIsFinite, FS_AddElement
  <2>3. Pushes' = Pushes + 1
    BY <1>0, <2>1, <2>2, DeliveredIsFinite DEF Pushes
  <2> QED
    BY <1>0, <1>7, <2>1, <2>3
<1> QED
  BY <1>1, <1>2, <1>3, <1>4, <1>5, <1>6, <1>8, <1>9, DataMoves

\* With at most ChanCap updates in all, a push that is about to send finds room.
LEMMA PushFindsRoom ==
  ASSUME IsFiniteSet(Updates), Cardinality(Updates) + MaxTicks <= ChanCap,
         TypeOK, Room, NEW u \in Updates, push[u] = "send", NEW t \in Streams
  PROVE  HasRoom(t)
<1>1. u \notin Delivered /\ Delivered \subseteq Updates
  BY DEF Delivered
<1>2. /\ Cardinality(Delivered) \in Nat /\ Cardinality(Updates) \in Nat
      /\ Cardinality(Delivered) < Cardinality(Updates)
  BY <1>1, DeliveredIsFinite, FS_Subset, FS_CardinalityType
<1>3. /\ ticks \in Nat /\ ticks <= MaxTicks /\ MaxTicks \in Nat /\ ChanCap \in Nat
      /\ Len(queue[t]) \in Nat
  BY SyncAssumption DEF TypeOK
<1>4. Pushes < ChanCap /\ Pushes \in Int
  BY <1>2, <1>3 DEF Pushes
<1> QED
  BY <1>3, <1>4 DEF Room, HasRoom

\* No push of a map finds the channel of the peer full.
PushFits == \A u \in Updates : PushUpdate(u) /\ channel # NoStream => HasRoom(channel)

\* What is on its way to a stream with a channel stays there, or is sent.
LEMMA UpToDateStays ==
  ASSUME TypeOK, Serials, [Next]_vars, serial' = serial, NEW t \in Streams,
         step[t] \in InChannel, step'[t] \in InChannel, UpToDate(t)
  PROVE  UpToDate(t)'
<1>0. serial \in Nat /\ sent \in [Streams -> Nat] /\ queue[t] \in Seq(Nat) /\ pushed \in [Updates -> Nat]
  BY DEF TypeOK
<1>1. CASE sent'[t] = sent[t] /\ queue'[t] = queue[t]
  BY <1>1 DEF UpToDate
<1>2. ASSUME NEW s \in Streams, SendInitialSync(s) PROVE UpToDate(t)'
  <2>1. s # t
    BY <1>2 DEF SendInitialSync, InChannel
  <2> QED
    BY <1>0, <1>1, <1>2, <2>1 DEF SendInitialSync, chanVars
<1>3. ASSUME NEW s \in Streams, HandleUpdate(s) PROVE UpToDate(t)'
  <2>1. CASE s # t
    BY <1>1, <1>3, <2>1, HandleUpdateData
  <2>2. CASE s = t
    <3>1. /\ queue[t] # <<>> /\ queue'[t] = Tail(queue[t])
          /\ sent'[t] = (IF Head(queue[t]) > sent[t] THEN Head(queue[t]) ELSE sent[t])
      BY <1>3, <2>2, HandleUpdateData DEF InChannel
    <3>2. Head(queue[t]) \in Nat /\ Head(queue[t]) = queue[t][1] /\ 1 \in DOMAIN queue[t]
      BY <1>0, <3>1, TailHolds
    <3>3. Head(queue[t]) <= serial /\ sent[t] <= serial /\ sent[t] \in Nat
      BY <1>0, <3>2 DEF Serials
    <3>4. CASE sent[t] = serial \/ queue[t][1] = serial
      <4>1. sent'[t] = serial
        BY <1>0, <3>1, <3>2, <3>3, <3>4
      <4> QED
        BY <4>1 DEF UpToDate
    <3>5. CASE ~(sent[t] = serial \/ queue[t][1] = serial)
      <4>1. PICK i \in DOMAIN queue[t] : queue[t][i] = serial
        BY <3>5 DEF UpToDate
      <4>2. i - 1 \in DOMAIN Tail(queue[t]) /\ Tail(queue[t])[i - 1] = serial
        BY <1>0, <3>1, <3>5, <4>1, TailHolds
      <4> QED
        BY <3>1, <4>2 DEF UpToDate
    <3> QED
      BY <3>4, <3>5
  <2> QED
    BY <2>1, <2>2
<1>4. ASSUME NEW update \in Nat, SendUpdate(update), sent' = sent PROVE UpToDate(t)'
  <2>1. CASE queue'[t] = queue[t]
    BY <1>1, <1>4, <2>1
  <2>2. CASE queue'[t] = Append(queue[t], update)
    <3>1. \A i \in DOMAIN queue[t] : i \in DOMAIN queue'[t] /\ queue'[t][i] = queue[t][i]
      BY <1>0, <1>4, <2>2, AppendHolds
    <3> QED
      BY <1>4, <3>1 DEF UpToDate
  <2> QED
    BY <1>4, <2>1, <2>2, SendUpdateAppends
<1>5. CASE PushNewRelayTokens
  <2>1. SendUpdate(0) /\ sent' = sent
    BY <1>5 DEF PushNewRelayTokens, ControlConfig
  <2> QED
    BY <1>4, <2>1
<1>6. ASSUME NEW u \in Updates, PushUpdate(u) PROVE UpToDate(t)'
  <2>1. SendUpdate(pushed[u]) /\ sent' = sent
    BY <1>6 DEF PushUpdate, mapVars
  <2> QED
    BY <1>0, <1>4, <2>1
<1>7. CASE RefreshTick \/ Restart \/ \E u \in Updates : AccountChanges(u) \/ LoadAccount(u) \/ ComputeMap(u)
  BY <1>1, <1>7 DEF RefreshTick, Restart, AccountChanges, LoadAccount, ComputeMap, chanVars, mapVars
<1> QED
  BY <1>1, <1>2, <1>3, <1>5, <1>6, <1>7, DataMoves

\* A push that has the current map, or has still to load it, brings it to a stream
\* whose channel has room.
LEMMA OnItsWayArrives ==
  ASSUME TypeOK, [Next]_vars, PushFits,
         serial' = serial, NEW t \in Streams, channel = t, step'[t] \in InChannel,
         NEW u \in Updates, OnItsWay(u)
  PROVE  OnItsWay(u)' \/ UpToDate(t)'
<1>0. /\ pushed \in [Updates -> Nat] /\ queue[t] \in Seq(Nat) /\ t # NoStream
      /\ push \in [Updates -> {"idle", "load", "check", "send", "done", "failed"}]
  BY SyncAssumption DEF TypeOK
<1>1. CASE push'[u] = push[u] /\ pushed'[u] = pushed[u]
  BY <1>1 DEF OnItsWay
<1>2. CASE UNCHANGED <<push, pushed>>
  BY <1>1, <1>2
<1>3. CASE \E s \in Streams : SendInitialSync(s) \/ HandleUpdate(s)
  BY <1>2, <1>3 DEF SendInitialSync, HandleUpdate, pushVars
<1>4. CASE RefreshTick \/ PushNewRelayTokens
  BY <1>2, <1>4 DEF RefreshTick, PushNewRelayTokens, pushVars
<1>5. CASE Restart
  BY <1>5 DEF Restart, InChannel
<1>6. ASSUME NEW v \in Updates, AccountChanges(v) \/ LoadAccount(v) \/ ComputeMap(v) \/ PushUpdate(v), v # u
      PROVE  OnItsWay(u)'
  <2>1. push'[u] = push[u] /\ pushed'[u] = pushed[u]
    BY <1>0, <1>6 DEF AccountChanges, LoadAccount, ComputeMap, PushUpdate
  <2> QED
    BY <2>1 DEF OnItsWay
<1>7. CASE AccountChanges(u)
  BY <1>0, <1>7 DEF AccountChanges, OnItsWay
<1>8. CASE LoadAccount(u)
  BY <1>0, <1>8 DEF LoadAccount, OnItsWay
<1>9. CASE ComputeMap(u)
  BY <1>0, <1>9 DEF ComputeMap, OnItsWay
<1>10. CASE PushUpdate(u)
  <2>1. push[u] = "send" /\ SendUpdate(pushed[u]) /\ pushed[u] = serial
    BY <1>10 DEF PushUpdate, OnItsWay
  <2>2. HasRoom(t)
    BY <1>0, <1>10 DEF PushFits
  <2>3. queue'[t] = Append(queue[t], serial)
    BY <1>0, <2>1, <2>2, SendUpdateAppends
  <2>4. \E i \in DOMAIN queue'[t] : queue'[t][i] = serial
    <3>1. serial \in Nat
      BY <1>0, <2>1
    <3>2. \E i \in DOMAIN Append(queue[t], serial) : Append(queue[t], serial)[i] = serial
      BY <1>0, <3>1, AppendHas
    <3> QED
      BY <2>3, <3>2
  <2> QED
    BY <2>4 DEF UpToDate
<1> QED
  BY <1>2, <1>3, <1>4, <1>5, <1>6, <1>7, <1>8, <1>9, <1>10, DataMoves

\* Reach: a change starts a push, and a push ends with the map in the channel.
LEMMA ReachStep ==
  ASSUME TypeOK, Serials, Reach, [Next]_vars, PushFits
  PROVE  Reach'
<1> SUFFICES ASSUME NEW t \in Streams, Owed(t)' PROVE UpToDate(t)' \/ \E u \in Updates : OnItsWay(u)'
  BY DEF Reach
<1>1. channel = t /\ step[t] \in InChannel /\ opened'[t] = opened[t] /\ step'[t] \in InChannel
  BY ServedBefore DEF Owed
<1>2. ASSUME NEW u \in Updates, AccountChanges(u) PROVE OnItsWay(u)'
  BY <1>2 DEF AccountChanges, OnItsWay, TypeOK
<1>3. CASE serial' = serial
  <2>1. UpToDate(t) \/ \E u \in Updates : OnItsWay(u)
    BY <1>1, <1>3 DEF Reach, Owed
  <2> QED
    BY <1>1, <1>3, <2>1, UpToDateStays, OnItsWayArrives
<1>4. serial' = serial \/ \E u \in Updates : AccountChanges(u)
  BY DataMoves DEF SendInitialSync, HandleUpdate, RefreshTick, PushNewRelayTokens, Restart,
                   LoadAccount, ComputeMap, PushUpdate, mapVars
<1> QED
  BY <1>2, <1>3, <1>4

\* Before the first change nothing is pushed.
LEMMA ReachInit == Init => ReachInv
<1> SUFFICES ASSUME Init PROVE ReachInv
  OBVIOUS
<1>1. /\ \A s \in Streams : step[s] = "idle" /\ queue[s] = <<>> /\ sent[s] = 0 /\ netMap[s] = 0
      /\ serial = 1 /\ channel = NoStream
      /\ \A u \in Updates : pushed[u] = 0
  BY DEF Init
<1>2. OwnChannel /\ Reach
  BY <1>1, SyncAssumption DEF OwnChannel, Reach, Owed, InChannel
<1>3. Serials
  BY <1>1 DEF Serials
<1> QED
  BY <1>2, <1>3 DEF ReachInv

\* The channels are empty at first.
LEMMA RoomInit ==
  ASSUME IsFiniteSet(Updates), Init
  PROVE  Room
<1>1. ticks = 0 /\ ~ticking /\ \A s \in Streams : queue[s] = <<>>
  BY DEF Init
<1>2. Pushes = Cardinality(Delivered) + 0 - 0 /\ Cardinality(Delivered) \in Nat
  BY <1>1, DeliveredIsFinite DEF Pushes
<1> QED
  BY <1>1, <1>2 DEF Room

\* ReachInv is an invariant as long as no push is dropped.
LEMMA ReachInvStep == TypeOK /\ ReachInv /\ [Next]_vars /\ [PushFits]_vars => (TypeOK /\ ReachInv)'
<1> SUFFICES ASSUME TypeOK, ReachInv, [Next]_vars, [PushFits]_vars PROVE (TypeOK /\ ReachInv)'
  OBVIOUS
<1>1. TypeOK'
  BY TypeStep
<1>2. OwnChannel' /\ Serials'
  BY OwnChannelStep, SerialsStep DEF ReachInv
<1>3. CASE PushFits
  BY <1>1, <1>2, <1>3, ReachStep DEF ReachInv
<1>4. CASE UNCHANGED vars
  BY <1>1, <1>2, <1>4 DEF ReachInv, Reach, Owed, UpToDate, OnItsWay, vars
<1> QED
  BY <1>3, <1>4

\* Once all pushes are over, what a stream is owed has been sent or is in its channel.
LEMMA ReachSuffices == ReachInv => UpdatesReachStream
<1> SUFFICES ASSUME ReachInv, PushesOver,
                    NEW s \in Streams, step[s] = "serve", s \notin closed, serial > opened[s]
             PROVE  UpToDate(s)
  BY DEF UpdatesReachStream
<1>1. Owed(s)
  BY DEF ReachInv, OwnChannel, Owed, InChannel
<1>2. \A u \in Updates : ~OnItsWay(u)
  BY DEF PushesOver, OnItsWay
<1> QED
  BY <1>1, <1>2 DEF ReachInv, Reach

\* UpdatesReachUnlessDropped: however many changes and refreshes there are, a
\* stream that is being served has sent, or has in its channel, the current network
\* map once all pushes are over and if the account changed after its channel was
\* made, unless SendUpdate dropped a map because the channel was full: whichever
\* stream closed or replaced which channel, in whatever order the pushes computed
\* and sent their maps, with failures and restarts.
THEOREM UpdatesReachUnlessDropped == Spec /\ [][PushFits]_vars => []UpdatesReachStream
  BY InitType, ReachInit, ReachInvStep, ReachSuffices, PTL DEF Spec

\* EveryUpdateReaches: when the channel has room for all updates that are pushed
\* (100 in the code), no map is dropped, and UpdatesReachStream holds of every
\* behaviour.
THEOREM EveryUpdateReaches ==
  ASSUME IsFiniteSet(Updates), Cardinality(Updates) + MaxTicks <= ChanCap
  PROVE  Spec => []UpdatesReachStream
<1>1. Init => TypeOK /\ Room
  BY InitType, RoomInit
<1>2. TypeOK /\ Room /\ [Next]_vars => (TypeOK /\ Room)'
  BY TypeStep, RoomStep
<1>3. TypeOK /\ Room => [PushFits]_vars
  <2> SUFFICES ASSUME TypeOK, Room, NEW u \in Updates, PushUpdate(u), channel # NoStream
               PROVE  HasRoom(channel)
    BY DEF PushFits
  <2> QED
    BY PushFindsRoom DEF PushUpdate, TypeOK
<1>4. Spec => [][PushFits]_vars
  BY <1>1, <1>2, <1>3, PTL DEF Spec
<1> QED
  BY <1>4, UpdatesReachUnlessDropped, PTL
===============================================================================
