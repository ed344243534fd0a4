--------------------------- MODULE JobManagerProofs ---------------------------
(***************************************************************************)
(* Proofs about JobManager, as the part JM of MCManagement, where pending  *)
(* is called tracked and the database may fail.                            *)
(*                                                                         *)
(* PendingHasCarrier is not inductive: AddEvent sends on a channel that    *)
(* SendJob looked up some steps before.  ChannelInv says what is known of  *)
(* such a channel: while it is open the handler of its stream runs.        *)
(* FinishedStays needs that a job is stored once, by the CreatePeerJob     *)
(* that returns with it (StoredOnce).  JobInOnePlace follows a job from    *)
(* its channel to the peer and to its answer.                              *)
(***************************************************************************)
EXTENDS MCManagement, SequenceTheorems, TLAPS

\* The provers that a leaf which names none is tried with, in turn.
USE ZenonT(4), SMTT(10), ZenonT(30), SMTT(30)

HandlerSteps == {"idle", "fail", "create", "loop", "close", "done"}
CreatorSteps == {"idle", "free", "lookup", "track", "add", "cleanup", "persist", "done"}

Runs(s) == handler[s] \in {"loop", "close"}

ChannelInv ==
    /\ handler \in [Streams -> HandlerSteps]
    /\ creator \in [Jobs -> CreatorSteps]
    /\ chosen \in [Jobs -> Streams \cup {NoStream}]
    /\ channel \in Streams \cup {NoStream}
    /\ tracked \subseteq Jobs
    /\ channel # NoStream => Runs(channel)
    /\ \A s \in Streams : Runs(s) => channel = s \/ s \in closed
    /\ \A j \in Jobs : creator[j] \in {"track", "add"} => chosen[j] \in Streams
    /\ \A j \in Jobs : chosen[j] \in Streams => Runs(chosen[j]) \/ chosen[j] \in closed

\* The creator of a pending job sends it, takes it back, or has given it to a stream
\* whose handler runs.
CarrierInv ==
    \A j \in tracked :
        \/ creator[j] \in {"add", "cleanup"}
        \/ creator[j] \in {"persist", "done"} /\ chosen[j] \in Streams /\ Runs(chosen[j])

\* No stream has a channel at the start.
LEMMA CarrierInit ==
  ASSUME JM!Init
  PROVE  ChannelInv /\ CarrierInv
BY PartsAssumption DEF JM!Init, ChannelInv, CarrierInv, Runs, HandlerSteps, CreatorSteps

\* CreatePeerJob closes no channel and starts no handler: it looks a registered channel up
\* and sends on it only while it is open.
LEMMA CreatorCarrier ==
  ASSUME ChannelInv, CarrierInv, NEW j \in Jobs,
         JM!IsPeerConnected(j) \/ JM!CreatorStep(j)
  PROVE  ChannelInv' /\ CarrierInv'
<1> USE DEF ChannelInv, CarrierInv, Runs, HandlerSteps, CreatorSteps, JM!CreatorGoto,
            JM!streamVars, JM!chanVars
<1>1. CASE JM!IsPeerConnected(j) \/ JM!IsPeerHasPendingJobs(j)
  BY <1>1 DEF JM!IsPeerConnected, JM!IsPeerHasPendingJobs
<1>2. CASE JM!SendJob(j)
  BY <1>2, PartsAssumption DEF JM!SendJob
<1>3. CASE JM!TrackPending(j)
  BY <1>3 DEF JM!TrackPending
<1>4. CASE JM!AddEvent(j)
  BY <1>4 DEF JM!AddEvent
<1>5. CASE JM!AddEventFails(j)
  BY <1>5 DEF JM!AddEventFails
<1>6. CASE JM!Cleanup(j)
  BY <1>6 DEF JM!Cleanup
<1>7. CASE JM!StoreJob(j)
  BY <1>7 DEF JM!StoreJob
<1> QED
  BY <1>1, <1>2, <1>3, <1>4, <1>5, <1>6, <1>7 DEF JM!CreatorStep

\* A stream that opens closes the channel it replaces, and the deferred CloseChannel leaves
\* no channel open and no job pending.
LEMMA StreamCarrier ==
  ASSUME ChannelInv, CarrierInv, NEW s \in Streams,
         JM!Job(s) \/ JM!StreamStep(s) \/ JM!ClientLeaves(s)
  PROVE  ChannelInv' /\ CarrierInv'
<1> USE DEF ChannelInv, CarrierInv, Runs, HandlerSteps, CreatorSteps, JM!Goto, JM!chanVars, JM!jobVars
<1>1. CASE JM!Job(s)
  BY <1>1 DEF JM!Job
<1>2. CASE JM!FailStored(s)
  BY <1>2 DEF JM!FailStored
<1>3. CASE JM!CreateJobChannel(s)
  BY <1>3, PartsAssumption DEF JM!CreateJobChannel
<1>4. CASE JM!SendEvent(s)
  BY <1>4 DEF JM!SendEvent
<1>5. CASE JM!LoopEnds(s)
  BY <1>5 DEF JM!LoopEnds
<1>6. CASE JM!CloseChannel(s)
  BY <1>6, PartsAssumption DEF JM!CloseChannel, JM!CloseRegistered
<1>7. CASE JM!ClientLeaves(s)
  BY <1>7 DEF JM!ClientLeaves
<1> QED
  BY <1>1, <1>2, <1>3, <1>4, <1>5, <1>6, <1>7 DEF JM!StreamStep

\* Every step keeps the two.
LEMMA CarrierStep ==
  ASSUME ChannelInv, CarrierInv, [JM!Next]_(JM!vars)
  PROVE  ChannelInv' /\ CarrierInv'
<1>1. CASE UNCHANGED JM!vars
  BY <1>1 DEF JM!vars, ChannelInv, CarrierInv, Runs
<1>2. ASSUME NEW j \in Jobs, JM!HandleResponse(j) PROVE ChannelInv' /\ CarrierInv'
  BY <1>2 DEF JM!HandleResponse, JM!streamVars, JM!chanVars, JM!jobVars, ChannelInv, CarrierInv, Runs
<1> QED
  BY <1>1, <1>2, CreatorCarrier, StreamCarrier DEF JM!Next

\* PendingHasCarrier, for any number of streams and jobs and any capacity of the channels,
\* with a store that may fail: no race of SendJob with the end of its stream makes "peer
\* already has pending job" permanent.
THEOREM PendingIsCarried == JM!Spec => []PendingHasCarrier
<1>1. JM!Init => ChannelInv /\ CarrierInv
  BY CarrierInit
<1>2. (ChannelInv /\ CarrierInv) /\ [JM!Next]_(JM!vars) => (ChannelInv /\ CarrierInv)'
  BY CarrierStep
<1>3. ChannelInv /\ CarrierInv => PendingHasCarrier
  BY DEF ChannelInv, CarrierInv, PendingHasCarrier, JM!PendingHasCarrier, JM!Carries, Runs
<1> QED
  BY <1>1, <1>2, <1>3, PTL DEF JM!Spec

-----------------------------------------------------------------------------
(* FinishedStays. *)

StoredOnce ==
    /\ creator \in [Jobs -> CreatorSteps]
    /\ status \in [Jobs -> {"none", "pending", "failed", "finished"}]
    /\ tracked \subseteq Jobs
    /\ \A j \in Jobs : creator[j] # "done" => status[j] = "none"

\* No stored job that is not pending is changed by a stream that fails pending jobs.
LEMMA MarkFailedKeeps ==
  ASSUME StoredOnce, NEW js \in SUBSET Jobs, JM!MarkFailed(js)
  PROVE  /\ status' \in [Jobs -> {"none", "pending", "failed", "finished"}]
         /\ \A j \in Jobs : status[j] \in {"none", "finished"} => status'[j] = status[j]
BY DEF StoredOnce, JM!MarkFailed

\* A job is stored by the step that ends its CreatePeerJob, and only then can it be failed or
\* finished; a finished job is left as it is.
LEMMA StoredOnceStep ==
  ASSUME StoredOnce, [JM!Next]_(JM!vars)
  PROVE  /\ StoredOnce'
         /\ \A j \in Jobs : status[j] = "finished" => status'[j] = "finished"
<1>1. CASE UNCHANGED JM!vars
  BY <1>1 DEF JM!vars, StoredOnce
<1>2. ASSUME NEW j \in Jobs,
             \/ JM!IsPeerConnected(j) \/ JM!IsPeerHasPendingJobs(j) \/ JM!SendJob(j)
             \/ JM!TrackPending(j) \/ JM!AddEvent(j) \/ JM!AddEventFails(j)
      PROVE  StoredOnce' /\ status' = status
  BY <1>2 DEF StoredOnce, CreatorSteps, JM!CreatorGoto, JM!IsPeerConnected, JM!IsPeerHasPendingJobs, JM!SendJob,
              JM!TrackPending, JM!AddEvent, JM!AddEventFails
<1>3. ASSUME NEW j \in Jobs, JM!Cleanup(j)
      PROVE  StoredOnce' /\ \A i \in Jobs : status[i] = "finished" => status'[i] = "finished"
  <2>1. status' = status \/ JM!MarkFailed({j})
    BY <1>3 DEF JM!Cleanup
  <2> QED
    BY <1>3, <2>1, MarkFailedKeeps DEF JM!Cleanup, StoredOnce, CreatorSteps, JM!CreatorGoto
<1>4. ASSUME NEW j \in Jobs, JM!StoreJob(j)
      PROVE  StoredOnce' /\ \A i \in Jobs : status[i] = "finished" => status'[i] = "finished"
  BY <1>4 DEF JM!StoreJob, StoredOnce, CreatorSteps, JM!CreatorGoto
<1>5. ASSUME NEW j \in Jobs, JM!HandleResponse(j)
      PROVE  StoredOnce' /\ \A i \in Jobs : status[i] = "finished" => status'[i] = "finished"
  BY <1>5 DEF JM!HandleResponse, StoredOnce, CreatorSteps, JM!jobVars
<1>6. ASSUME NEW s \in Streams, JM!FailStored(s) \/ JM!CloseChannel(s)
      PROVE  StoredOnce' /\ \A i \in Jobs : status[i] = "finished" => status'[i] = "finished"
  <2>1. JM!MarkFailed(Jobs) \/ JM!MarkFailed(tracked)
    BY <1>6 DEF JM!FailStored, JM!CloseChannel
  <2> QED
    BY <1>6, <2>1, MarkFailedKeeps DEF JM!FailStored, JM!CloseChannel, StoredOnce, JM!jobVars
<1>7. ASSUME NEW s \in Streams,
             JM!Job(s) \/ JM!CreateJobChannel(s) \/ JM!SendEvent(s) \/ JM!LoopEnds(s) \/ JM!ClientLeaves(s)
      PROVE  StoredOnce' /\ status' = status
  BY <1>7 DEF JM!Job, JM!CreateJobChannel, JM!SendEvent, JM!LoopEnds, JM!ClientLeaves, StoredOnce, JM!jobVars
<1> QED
  BY <1>1, <1>2, <1>3, <1>4, <1>5, <1>6, <1>7 DEF JM!Next, JM!CreatorStep, JM!StreamStep

\* FinishedStays, for any number of streams and jobs, with a store that may fail: a stored
\* answer is neither failed by a stream that opens or closes later nor put back to pending.
THEOREM FinishedIsKept == JM!Spec => FinishedStays
<1>1. JM!Init => StoredOnce
  BY DEF JM!Init, StoredOnce, CreatorSteps
<1>2. StoredOnce /\ [JM!Next]_(JM!vars) => StoredOnce'
  BY StoredOnceStep
<1>3. StoredOnce /\ [JM!Next]_(JM!vars)
      => [\A j \in Jobs : status[j] = "finished" => status'[j] = "finished"]_(JM!vars)
  BY StoredOnceStep
<1> QED
  BY <1>1, <1>2, <1>3, PTL DEF JM!Spec, FinishedStays, JM!FinishedStays

-----------------------------------------------------------------------------
(* A job is in at most one place. *)

\* JobInOnePlace: a job that SendJob queued is in one place of one channel, or with the
\* peer, or its answer was handled, or it was lost with a stream: never two of these.
JobInOnePlace ==
    /\ \A s, t \in Streams : \A i \in DOMAIN events[s], k \in DOMAIN events[t] :
         events[s][i] = events[t][k] => s = t /\ i = k
    /\ \A s \in Streams : \A i \in DOMAIN events[s] : events[s][i] \notin delivered \cup handled
    /\ delivered \cap handled = {}

Sent == {"persist", "done"}

\* Queued jobs are those that SendJob put on the channel it chose.
QueuedWell(s, q) ==
    /\ q \in Seq(Jobs)
    /\ \A i \in DOMAIN q : creator[q[i]] \in Sent /\ chosen[q[i]] = s /\ q[i] \notin delivered \cup handled
    /\ \A i, k \in DOMAIN q : q[i] = q[k] => i = k

PlaceInv ==
    /\ events \in [Streams -> Seq(Jobs)] /\ \A s \in Streams : QueuedWell(s, events[s])
    /\ delivered \subseteq Jobs /\ handled \subseteq Jobs /\ delivered \cap handled = {}
    /\ \A j \in delivered \cup handled : creator[j] \in Sent

\* What AddEvent makes of a channel the job is not in.
LEMMA AppendedOnce ==
  ASSUME NEW q \in Seq(Jobs), NEW j \in Jobs
  PROVE  /\ Append(q, j) \in Seq(Jobs)
         /\ \A i \in DOMAIN Append(q, j) :
              \/ i \in DOMAIN q /\ Append(q, j)[i] = q[i]
              \/ i = Len(q) + 1 /\ Append(q, j)[i] = j
<1>1. Len(q) \in Nat /\ DOMAIN q = 1..Len(q)
  BY LenProperties
<1>2. /\ Append(q, j) \in Seq(Jobs) /\ Len(Append(q, j)) = Len(q) + 1
      /\ \A i \in 1..Len(q) : Append(q, j)[i] = q[i]
      /\ Append(q, j)[Len(q) + 1] = j
  BY AppendProperties
<1>3. DOMAIN Append(q, j) = 1..(Len(q) + 1)
  BY <1>2, LenProperties
<1>4. ASSUME NEW i \in 1..(Len(q) + 1), i # Len(q) + 1 PROVE i \in 1..Len(q)
  BY <1>1, <1>4
<1> QED
  BY <1>1, <1>2, <1>3, <1>4

\* What sendJobsLoop leaves in a channel.
LEMMA TakenOnce ==
  ASSUME NEW q \in Seq(Jobs), q # <<>>
  PROVE  /\ Tail(q) \in Seq(Jobs) /\ 1 \in DOMAIN q /\ Head(q) = q[1]
         /\ \A i \in DOMAIN Tail(q) : i \in Nat /\ i + 1 \in DOMAIN q /\ i + 1 # 1 /\ Tail(q)[i] = q[i + 1]
<1>1. Len(q) \in Nat /\ DOMAIN q = 1..Len(q) /\ Len(q) # 0
  BY LenProperties, EmptySeq
<1>2. /\ Head(q) = q[1] /\ Tail(q) \in Seq(Jobs) /\ Len(Tail(q)) = Len(q) - 1
      /\ \A i \in 1..Len(Tail(q)) : Tail(q)[i] = q[i + 1]
  BY HeadTailProperties
<1>3. DOMAIN Tail(q) = 1..(Len(q) - 1)
  BY <1>2, LenProperties
<1>4. \A i \in 1..(Len(q) - 1) : i \in Nat /\ i + 1 \in 1..Len(q) /\ i + 1 # 1
  BY <1>1
<1> QED
  BY <1>1, <1>2, <1>3, <1>4

\* A job is in no channel before SendJob has put it there.
LEMMA NotSentNotQueued ==
  ASSUME PlaceInv, NEW j \in Jobs, creator[j] \notin Sent
  PROVE  /\ j \notin delivered \cup handled
         /\ \A s \in Streams : \A i \in DOMAIN events[s] : events[s][i] # j
BY DEF PlaceInv, QueuedWell

\* CreatePeerJob queues its job once, on the channel it chose.
LEMMA CreatorPlace ==
  ASSUME ChannelInv, PlaceInv, NEW j \in Jobs, JM!IsPeerConnected(j) \/ JM!CreatorStep(j)
  PROVE  PlaceInv'
<1> USE DEF PlaceInv
<1>0. creator \in [Jobs -> CreatorSteps] /\ chosen \in [Jobs -> Streams \cup {NoStream}]
  BY DEF ChannelInv
<1>1. /\ UNCHANGED <<delivered, handled>>
      /\ \A k \in Jobs : creator[k] \in Sent => creator'[k] \in Sent /\ chosen'[k] = chosen[k]
  BY <1>0 DEF JM!CreatorStep, JM!IsPeerConnected, JM!IsPeerHasPendingJobs, JM!SendJob, JM!TrackPending,
     JM!AddEvent, JM!AddEventFails, JM!Cleanup, JM!StoreJob, JM!CreatorGoto, Sent
<1>2. ASSUME NEW s \in Streams, events'[s] = events[s] PROVE QueuedWell(s, events[s])'
  BY <1>1, <1>2 DEF QueuedWell
<1>3. CASE JM!AddEvent(j)
  <2>1. /\ creator[j] = "add" /\ creator' = [creator EXCEPT ![j] = "persist"] /\ chosen' = chosen
        /\ events' = [events EXCEPT ![chosen[j]] = Append(@, j)]
    BY <1>3 DEF JM!AddEvent, JM!CreatorGoto
  <2>2. PICK c \in Streams : c = chosen[j]
    BY <2>1 DEF ChannelInv
  <2>3. j \notin delivered \cup handled /\ \A i \in DOMAIN events[c] : events[c][i] # j
    BY <2>1, NotSentNotQueued DEF Sent
  <2>4. events'[c] = Append(events[c], j) /\ creator'[j] \in Sent /\ chosen'[j] = c
    BY <1>0, <2>1, <2>2 DEF Sent
  <2>5. QueuedWell(c, events[c])'
    <3> DEFINE q == events[c]
               r == Append(q, j)
    <3>1. QueuedWell(c, q) /\ q \in Seq(Jobs)
      BY DEF QueuedWell
    <3>2. r \in Seq(Jobs)
      BY <3>1, AppendedOnce
    <3>3. ASSUME NEW i \in DOMAIN r
          PROVE  \/ i \in DOMAIN q /\ r[i] = q[i] /\ q[i] # j
                 \/ i = Len(q) + 1 /\ r[i] = j
      BY <2>3, <3>1, AppendedOnce
    <3> HIDE DEF r
    <3>4. \A i \in DOMAIN r : /\ creator'[r[i]] \in Sent /\ chosen'[r[i]] = c
                              /\ r[i] \notin delivered' \cup handled'
      <4> TAKE i \in DOMAIN r
      <4>1. CASE r[i] = j
        BY <1>1, <2>3, <2>4, <4>1
      <4>2. CASE r[i] # j
        <5>1. i \in DOMAIN q /\ r[i] = q[i] /\ q[i] \in Jobs
          BY <3>1, <3>3, <4>2
        <5> QED
          BY <1>1, <3>1, <5>1 DEF QueuedWell
      <4> QED
        BY <4>1, <4>2
    <3>5. \A i, k \in DOMAIN r : r[i] = r[k] => i = k
      BY <3>1, <3>3 DEF QueuedWell
    <3>6. events'[c] = r
      BY <2>4 DEF r
    <3> QED
      BY <3>2, <3>4, <3>5, <3>6 DEF QueuedWell
  <2>6. \A s \in Streams : s # c => events'[s] = events[s]
    BY <2>1, <2>2
  <2>7. events' \in [Streams -> Seq(Jobs)]
    <3>1. Append(events[c], j) \in Seq(Jobs)
      BY AppendedOnce
    <3> QED
      BY <2>1, <2>2, <3>1
  <2>8. \A k \in delivered' \cup handled' : creator'[k] \in Sent
    BY <1>1
  <2> QED
    BY <1>1, <1>2, <2>5, <2>6, <2>7, <2>8
<1>4. CASE ~JM!AddEvent(j)
  <2>1. events' = events
    BY <1>4 DEF JM!CreatorStep, JM!IsPeerConnected, JM!IsPeerHasPendingJobs, JM!SendJob, JM!TrackPending,
       JM!AddEventFails, JM!Cleanup, JM!StoreJob, JM!chanVars
  <2> QED
    BY <1>1, <1>2, <2>1
<1> QED
  BY <1>3, <1>4

\* sendJobsLoop takes a job out of the channel before it is sent, or lost with the stream.
LEMMA SendEventPlace ==
  ASSUME PlaceInv, NEW s \in Streams, JM!SendEvent(s)
  PROVE  PlaceInv'
<1> USE DEF PlaceInv
<1> DEFINE q == events[s]
           j == Head(q)
<1>1. /\ q # <<>> /\ events' = [events EXCEPT ![s] = Tail(q)]
      /\ delivered' = delivered \cup {j} \/ delivered' = delivered
      /\ UNCHANGED <<creator, chosen, handled>>
  BY DEF JM!SendEvent, JM!jobVars
<1>2. QueuedWell(s, q) /\ q \in Seq(Jobs)
  BY DEF QueuedWell
<1>3. /\ Tail(q) \in Seq(Jobs) /\ 1 \in DOMAIN q /\ j = q[1]
      /\ \A i \in DOMAIN Tail(q) : i \in Nat /\ i + 1 \in DOMAIN q /\ i + 1 # 1 /\ Tail(q)[i] = q[i + 1]
  BY <1>1, <1>2, TakenOnce
<1>4. j \in Jobs /\ creator[j] \in Sent /\ chosen[j] = s /\ j \notin delivered \cup handled
  BY <1>2, <1>3 DEF QueuedWell
<1>5. events'[s] = Tail(q) /\ events' \in [Streams -> Seq(Jobs)]
      /\ \A t \in Streams : t # s => events'[t] = events[t]
  BY <1>1, <1>3
<1>6. QueuedWell(s, events[s])'
  <2> DEFINE r == Tail(q)
  <2>1. ASSUME NEW i \in DOMAIN r PROVE r[i] # j
    BY <1>2, <1>3 DEF QueuedWell
  <2>2. \A i \in DOMAIN r : /\ creator'[r[i]] \in Sent /\ chosen'[r[i]] = s
                            /\ r[i] \notin delivered' \cup handled'
    BY <1>1, <1>2, <1>3, <2>1 DEF QueuedWell
  <2>3. ASSUME NEW i \in DOMAIN r, NEW k \in DOMAIN r, r[i] = r[k] PROVE i = k
    <3>1. i \in Nat /\ k \in Nat /\ i + 1 = k + 1
      BY <1>2, <1>3, <2>3 DEF QueuedWell
    <3> QED
      BY <3>1
  <2> QED
    BY <1>3, <1>5, <2>2, <2>3 DEF QueuedWell
<1>7. ASSUME NEW t \in Streams, t # s PROVE QueuedWell(t, events[t])'
  <2>1. QueuedWell(t, events[t])
    OBVIOUS
  <2>2. \A i \in DOMAIN events[t] : events[t][i] # j
    BY <1>4, <1>7, <2>1 DEF QueuedWell
  <2> QED
    BY <1>1, <1>5, <1>7, <2>1, <2>2 DEF QueuedWell
<1>8. /\ delivered' \subseteq Jobs /\ delivered' \cap handled = {}
      /\ \A k \in delivered' \cup handled : creator[k] \in Sent
  BY <1>1, <1>4
<1> QED
  BY <1>1, <1>5, <1>6, <1>7, <1>8

\* An answer takes its job from the peer; nothing else moves jobs.
LEMMA PlaceStep ==
  ASSUME ChannelInv, PlaceInv, [JM!Next]_(JM!vars)
  PROVE  PlaceInv'
<1>1. ASSUME UNCHANGED <<creator, chosen, events, delivered, handled>> PROVE PlaceInv'
  BY <1>1 DEF PlaceInv, QueuedWell
<1>2. ASSUME NEW s \in Streams, \/ JM!Job(s) \/ JM!FailStored(s) \/ JM!CreateJobChannel(s)
                                \/ JM!LoopEnds(s) \/ JM!CloseChannel(s) \/ JM!ClientLeaves(s)
      PROVE  PlaceInv'
  BY <1>1, <1>2 DEF JM!Job, JM!FailStored, JM!CreateJobChannel, JM!LoopEnds, JM!CloseChannel,
     JM!ClientLeaves, JM!chanVars, JM!jobVars
<1>3. ASSUME NEW j \in Jobs, JM!HandleResponse(j) PROVE PlaceInv'
  <2>1. /\ UNCHANGED <<creator, chosen, events>> /\ j \in delivered
        /\ delivered' = delivered \ {j} /\ handled' \in {handled, handled \cup {j}}
    BY <1>3 DEF JM!HandleResponse, JM!chanVars, JM!jobVars
  <2>2. delivered' \cup handled' \subseteq delivered \cup handled
    BY <2>1
  <2>3. \A s \in Streams : QueuedWell(s, events[s])'
    BY <2>1, <2>2 DEF PlaceInv, QueuedWell
  <2>4. /\ delivered' \subseteq Jobs /\ handled' \subseteq Jobs /\ delivered' \cap handled' = {}
        /\ \A k \in delivered' \cup handled' : creator'[k] \in Sent
    BY <2>1 DEF PlaceInv
  <2> QED
    BY <2>1, <2>3, <2>4 DEF PlaceInv
<1>4. CASE UNCHANGED JM!vars
  BY <1>1, <1>4 DEF JM!vars
<1> QED
  BY <1>2, <1>3, <1>4, CreatorPlace, SendEventPlace DEF JM!Next, JM!StreamStep

\* JobIsInOnePlace: whichever streams replace one another, and however their handlers,
\* CreatePeerJob and HandleResponse interleave, no job is in a channel twice, in two
\* channels, or in a channel while the peer has it or after its answer was handled.
THEOREM JobIsInOnePlace == JM!Spec => []JobInOnePlace
<1>1. JM!Init => ChannelInv /\ CarrierInv /\ PlaceInv
  <2> SUFFICES ASSUME JM!Init PROVE PlaceInv
    BY CarrierInit
  <2>1. events = [s \in Streams |-> <<>>] /\ delivered = {} /\ handled = {}
    BY DEF JM!Init
  <2> QED
    BY <2>1 DEF PlaceInv, QueuedWell
<1>2. (ChannelInv /\ CarrierInv /\ PlaceInv) /\ [JM!Next]_(JM!vars) => (ChannelInv /\ CarrierInv /\ PlaceInv)'
  BY CarrierStep, PlaceStep
<1>3. PlaceInv => JobInOnePlace
  BY DEF PlaceInv, QueuedWell, JobInOnePlace
<1> QED
  BY <1>1, <1>2, <1>3, PTL DEF JM!Spec
===============================================================================
