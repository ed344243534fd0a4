------------------------------ MODULE JobManager ------------------------------
(***************************************************************************)
(* The management server's job manager, for ONE peer: the Job streams the  *)
(* peer opens (Server.Job, sendJobsLoop, startResponseReceiver), the jobs  *)
(* users create for it (CreatePeerJob, Manager.SendJob), the answers       *)
(* (HandleResponse) and the status of each job in the store.               *)
(*                                                                         *)
(* A stream creates one job channel; a channel is named by its stream.     *)
(***************************************************************************)
EXTENDS Naturals, Sequences, FiniteSets

CONSTANTS
    Streams,        \* Job calls of the peer
    NoStream,
    Jobs,           \* CreatePeerJob calls, each with a job of its own
    ChanCap,        \* jobChannelBuffer (1 in the code)
    StoreMayFail    \* can writes of the database fail?

VARIABLES
    handler,   \* step of Server.Job
    over,      \* contexts of streams that are done
    channel,   \* jobChannels[peerID]
    closed,    \* channels that were closed
    events,    \* contents of the channels
    creator,   \* step of CreatePeerJob
    chosen,    \* the channel SendJob looked up
    pending,   \* pending
    status,    \* Job.Status in the store
    delivered, \* jobs the peer got and has not answered
    handled    \* history: jobs HandleResponse has finished

streamVars == <<handler, over>>
chanVars   == <<channel, closed, events>>
jobVars    == <<creator, chosen>>
vars == <<handler, over, channel, closed, events, creator, chosen, pending, status, delivered, handled>>

Init ==
    /\ handler = [s \in Streams |-> "idle"]
    /\ over = {}
    /\ channel = NoStream /\ closed = {}
    /\ events = [s \in Streams |-> <<>>]
    /\ creator = [j \in Jobs |-> "idle"]
    /\ chosen = [j \in Jobs |-> NoStream]
    /\ pending = {}
    /\ status = [j \in Jobs |-> "none"]
    /\ delivered = {} /\ handled = {}

Goto(s, step) == handler' = [handler EXCEPT ![s] = step]
CreatorGoto(j, step) == creator' = [creator EXCEPT ![j] = step]

\* Variant of MarkFailed: the condition on the status is missing.
MarkFailedAny(jobs) ==
    status' = [j \in Jobs |-> IF j \in jobs /\ status[j] # "none" THEN "failed" ELSE status[j]]

\* MarkPendingJobsAsFailed, MarkAllPendingJobsAsFailed; failures are logged.
MarkFailed(jobs) ==
    \/ status' = [j \in Jobs |-> IF j \in jobs /\ status[j] = "pending" THEN "failed" ELSE status[j]]
    \/ StoreMayFail /\ status' = status

CloseRegistered ==
    /\ channel' = NoStream
    /\ closed' = IF channel = NoStream THEN closed ELSE closed \cup {channel}

-----------------------------------------------------------------------------
(* CreatePeerJob. *)

IsPeerConnected(j) ==
    /\ creator[j] = "idle"
    /\ CreatorGoto(j, IF channel = NoStream THEN "done" ELSE "free")
    /\ UNCHANGED <<streamVars, chanVars, chosen, pending, status, delivered, handled>>

IsPeerHasPendingJobs(j) ==
    /\ creator[j] = "free"
    /\ CreatorGoto(j, IF pending # {} THEN "done" ELSE "lookup")
    /\ UNCHANGED <<streamVars, chanVars, chosen, pending, status, delivered, handled>>

\* SendJob looks the channel up under a read lock ...
SendJob(j) ==
    /\ creator[j] = "lookup"
    /\ chosen' = [chosen EXCEPT ![j] = channel]
    /\ CreatorGoto(j, IF channel = NoStream THEN "done" ELSE "track")
    /\ UNCHANGED <<streamVars, chanVars, pending, status, delivered, handled>>

\* ... tracks the job under the lock ...
TrackPending(j) ==
    /\ creator[j] = "track"
    /\ pending' = pending \cup {j}
    /\ CreatorGoto(j, "add")
    /\ UNCHANGED <<streamVars, chanVars, chosen, status, delivered, handled>>

HasRoom(s) == Len(events[s]) < ChanCap

\* ... and adds it to the channel without a lock.
AddEvent(j) ==
    /\ creator[j] = "add"
    /\ chosen[j] \notin closed /\ HasRoom(chosen[j])
    /\ events' = [events EXCEPT ![chosen[j]] = Append(@, j)]
    /\ CreatorGoto(j, "persist")
    /\ UNCHANGED <<streamVars, channel, closed, chosen, pending, status, delivered, handled>>

\* Variant of AddEventFails: the panic of a send on a closed channel is recovered,
\* but not turned into an error.
AddEventSwallowed(j) ==
    /\ creator[j] = "add"
    /\ CreatorGoto(j, IF chosen[j] \in closed THEN "persist" ELSE "cleanup")
    /\ UNCHANGED <<streamVars, chanVars, chosen, pending, status, delivered, handled>>

\* Variant of AddEventFails: the panic is not recovered, the goroutine dies.
AddEventPanics(j) ==
    /\ creator[j] = "add" /\ chosen[j] \notin closed
    /\ CreatorGoto(j, "cleanup")
    /\ UNCHANGED <<streamVars, chanVars, chosen, pending, status, delivered, handled>>

\* AddEvent fails: the channel was closed (the panic is recovered), the request
\* is over, or responseWait has passed.
AddEventFails(j) ==
    /\ creator[j] = "add"
    /\ CreatorGoto(j, "cleanup")
    /\ UNCHANGED <<streamVars, chanVars, chosen, pending, status, delivered, handled>>

Cleanup(j) ==
    /\ creator[j] = "cleanup"
    /\ IF j \in pending THEN MarkFailed({j}) ELSE status' = status
    /\ pending' = pending \ {j}
    /\ CreatorGoto(j, "done")
    /\ UNCHANGED <<streamVars, chanVars, chosen, delivered, handled>>

\* CreatePeerJob stores the job once it was sent.
StoreJob(j) ==
    /\ creator[j] = "persist"
    /\ \/ status' = [status EXCEPT ![j] = "pending"]
       \/ StoreMayFail /\ status' = status
    /\ CreatorGoto(j, "done")
    /\ UNCHANGED <<streamVars, chanVars, chosen, pending, delivered, handled>>

-----------------------------------------------------------------------------
(* Server.Job. *)

\* The handshake and the lookups of the peer succeed or end the call.
Job(s) ==
    /\ handler[s] = "idle"
    /\ Goto(s, "fail") \/ Goto(s, "done")
    /\ UNCHANGED <<over, chanVars, jobVars, pending, status, delivered, handled>>

\* CreateJobChannel fails the stored jobs of the peer, without the lock ...
FailStored(s) ==
    /\ handler[s] = "fail"
    /\ MarkFailed(Jobs)
    /\ Goto(s, "create")
    /\ UNCHANGED <<over, chanVars, jobVars, pending, delivered, handled>>

\* ... and replaces the channel under it.
CreateJobChannel(s) ==
    /\ handler[s] = "create"
    /\ channel' = s
    /\ closed' = IF channel = NoStream THEN closed ELSE closed \cup {channel}
    /\ Goto(s, "loop")
    /\ UNCHANGED <<over, events, jobVars, pending, status, delivered, handled>>

\* sendJobsLoop: an event is taken and sent.
SendEvent(s) ==
    /\ handler[s] = "loop" /\ events[s] # <<>>
    /\ events' = [events EXCEPT ![s] = Tail(@)]
    /\ \/ delivered' = delivered \cup {Head(events[s])} /\ handler' = handler
       \/ delivered' = delivered /\ Goto(s, "close")
    /\ UNCHANGED <<over, channel, closed, jobVars, pending, status, handled>>

\* sendJobsLoop ends when the channel is closed and empty or the stream is over.
LoopEnds(s) ==
    /\ handler[s] = "loop"
    /\ (s \in closed /\ events[s] = <<>>) \/ s \in over
    /\ Goto(s, "close")
    /\ UNCHANGED <<over, chanVars, jobVars, pending, status, delivered, handled>>

\* The deferred CloseChannel.
CloseChannel(s) ==
    /\ handler[s] = "close"
    /\ CloseRegistered
    /\ MarkFailed(pending)
    /\ pending' = {}
    /\ Goto(s, "done")
    /\ UNCHANGED <<over, events, jobVars, delivered, handled>>

\* The peer answers a job: HandleResponse.  CompletePeerJob updates the stored
\* job, if there is one.  A response that is not valid changes nothing.
HandleResponse(j) ==
    /\ j \in delivered
    /\ delivered' = delivered \ {j}
    /\ \/ /\ j \in pending
          /\ pending' = pending \ {j}
          /\ status' = [status EXCEPT ![j] = IF @ = "none" THEN @ ELSE "finished"]
          /\ handled' = handled \cup {j}
       \/ UNCHANGED <<pending, status, handled>>
    /\ UNCHANGED <<streamVars, chanVars, jobVars>>

ClientLeaves(s) ==
    /\ handler[s] \notin {"idle", "done"}
    /\ over' = over \cup {s}
    /\ UNCHANGED <<handler, chanVars, jobVars, pending, status, delivered, handled>>

-----------------------------------------------------------------------------
CreatorStep(j) ==
    \/ IsPeerHasPendingJobs(j) \/ SendJob(j) \/ TrackPending(j) \/ AddEvent(j)
    \/ AddEventFails(j) \/ Cleanup(j) \/ StoreJob(j)

StreamStep(s) ==
    \/ FailStored(s) \/ CreateJobChannel(s) \/ SendEvent(s) \/ LoopEnds(s) \/ CloseChannel(s)

Next ==
    \/ \E j \in Jobs : IsPeerConnected(j) \/ CreatorStep(j) \/ HandleResponse(j)
    \/ \E s \in Streams : Job(s) \/ StreamStep(s) \/ ClientLeaves(s)

\* Goroutines that can go on do; calls, answers and departures need not happen.
Fairness ==
    /\ \A j \in Jobs : WF_vars(CreatorStep(j))
    /\ \A s \in Streams : WF_vars(StreamStep(s))

Spec == Init /\ [][Next]_vars /\ Fairness

-----------------------------------------------------------------------------
(* Properties. *)

Carries(s, j) == chosen[j] = s /\ handler[s] \in {"loop", "close"}

\* PendingHasCarrier: a job stays pending only while it is being sent or the
\* handler of the stream it was given to still runs, and will answer for it in
\* CloseChannel: no job, however its sending raced the end of the stream, makes
\* "peer already has pending job" permanent.
PendingHasCarrier ==
    \A j \in pending : creator[j] \in {"add", "cleanup"} \/ \E s \in Streams : Carries(s, j)

\* FinishedStays: a job whose answer was stored is not failed by a stream that
\* closes or opens later, nor put back to pending.
FinishedStays ==
    [][\A j \in Jobs : status[j] = "finished" => status'[j] = "finished"]_vars

\* SendersReturn: CreatePeerJob returns, also when the channel is full or closed.
SendersReturn == \A j \in Jobs : (creator[j] # "idle") ~> (creator[j] = "done")

\* HandledIsFinished: a job whose answer was handled is not left pending in the
\* store.  The comment on HandleResponse: it "marks a job as finished and moves it
\* to completed".  It does not hold.
HandledIsFinished == \A j \in handled : status[j] # "pending"

\* FailedByItsStream: the end of a stream fails a pending job only if the job was
\* given to that stream.  The comment in CloseChannel: "if the client disconnect
\* and there is pending job then mark it as failed".  It does not hold.
FailedByItsStream ==
    [][\A s \in Streams, j \in Jobs :
        (/\ handler[s] = "close" /\ handler'[s] = "done"
         /\ j \in pending /\ creator[j] = "done"
         /\ chosen[j] # s /\ chosen[j] \notin closed \cup over)
        => j \in pending']_vars
===============================================================================
