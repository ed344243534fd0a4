------------------------------- MODULE PeerExpiry -------------------------------
(***************************************************************************)
(* Expiring the peers of an account: the account manager's use of the      *)
(* scheduler.  There is one scheduler for logins that run out and one for  *)
(* peers that stay disconnected; they share nothing, and mode says which   *)
(* one a behaviour is about.                                               *)
(*                                                                         *)
(* Callers are requests: each changes the store and then goes through the  *)
(* steps that arm the scheduler, every read of the store and every call of *)
(* the scheduler a step of its own (the scheduler is called in a goroutine *)
(* that the request leaves behind).  The peers are those that SSO users    *)
(* added and whose expiration is switched on.  A store call may fail.      *)
(***************************************************************************)
EXTENDS Scheduler, SequencesExt

CONSTANTS
    Peers,
    Callers,
    MaxAge             \* bound: the age of a login or of a disconnect

ASSUME ExpiryAssumption == MaxAge \in Nat \ {0}

VARIABLES
    mode,              \* "login" or "inactivity"
    enabled, limit,    \* the account's settings
    age,               \* time since the login (login) or since LastSeen (inactivity)
    connected,         \* Status.Connected (inactivity)
    flagged,           \* Status.LoginExpired
    todo,              \* the steps a caller has still to take
    armed,             \* history: the kind of request that arms for the latest change, or "no"
    step,              \* step of job(): "list", "settings", "expire" or "next"
    candidates,        \* the peers job() has still to expire
    seen               \* the settings job() works with while it expires peers

peerVars == <<mode, enabled, limit, age, connected, flagged>>
jobVars == <<step, candidates, seen>>
callVars == <<todo, armed>>
vars == <<schedulerVars, peerVars, callVars, jobVars>>

Limits == 1 .. MaxAge
Unread == [enabled |-> FALSE, limit |-> 1]

\* Variant of Arm: a running job is left alone in both modes.
ArmIfNone == <<"check", "next", "schedule">>

\* Steps of schedulePeerLoginExpiration and of checkAndSchedulePeerInactivityExpiration.
Arm == IF mode = "login" THEN <<"check", "next", "schedule">> ELSE <<"cancel", "next", "schedule">>

Init ==
    /\ SchedulerInit
    /\ mode \in {"login", "inactivity"}
    /\ enabled \in BOOLEAN /\ limit \in Limits
    /\ age = [p \in Peers |-> 0]
    /\ connected = [p \in Peers |-> FALSE] /\ flagged = [p \in Peers |-> FALSE]
    /\ todo = [c \in Callers |-> <<>>] /\ armed = "no"
    /\ step = [j \in Jobs |-> "list"] /\ candidates = [j \in Jobs |-> {}]
    /\ seen = [j \in Jobs |-> Unread]

\* LoginExpired or SessionExpired.
Expired(p, duration) ==
    age[p] >= duration /\ (mode = "inactivity" => ~connected[p])

\* The peers getNextPeerExpiration and getNextInactivePeerExpiration look at.
Pending == {p \in Peers : ~flagged[p] /\ (mode = "inactivity" => ~connected[p])}

-----------------------------------------------------------------------------
(* The callers. *)

\* No request that only cancels is under way.
AllSchedule == \A d \in Callers : todo[d] # <<>> => Last(todo[d]) = "schedule"

\* A request of the kind given is sure to arm the scheduler if the account is switched on
\* and it does not have to read the settings first.
Begins(c, steps, kind) ==
    /\ todo[c] = <<>>
    /\ todo' = [todo EXCEPT ![c] = steps]
    /\ armed' = IF enabled' /\ AllSchedule /\ {"settings", "schedule"} \cap ToSet(steps) = {"schedule"}
                THEN kind ELSE "no"

\* MarkPeerConnected of a newer session.
MarkPeerConnected(c, p) ==
    /\ flagged' = [flagged EXCEPT ![p] = FALSE]
    /\ IF mode = "login"
       THEN UNCHANGED <<connected, age>>
       ELSE connected' = [connected EXCEPT ![p] = TRUE] /\ age' = [age EXCEPT ![p] = 0]
    /\ UNCHANGED <<schedulerVars, mode, enabled, limit, jobVars>>
    /\ Begins(c, <<"settings">> \o Arm, "other")

\* MarkPeerDisconnected of the same session.
MarkPeerDisconnected(c, p) ==
    /\ mode = "inactivity" /\ connected[p]
    /\ connected' = [connected EXCEPT ![p] = FALSE]
    /\ age' = [age EXCEPT ![p] = 0]
    /\ UNCHANGED <<schedulerVars, mode, enabled, limit, flagged, jobVars>>
    /\ Begins(c, <<"settings">> \o Arm, "other")

\* LoginPeer arms nothing: the peer's sync stream follows.
LoginPeer(c, p) ==
    /\ age' = IF mode = "login" THEN [age EXCEPT ![p] = 0] ELSE age
    /\ flagged' = [flagged EXCEPT ![p] = FALSE]
    /\ UNCHANGED <<schedulerVars, mode, enabled, limit, connected, jobVars>>
    /\ Begins(c, <<>>, "other")

ExtendPeerSession(c, p) ==
    /\ mode = "login" /\ enabled
    /\ age' = [age EXCEPT ![p] = 0]
    /\ flagged' = [flagged EXCEPT ![p] = FALSE]
    /\ UNCHANGED <<schedulerVars, mode, enabled, limit, connected, jobVars>>
    /\ Begins(c, Arm, "extend")

\* The steps after a change of the settings: for logins, a change of the switch and a
\* change of the duration are two handlers; for inactivity, the switch alone arms nothing.
SettingsSteps(e, l) ==
    IF mode = "login"
    THEN (IF e = enabled THEN <<>> ELSE IF e THEN Arm ELSE <<"cancel">>)
         \o (IF l = limit THEN <<>> ELSE <<"cancel">> \o Arm)
    ELSE IF e THEN (IF l = limit THEN <<>> ELSE Arm)
         ELSE (IF enabled THEN <<"cancel">> ELSE <<>>)

\* The settings are stored; when the extra settings cannot be, no handler is called.
UpdateAccountSettings(c, e, l) ==
    /\ <<e, l>> # <<enabled, limit>>
    /\ enabled' = e /\ limit' = l
    /\ UNCHANGED <<schedulerVars, mode, age, connected, flagged, jobVars>>
    /\ Begins(c, SettingsSteps(e, l), "other") \/ Begins(c, <<>>, "other")

CallerAt(c, s) == todo[c] # <<>> /\ Head(todo[c]) = s
Goes(c) == todo' = [todo EXCEPT ![c] = Tail(@)] /\ UNCHANGED armed

\* The caller leaves the arming steps it is in.
Leaves(c) ==
    LET last == SelectInSeq(todo[c], LAMBDA x : x = "schedule")
    IN todo' = [todo EXCEPT ![c] = SubSeq(@, last + 1, Len(@))] /\ UNCHANGED armed

\* Expiration is switched on, and the request will arm the scheduler; or it is not, or
\* the settings cannot be read.
ReadSettings(c) ==
    /\ CallerAt(c, "settings")
    /\ \/ /\ enabled
          /\ todo' = [todo EXCEPT ![c] = Tail(@)]
          /\ armed' = IF armed = "no" /\ AllSchedule THEN "other" ELSE armed
       \/ Leaves(c)
    /\ UNCHANGED <<schedulerVars, peerVars, jobVars>>

CheckRunning(c) ==
    /\ CallerAt(c, "check")
    /\ IF IsSchedulerRunning THEN Leaves(c) ELSE Goes(c)
    /\ UNCHANGED <<schedulerVars, peerVars, jobVars>>

CallCancel(c) ==
    /\ CallerAt(c, "cancel")
    /\ Cancel /\ Goes(c)
    /\ UNCHANGED <<peerVars, jobVars>>

\* A store error counts as a peer that expires soon.
ReadNext(c) ==
    /\ CallerAt(c, "next")
    /\ Goes(c) \/ (Pending = {} /\ Leaves(c))
    /\ UNCHANGED <<schedulerVars, peerVars, jobVars>>

CallSchedule(c) ==
    /\ CallerAt(c, "schedule")
    /\ Schedule /\ Goes(c)
    /\ UNCHANGED <<peerVars, jobVars>>

\* The goroutine that is to call Schedule falls behind the handler that the request goes
\* on with; an idle caller d stands for it.
ScheduleLater(c, d) ==
    /\ CallerAt(c, "schedule") /\ Len(todo[c]) > 1 /\ todo[d] = <<>>
    /\ todo' = [todo EXCEPT ![c] = Tail(@), ![d] = <<"schedule">>]
    /\ UNCHANGED <<schedulerVars, peerVars, armed, jobVars>>

-----------------------------------------------------------------------------
(* job(): peerLoginExpirationJob and peerInactivityExpirationJob. *)

JobAt(j, s) == goroutine[j] = "job" /\ step[j] = s
StepTo(j, s) == step' = [step EXCEPT ![j] = s]

\* getExpiredPeers and getInactivePeers; the latter lists flagged peers too.
ListExpired(j) ==
    /\ JobAt(j, "list")
    /\ candidates' = [candidates EXCEPT ![j] =
           {p \in Peers : Expired(p, limit) /\ (mode = "login" => ~flagged[p])}]
    /\ StepTo(j, "settings")
    /\ UNCHANGED <<schedulerVars, peerVars, callVars, seen>>

\* expireAndUpdatePeers reads the settings once for all candidates.
ReadJobSettings(j) ==
    /\ JobAt(j, "settings")
    /\ IF candidates[j] = {}
       THEN StepTo(j, "next") /\ UNCHANGED seen
       ELSE StepTo(j, "expire") /\ seen' = [seen EXCEPT ![j] = [enabled |-> enabled, limit |-> limit]]
    /\ UNCHANGED <<schedulerVars, peerVars, callVars, candidates>>

\* Variant of StillDue: the peer is not looked at again.
StillListed(j, p) == seen[j].enabled

\* peerExpirationDue, on the peer as it is in the transaction.
StillDue(j, p) == seen[j].enabled /\ ~flagged[p] /\ Expired(p, seen[j].limit)

expirePeerIfStillDue(j, p) ==
    /\ JobAt(j, "expire") /\ p \in candidates[j]
    /\ flagged' = IF StillDue(j, p) THEN [flagged EXCEPT ![p] = TRUE] ELSE flagged
    /\ candidates' = [candidates EXCEPT ![j] = @ \ {p}]
    /\ IF candidates[j] = {p}
       THEN StepTo(j, "next") /\ seen' = [seen EXCEPT ![j] = Unread]
       ELSE UNCHANGED <<step, seen>>
    /\ UNCHANGED <<schedulerVars, mode, enabled, limit, age, connected, callVars>>

\* A store call fails: the job is to run again soon.
JobFails(j) ==
    /\ goroutine[j] = "job"
    /\ JobReturns(j, TRUE)
    /\ StepTo(j, "list")
    /\ candidates' = [candidates EXCEPT ![j] = {}] /\ seen' = [seen EXCEPT ![j] = Unread]
    /\ UNCHANGED <<peerVars, callVars>>

JobNext(j) ==
    /\ JobAt(j, "next")
    /\ JobReturns(j, Pending # {})
    /\ StepTo(j, "list")
    /\ UNCHANGED <<peerVars, callVars, candidates, seen>>

-----------------------------------------------------------------------------
\* The age of a connected peer is of no account.
TimePasses(p) ==
    /\ age[p] < MaxAge /\ ~connected[p]
    /\ age' = [age EXCEPT ![p] = @ + 1]
    /\ UNCHANGED <<schedulerVars, mode, enabled, limit, connected, flagged, callVars, jobVars>>

SchedulerStep(j) ==
    /\ Tick(j) \/ Stop(j) \/ Finish(j)
    /\ UNCHANGED <<peerVars, callVars, jobVars>>

CallerStep(c) ==
    \/ ReadSettings(c) \/ CheckRunning(c) \/ CallCancel(c) \/ ReadNext(c) \/ CallSchedule(c)
    \/ \E d \in Callers : ScheduleLater(c, d)

JobStep(j) ==
    \/ ListExpired(j) \/ ReadJobSettings(j) \/ JobNext(j)
    \/ \E p \in Peers : expirePeerIfStillDue(j, p)

Next ==
    \/ \E c \in Callers :
          \/ CallerStep(c)
          \/ \E p \in Peers : \/ MarkPeerConnected(c, p) \/ MarkPeerDisconnected(c, p)
                            \/ LoginPeer(c, p) \/ ExtendPeerSession(c, p)
          \/ \E e \in BOOLEAN, l \in Limits : UpdateAccountSettings(c, e, l)
    \/ \E j \in Jobs : SchedulerStep(j) \/ JobStep(j) \/ JobFails(j)
    \/ \E p \in Peers : TimePasses(p)

Spec == Init /\ [][Next]_vars

-----------------------------------------------------------------------------
\* No peer that has just logged in, or just disconnected, is flagged as expired, although
\* the job lists its candidates without a lock and works with settings it read once.
FreshStays == [][\A p \in Peers : ~flagged[p] /\ flagged'[p] => age[p] # 0]_vars

\* No request and no job is under way.
Settled == (\A c \in Callers : todo[c] = <<>>) /\ (\A j \in Jobs : goroutine[j] \in {"off", "wait"})

\* After a peer connected or disconnected and schedulePeerExpirations got the settings, or
\* the duration changed, inactive peers have a job, whatever job was ending, being
\* cancelled or being scheduled at the time.  When the settings cannot be read nothing is
\* armed: the error is logged, and the peers wait for the next request.
InactivePeersHaveJob == mode = "inactivity" /\ Settled /\ armed # "no" /\ Pending # {} => jobs # 0

\* What the comment in ExtendPeerSession says of its call of schedulePeerLoginExpiration:
\* it guarantees a job is in flight even if a prior one ended right before the extend.
ExtendGuaranteesJob == mode = "login" /\ Settled /\ armed = "extend" /\ Pending # {} => jobs # 0
=============================================================================
