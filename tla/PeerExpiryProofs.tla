---------------------------- MODULE PeerExpiryProofs ----------------------------
(***************************************************************************)
(* Proofs about PeerExpiry for any peers, callers, goroutines and limits:  *)
(* the scheduler's map knows every job that will run again, no fresh peer  *)
(* is flagged, and the inactive peers of an armed account have a job.      *)
(***************************************************************************)
EXTENDS PeerExpiry, SequenceTheorems, TLAPS

\* The provers that a leaf which names none is tried with, in turn.
USE ZenonT(4), SMTT(10), ZenonT(30), SMTT(30)

\* EntryIsTheJob is inductive once a goroutine that returned is not counted as cancelled.
SchedulerInv ==
    /\ SchedulerTypeOK
    /\ EntryIsTheJob
    /\ \A j \in cancelled : goroutine[j] # "off"

\* One step of the scheduler's own code, as the account manager takes it.
SchedulerNext ==
    \/ Cancel \/ Schedule
    \/ \E j \in Jobs : Tick(j) \/ Stop(j) \/ Finish(j) \/ \E again \in BOOLEAN : JobReturns(j, again)

\* Every step of PeerExpiry is a step of the scheduler or leaves it alone.
LEMMA NextIsScheduler == Next => [SchedulerNext]_schedulerVars
<1> SUFFICES ASSUME Next PROVE [SchedulerNext]_schedulerVars
  OBVIOUS
<1>1. ASSUME NEW c \in Callers, CallerStep(c) PROVE [SchedulerNext]_schedulerVars
  BY <1>1 DEF CallerStep, ReadSettings, CheckRunning, CallCancel, ReadNext, CallSchedule, ScheduleLater, SchedulerNext
<1>2. ASSUME NEW c \in Callers, NEW p \in Peers,
             MarkPeerConnected(c, p) \/ MarkPeerDisconnected(c, p) \/ LoginPeer(c, p) \/ ExtendPeerSession(c, p)
      PROVE  [SchedulerNext]_schedulerVars
  BY <1>2 DEF MarkPeerConnected, MarkPeerDisconnected, LoginPeer, ExtendPeerSession
<1>3. ASSUME NEW c \in Callers, NEW e \in BOOLEAN, NEW l \in Limits, UpdateAccountSettings(c, e, l)
      PROVE  [SchedulerNext]_schedulerVars
  BY <1>3 DEF UpdateAccountSettings
<1>4. ASSUME NEW j \in Jobs, SchedulerStep(j) PROVE [SchedulerNext]_schedulerVars
  BY <1>4 DEF SchedulerStep, SchedulerNext
<1>5. ASSUME NEW j \in Jobs, JobStep(j) \/ JobFails(j) PROVE [SchedulerNext]_schedulerVars
  <2>1. CASE ListExpired(j) \/ ReadJobSettings(j) \/ \E p \in Peers : expirePeerIfStillDue(j, p)
    BY <2>1 DEF ListExpired, ReadJobSettings, expirePeerIfStillDue
  <2>2. CASE JobNext(j) \/ JobFails(j)
    <3>1. \E again \in BOOLEAN : JobReturns(j, again)
      BY <2>2 DEF JobNext, JobFails
    <3> QED BY <3>1 DEF SchedulerNext
  <2> QED BY <1>5, <2>1, <2>2 DEF JobStep
<1>6. ASSUME NEW p \in Peers, TimePasses(p) PROVE [SchedulerNext]_schedulerVars
  BY <1>6 DEF TimePasses
<1> QED BY <1>1, <1>2, <1>3, <1>4, <1>5, <1>6 DEF Next

\* The scheduler keeps its invariant whoever calls it.
LEMMA SchedulerInvStep == SchedulerInv /\ [SchedulerNext]_schedulerVars => SchedulerInv'
<1> SUFFICES ASSUME SchedulerInv, [SchedulerNext]_schedulerVars PROVE SchedulerInv'
  OBVIOUS
<1> USE SchedulerAssumption DEF SchedulerInv, SchedulerTypeOK, EntryIsTheJob, Jobs, Goto
<1>1. CASE Cancel
  <2>1. CASE jobs = 0
    BY <1>1, <2>1 DEF Cancel
  <2>2. CASE jobs # 0
    BY <1>1, <2>2 DEF Cancel
  <2> QED BY <2>1, <2>2
<1>2. CASE Schedule
  <2>1. CASE UNCHANGED schedulerVars
    BY <2>1 DEF schedulerVars
  <2>2. ASSUME jobs = 0, NEW j \in Jobs, goroutine[j] = "off", jobs' = j, Goto(j, "wait"), UNCHANGED cancelled
        PROVE  SchedulerInv'
    <3>1. j \notin cancelled
      BY <2>2
    <3> QED BY <2>2, <3>1
  <2> QED BY <1>2, <2>1, <2>2 DEF Schedule, IsSchedulerRunning
<1>3. ASSUME NEW j \in Jobs, Tick(j) PROVE SchedulerInv'
  BY <1>3 DEF Tick
<1>4. ASSUME NEW j \in Jobs, Stop(j) PROVE SchedulerInv'
  BY <1>4 DEF Stop
<1>5. ASSUME NEW j \in Jobs, Finish(j) PROVE SchedulerInv'
  BY <1>5 DEF Finish
<1>6. ASSUME NEW j \in Jobs, NEW again \in BOOLEAN, JobReturns(j, again) PROVE SchedulerInv'
  BY <1>6 DEF JobReturns
<1>7. CASE UNCHANGED schedulerVars
  BY <1>7 DEF schedulerVars
<1> QED BY <1>1, <1>2, <1>3, <1>4, <1>5, <1>6, <1>7 DEF SchedulerNext

\* Cancel reaches every job that will run again, also when a job ends while it has been
\* replaced (the comparison of channels before the delete in DefaultScheduler.Schedule).
THEOREM EntryIsTheJobHolds == Spec => []EntryIsTheJob
<1>1. Init => SchedulerInv
  BY SchedulerAssumption DEF Init, SchedulerInit, SchedulerInv, SchedulerTypeOK, EntryIsTheJob, Jobs
<1>2. SchedulerInv /\ [Next]_vars => SchedulerInv'
  <2>1. UNCHANGED vars => UNCHANGED schedulerVars
    BY DEF vars
  <2> QED BY <2>1, NextIsScheduler, SchedulerInvStep
<1>3. SchedulerInv => EntryIsTheJob
  BY DEF SchedulerInv
<1> QED BY <1>1, <1>2, <1>3, PTL DEF Spec

-----------------------------------------------------------------------------
\* Ages are numbers, and the settings, the account's and those a job works with, have
\* a limit of at least one.
LimitInv ==
    /\ limit \in Limits
    /\ age \in [Peers -> 0 .. MaxAge]
    /\ seen \in [Jobs -> [enabled : BOOLEAN, limit : Limits]]
    /\ enabled \in BOOLEAN
    /\ flagged \in [Peers -> BOOLEAN]

\* Settings and ages start within their ranges.
LEMMA LimitInvInit == Init => LimitInv
BY ExpiryAssumption DEF Init, LimitInv, Limits, Unread

\* Every step keeps the settings, those a job has read, and the ages within their ranges.
LEMMA LimitInvStep == LimitInv /\ [Next]_vars => LimitInv'
<1> SUFFICES ASSUME LimitInv, [Next]_vars PROVE LimitInv'
  OBVIOUS
<1> USE ExpiryAssumption DEF LimitInv, Limits
<1>1. CASE UNCHANGED <<limit, age, seen, enabled, flagged>>
  BY <1>1
<1>2. ASSUME NEW c \in Callers, CallerStep(c) PROVE LimitInv'
  <2>1. UNCHANGED <<limit, age, seen, enabled, flagged>>
    BY <1>2 DEF CallerStep, ReadSettings, CheckRunning, CallCancel, ReadNext, CallSchedule, ScheduleLater, peerVars, jobVars
  <2> QED BY <2>1
<1>3. ASSUME NEW c \in Callers, NEW p \in Peers,
             MarkPeerConnected(c, p) \/ MarkPeerDisconnected(c, p) \/ LoginPeer(c, p) \/ ExtendPeerSession(c, p)
      PROVE  LimitInv'
  <2>1. UNCHANGED <<limit, seen, enabled>>
    BY <1>3 DEF MarkPeerConnected, MarkPeerDisconnected, LoginPeer, ExtendPeerSession, jobVars
  <2>2. age' = age \/ age' = [age EXCEPT ![p] = 0]
    BY <1>3 DEF MarkPeerConnected, MarkPeerDisconnected, LoginPeer, ExtendPeerSession
  <2>3. flagged' = flagged \/ flagged' = [flagged EXCEPT ![p] = FALSE]
    BY <1>3 DEF MarkPeerConnected, MarkPeerDisconnected, LoginPeer, ExtendPeerSession
  <2>4. age' \in [Peers -> 0 .. MaxAge]
    BY <2>2
  <2>5. flagged' \in [Peers -> BOOLEAN]
    BY <2>3
  <2> QED BY <2>1, <2>4, <2>5
<1>4. ASSUME NEW c \in Callers, NEW e \in BOOLEAN, NEW l \in Limits, UpdateAccountSettings(c, e, l)
      PROVE  LimitInv'
  BY <1>4 DEF UpdateAccountSettings, jobVars
<1>5. ASSUME NEW j \in Jobs, SchedulerStep(j) \/ ListExpired(j) \/ JobNext(j) PROVE LimitInv'
  BY <1>1, <1>5 DEF SchedulerStep, ListExpired, JobNext, peerVars, jobVars
<1>6. ASSUME NEW j \in Jobs, ReadJobSettings(j) \/ JobFails(j) PROVE LimitInv'
  <2>1. UNCHANGED <<limit, age, enabled, flagged>>
    BY <1>6 DEF ReadJobSettings, JobFails, peerVars
  <2>2. \/ seen' = seen \/ seen' = [seen EXCEPT ![j] = Unread]
        \/ seen' = [seen EXCEPT ![j] = [enabled |-> enabled, limit |-> limit]]
    BY <1>6 DEF ReadJobSettings, JobFails
  <2>3. Unread \in [enabled : BOOLEAN, limit : Limits] /\ [enabled |-> enabled, limit |-> limit] \in [enabled : BOOLEAN, limit : Limits]
    BY DEF Unread
  <2>4. seen' \in [Jobs -> [enabled : BOOLEAN, limit : Limits]]
    BY <2>2, <2>3 DEF LimitInv
  <2> QED BY <2>1, <2>4
<1>7. ASSUME NEW j \in Jobs, NEW p \in Peers, expirePeerIfStillDue(j, p) PROVE LimitInv'
  <2>1. UNCHANGED <<limit, age, enabled>>
    BY <1>7 DEF expirePeerIfStillDue
  <2>2. flagged' = flagged \/ flagged' = [flagged EXCEPT ![p] = TRUE]
    BY <1>7 DEF expirePeerIfStillDue
  <2>3. seen' = seen \/ seen' = [seen EXCEPT ![j] = Unread]
    BY <1>7 DEF expirePeerIfStillDue
  <2>4. Unread \in [enabled : BOOLEAN, limit : Limits]
    BY DEF Unread
  <2>5. seen' \in [Jobs -> [enabled : BOOLEAN, limit : Limits]]
    BY <2>3, <2>4 DEF LimitInv
  <2>6. flagged' \in [Peers -> BOOLEAN]
    BY <2>2
  <2> QED BY <2>1, <2>5, <2>6
<1>8. ASSUME NEW p \in Peers, TimePasses(p) PROVE LimitInv'
  <2>1. age' = [age EXCEPT ![p] = age[p] + 1] /\ age[p] \in 0 .. MaxAge /\ age[p] < MaxAge
    BY <1>8 DEF TimePasses
  <2>2. age' \in [Peers -> 0 .. MaxAge]
    BY <2>1
  <2>3. UNCHANGED <<limit, enabled, flagged, seen>>
    BY <1>8 DEF TimePasses, jobVars
  <2> QED BY <2>2, <2>3
<1>9. CASE UNCHANGED vars
  BY <1>1, <1>9 DEF vars, peerVars, jobVars
<1> QED BY <1>2, <1>3, <1>4, <1>5, <1>6, <1>7, <1>8, <1>9 DEF Next, JobStep

\* No peer that has just logged in or disconnected is flagged: the peer is looked at
\* again in the transaction that flags it (expirePeerIfStillDue).
THEOREM FreshStaysHolds == Spec => FreshStays
<1> DEFINE Flags == \A p \in Peers : ~flagged[p] /\ flagged'[p] => age[p] # 0
<1>1. LimitInv /\ [Next]_vars => [Flags]_vars
  <2> SUFFICES ASSUME LimitInv, Next, NEW q \in Peers, ~flagged[q], flagged'[q] PROVE age[q] # 0
    OBVIOUS
  <2>1. PICK j \in Jobs, p \in Peers : expirePeerIfStillDue(j, p)
    <3>1. ASSUME NEW c \in Callers, CallerStep(c) PROVE flagged' = flagged
      BY <3>1 DEF CallerStep, ReadSettings, CheckRunning, CallCancel, ReadNext, CallSchedule, ScheduleLater, peerVars
    <3>2. ASSUME NEW c \in Callers, NEW p \in Peers,
                 MarkPeerConnected(c, p) \/ MarkPeerDisconnected(c, p) \/ LoginPeer(c, p) \/ ExtendPeerSession(c, p)
          PROVE  flagged' = flagged \/ flagged' = [flagged EXCEPT ![p] = FALSE]
      BY <3>2 DEF MarkPeerConnected, MarkPeerDisconnected, LoginPeer, ExtendPeerSession
    <3>3. ASSUME NEW c \in Callers, NEW e \in BOOLEAN, NEW l \in Limits, UpdateAccountSettings(c, e, l)
          PROVE  flagged' = flagged
      BY <3>3 DEF UpdateAccountSettings
    <3>4. ASSUME NEW j \in Jobs, SchedulerStep(j) \/ JobFails(j) \/ ListExpired(j) \/ ReadJobSettings(j) \/ JobNext(j)
          PROVE  flagged' = flagged
      BY <3>4 DEF SchedulerStep, JobFails, ListExpired, ReadJobSettings, JobNext, peerVars
    <3>5. ASSUME NEW p \in Peers, TimePasses(p) PROVE flagged' = flagged
      BY <3>5 DEF TimePasses
    <3>6. flagged' # flagged /\ \A p \in Peers : flagged' # [flagged EXCEPT ![p] = FALSE]
      BY DEF LimitInv
    <3> QED BY <3>1, <3>2, <3>3, <3>4, <3>5, <3>6 DEF Next, JobStep
  <2>2. StillDue(j, p) /\ p = q
    BY <2>1 DEF expirePeerIfStillDue, LimitInv
  <2> QED BY <2>2, ExpiryAssumption DEF StillDue, Expired, LimitInv, Limits
<1> QED BY LimitInvInit, LimitInvStep, <1>1, PTL DEF Spec, FreshStays
-----------------------------------------------------------------------------
(* Inactive peers.  A request that arms the scheduler cancels first: until  *)
(* it has, the cancel and the scheduling are still to come; after that      *)
(* there is no entry until somebody schedules one, and the job that then    *)
(* runs does not end while a peer is pending.                               *)

WithSettings == <<"settings", "cancel", "next", "schedule">>
FromCancel   == <<"cancel", "next", "schedule">>
FromNext     == <<"next", "schedule">>

\* What a request may have to do in this mode.
Remaining == {<<>>, WithSettings, FromCancel, FromNext, <<"schedule">>, <<"cancel">>}

\* A request that has yet to read the settings may do nothing.
WillCancel   == {FromCancel}
WillSchedule == {FromNext, <<"schedule">>}

TodoOK == todo \in [Callers -> Remaining]

\* An armed scheduler belongs to an account that is switched on, and nobody is
\* about to cancel without scheduling.
ArmedOK == armed # "no" => enabled /\ \A c \in Callers : todo[c] # <<"cancel">>

Lives == jobs # 0 /\ goroutine[jobs] # "end"

HasJob ==
    armed # "no" /\ Pending # {} =>
        \/ \E c \in Callers : todo[c] \in WillCancel
        \/ Lives
        \/ jobs = 0 /\ \E c \in Callers : todo[c] \in WillSchedule

InactivityInv == mode = "inactivity" => TodoOK /\ ArmedOK /\ HasJob

\* Where the scheduling step is in what a request has to do.
LEMMA FindsSchedule ==
  /\ SelectInSeq(<<"next", "schedule">>, LAMBDA x : x = "schedule") = 2
  /\ SelectInSeq(<<"settings", "cancel", "next", "schedule">>, LAMBDA x : x = "schedule") = 4
<1> DEFINE n == <<"next", "schedule">>
           s == <<"settings", "cancel", "next", "schedule">>
<1>1. {i \in 1..Len(n) : n[i] = "schedule"} = {2}
  OBVIOUS
<1>2. {i \in 1..Len(s) : s[i] = "schedule"} = {4}
  OBVIOUS
<1>3. \A k \in Nat : Min({k}) = k
  BY DEF Min
<1> QED
  BY <1>1, <1>2, <1>3 DEF SelectInSeq

\* A request that leaves its arming steps has nothing more to do.
LEMMA LeavesAll ==
  ASSUME TodoOK, NEW c \in Callers, todo[c] \in {WithSettings, FromNext}, Leaves(c)
  PROVE  todo' = [todo EXCEPT ![c] = <<>>] /\ armed' = armed
<1> DEFINE last == SelectInSeq(todo[c], LAMBDA x : x = "schedule")
<1>0. todo' = [todo EXCEPT ![c] = SubSeq(todo[c], last + 1, Len(todo[c]))] /\ armed' = armed
  BY DEF Leaves
<1>1. CASE todo[c] = WithSettings
  <2>1. last = 4
    BY <1>1, FindsSchedule DEF WithSettings
  <2> HIDE DEF last
  <2>2. SubSeq(todo[c], last + 1, Len(todo[c])) = <<>>
    BY <1>1, <2>1 DEF WithSettings
  <2> QED BY <1>0, <2>2
<1>2. CASE todo[c] = FromNext
  <2>1. last = 2
    BY <1>2, FindsSchedule DEF FromNext
  <2> HIDE DEF last
  <2>2. SubSeq(todo[c], last + 1, Len(todo[c])) = <<>>
    BY <1>2, <2>1 DEF FromNext
  <2> QED BY <1>0, <2>2
<1> QED BY <1>1, <1>2

\* The first step of what a request has to do, and the rest.
LEMMA StepOfTodo ==
  ASSUME NEW r \in Remaining, r # <<>>
  PROVE  /\ Head(r) = "settings" => r = WithSettings /\ Tail(r) = FromCancel
         /\ Head(r) = "cancel" => (r = FromCancel /\ Tail(r) = FromNext) \/ (r = <<"cancel">> /\ Tail(r) = <<>>)
         /\ Head(r) = "next" => r = FromNext /\ Tail(r) = <<"schedule">>
         /\ Head(r) = "schedule" => r = <<"schedule">> /\ Tail(r) = <<>>
         /\ Head(r) # "check"
<1>1. Head(WithSettings) = "settings" /\ Tail(WithSettings) = FromCancel
  BY DEF WithSettings, FromCancel
<1>2. Head(FromCancel) = "cancel" /\ Tail(FromCancel) = FromNext
  BY DEF FromCancel, FromNext
<1>3. Head(FromNext) = "next" /\ Tail(FromNext) = <<"schedule">>
  BY DEF FromNext
<1>4. Head(<<"schedule">>) = "schedule" /\ Tail(<<"schedule">>) = <<>>
  OBVIOUS
<1>5. Head(<<"cancel">>) = "cancel" /\ Tail(<<"cancel">>) = <<>>
  OBVIOUS
<1>6. r \in {WithSettings, FromCancel, FromNext, <<"schedule">>, <<"cancel">>}
  BY DEF Remaining
<1>7. CASE r = WithSettings
  BY <1>1, <1>7
<1>8. CASE r = FromCancel
  BY <1>2, <1>8
<1>9. CASE r = FromNext
  BY <1>3, <1>9
<1>10. CASE r = <<"schedule">>
  BY <1>4, <1>10
<1>11. CASE r = <<"cancel">>
  BY <1>5, <1>11
<1> QED BY <1>6, <1>7, <1>8, <1>9, <1>10, <1>11

\* The five kinds of what a request has to do are different.
LEMMA TodoDiffers ==
  /\ WithSettings # <<"cancel">> /\ FromCancel # <<"cancel">> /\ FromNext # <<"cancel">>
  /\ <<"schedule">> # <<"cancel">> /\ <<>> # <<"cancel">>
  /\ \A r \in WillCancel : r # WithSettings /\ r # FromNext /\ r # <<"schedule">> /\ r # <<"cancel">> /\ r # <<>>
  /\ WithSettings # FromNext /\ WithSettings # <<"schedule">> /\ FromNext # <<"schedule">>
  BY DEF WillCancel, WithSettings, FromCancel, FromNext

\* What a request begins with in this mode: it cancels and schedules, or it does not schedule.
LEMMA BeginsKeeps ==
  ASSUME TodoOK, NEW c \in Callers, NEW steps \in {<<>>, WithSettings, FromCancel, <<"cancel">>},
         Begins(c, steps, "other")
  PROVE  TodoOK' /\ ArmedOK' /\ HasJob'
<1>1. todo' = [todo EXCEPT ![c] = steps]
  BY DEF Begins
<1>2. TodoOK'
  BY <1>1 DEF TodoOK, Remaining
<1>3. armed' # "no" => /\ enabled' /\ {"settings", "schedule"} \cap ToSet(steps) = {"schedule"}
                       /\ \A d \in Callers : todo[d] # <<>> => Last(todo[d]) = "schedule"
  BY DEF Begins, AllSchedule
<1>4. {"settings", "schedule"} \cap ToSet(steps) = {"schedule"} => steps \in WillCancel
  <2>1. WithSettings[1] = "settings" /\ 1 \in DOMAIN WithSettings
    BY DEF WithSettings
  <2>2. "settings" \in ToSet(WithSettings)
    BY <2>1 DEF ToSet
  <2>3. steps \in {<<>>, <<"cancel">>} => "schedule" \notin ToSet(steps)
    BY DEF ToSet
  <2> QED BY <2>2, <2>3 DEF WillCancel
<1>5. Last(<<"cancel">>) = "cancel" /\ <<"cancel">> # <<>>
  BY DEF Last
<1>6. ASSUME armed' # "no" PROVE enabled' /\ steps \in WillCancel /\ \A d \in Callers : todo'[d] # <<"cancel">>
  BY <1>1, <1>3, <1>4, <1>5, <1>6, TodoDiffers DEF TodoOK
<1>7. todo'[c] = steps
  BY <1>1 DEF TodoOK
<1> QED BY <1>2, <1>6, <1>7 DEF ArmedOK, HasJob

\* A step put before three others.
LEMMA Prepended ==
  ASSUME NEW S, NEW a \in S, NEW b \in S, NEW c \in S, NEW d \in S
  PROVE  <<a>> \o <<b, c, d>> = <<a, b, c, d>>
<1>1. <<a>> \in Seq(S)
  OBVIOUS
<1>2. <<b, c, d>> \in Seq(S)
  OBVIOUS
<1>3. Len(<<a>>) = 1 /\ Len(<<b, c, d>>) = 3
  OBVIOUS
<1>4. <<a>> \o <<b, c, d>> \in Seq(S) /\ Len(<<a>> \o <<b, c, d>>) = Len(<<a>>) + Len(<<b, c, d>>)
  BY <1>1, <1>2, ConcatProperties
<1> DEFINE x == <<a>> \o <<b, c, d>>
<1>5. \A i \in 1..4 : x[i] = IF i <= Len(<<a>>) THEN <<a>>[i] ELSE <<b, c, d>>[i - Len(<<a>>)]
  BY <1>1, <1>2, <1>3, ConcatProperties
<1>6. x[1] = a /\ x[2] = b /\ x[3] = c /\ x[4] = d
  BY <1>5, <1>3
<1>7. x \in Seq(S) /\ Len(x) = 4
  BY <1>3, <1>4
<1> HIDE DEF x
<1>8. x = <<a, b, c, d>>
  BY <1>6, <1>7
<1> QED BY <1>8 DEF x

\* A step of a request keeps its peers and its settings.
LEMMA CallerStepKeeps ==
  ASSUME mode = "inactivity", SchedulerInv, TodoOK, ArmedOK, HasJob, NEW c \in Callers, CallerStep(c)
  PROVE  TodoOK' /\ ArmedOK' /\ HasJob'
<1>0. UNCHANGED <<enabled, Pending>>
  <2>1. UNCHANGED peerVars
    BY DEF CallerStep, ReadSettings, CheckRunning, CallCancel, ReadNext, CallSchedule, ScheduleLater
  <2> QED BY <2>1 DEF peerVars, Pending
<1>1. todo[c] \in Remaining /\ todo[c] # <<>>
  BY DEF TodoOK, CallerStep, ReadSettings, CheckRunning, CallCancel, ReadNext, CallSchedule, ScheduleLater, CallerAt
<1>2. ASSUME NEW r \in Remaining, todo' = [todo EXCEPT ![c] = r], r # <<"cancel">>, armed' = armed,
             armed # "no" /\ Pending # {} =>
                \/ r \in WillCancel
                \/ todo[c] \notin WillCancel /\ \E d \in Callers : todo[d] \in WillCancel
                \/ Lives'
                \/ jobs' = 0 /\ r \in WillSchedule
                \/ jobs' = 0 /\ todo[c] \notin WillSchedule /\ \E d \in Callers : todo[d] \in WillSchedule
      PROVE  TodoOK' /\ ArmedOK' /\ HasJob'
  <2>1. todo'[c] = r /\ \A d \in Callers \ {c} : todo'[d] = todo[d]
    BY <1>2 DEF TodoOK
  <2>2. TodoOK'
    BY <1>2 DEF TodoOK
  <2>3. ArmedOK'
    BY <1>0, <1>2, <2>1 DEF ArmedOK
  <2>4. HasJob'
    BY <1>0, <1>2, <2>1 DEF HasJob
  <2> QED BY <2>2, <2>3, <2>4
<1>3. CASE ReadSettings(c)
  <2>1. todo[c] = WithSettings /\ Tail(todo[c]) = FromCancel /\ UNCHANGED <<jobs, goroutine>>
    BY <1>1, <1>3, StepOfTodo DEF ReadSettings, CallerAt, schedulerVars
  <2>2. ASSUME enabled, todo' = [todo EXCEPT ![c] = Tail(todo[c])],
               armed' = IF armed = "no" /\ AllSchedule THEN "other" ELSE armed
        PROVE  TodoOK' /\ ArmedOK' /\ HasJob'
    <3>1. todo'[c] = FromCancel /\ \A d \in Callers \ {c} : todo'[d] = todo[d]
      BY <2>1, <2>2 DEF TodoOK
    <3>2. TodoOK'
      BY <2>1, <2>2 DEF TodoOK, Remaining
    <3>3. AllSchedule => \A d \in Callers : todo[d] # <<"cancel">>
      BY DEF AllSchedule, Last
    <3>4. ArmedOK'
      BY <1>0, <2>2, <3>1, <3>3, TodoDiffers DEF ArmedOK
    <3>5. HasJob'
      BY <3>1 DEF HasJob, WillCancel
    <3> QED BY <3>2, <3>4, <3>5
  <2>3. CASE Leaves(c)
    <3>1. todo' = [todo EXCEPT ![c] = <<>>] /\ armed' = armed
      BY <2>1, <2>3, LeavesAll
    <3>2. todo[c] \notin WillCancel /\ todo[c] \notin WillSchedule /\ Lives' = Lives
      BY <2>1, TodoDiffers DEF Lives, WillSchedule
    <3> QED BY <1>2, <2>1, <3>1, <3>2, TodoDiffers DEF Remaining, HasJob
  <2> QED BY <1>3, <2>2, <2>3 DEF ReadSettings
<1>4. CASE CheckRunning(c)
  BY <1>1, <1>4, StepOfTodo DEF CheckRunning, CallerAt
<1>5. CASE CallCancel(c)
  <2>1. (todo[c] = FromCancel /\ Tail(todo[c]) = FromNext) \/ (todo[c] = <<"cancel">> /\ Tail(todo[c]) = <<>>)
    BY <1>1, <1>5, StepOfTodo DEF CallCancel, CallerAt
  <2>2. todo' = [todo EXCEPT ![c] = Tail(todo[c])] /\ jobs' = 0 /\ armed' = armed
    BY <1>5 DEF CallCancel, Goes, Cancel
  <2>3. CASE todo[c] = FromCancel
    <3>1. todo' = [todo EXCEPT ![c] = FromNext]
      BY <2>1, <2>2, <2>3, TodoDiffers
    <3> QED BY <1>2, <2>2, <3>1, TodoDiffers DEF Remaining, WillSchedule
  <2>4. CASE todo[c] = <<"cancel">>
    <3>1. todo' = [todo EXCEPT ![c] = <<>>] /\ armed = "no"
      BY <2>1, <2>2, <2>4, TodoDiffers DEF ArmedOK
    <3> QED BY <1>2, <2>2, <3>1, TodoDiffers DEF Remaining
  <2> QED BY <2>1, <2>3, <2>4
<1>6. CASE ReadNext(c)
  <2>1. todo[c] = FromNext /\ Tail(todo[c]) = <<"schedule">> /\ UNCHANGED <<jobs, goroutine>>
    BY <1>1, <1>6, StepOfTodo DEF ReadNext, CallerAt, schedulerVars
  <2>2. todo[c] \notin WillCancel /\ Lives' = Lives
    BY <2>1, TodoDiffers DEF Lives
  <2>3. CASE Goes(c)
    <3>1. todo' = [todo EXCEPT ![c] = <<"schedule">>] /\ armed' = armed
      BY <2>1, <2>3 DEF Goes
    <3> QED BY <1>2, <2>1, <2>2, <3>1, TodoDiffers DEF Remaining, WillSchedule, HasJob
  <2>4. CASE Pending = {} /\ Leaves(c)
    <3>1. todo' = [todo EXCEPT ![c] = <<>>] /\ armed' = armed
      BY <2>1, <2>4, LeavesAll
    <3> QED BY <1>2, <2>4, <3>1, TodoDiffers DEF Remaining
  <2> QED BY <1>6, <2>3, <2>4 DEF ReadNext
<1>7. CASE CallSchedule(c)
  <2>1. todo[c] = <<"schedule">> /\ Tail(todo[c]) = <<>> /\ Schedule
    BY <1>1, <1>7, StepOfTodo DEF CallSchedule, CallerAt
  <2>2. todo' = [todo EXCEPT ![c] = <<>>] /\ armed' = armed /\ todo[c] \notin WillCancel
    BY <1>7, <2>1, TodoDiffers DEF CallSchedule, Goes
  <2>3. jobs = 0 => Lives'
    BY <2>1, SchedulerAssumption DEF Schedule, IsSchedulerRunning, Goto, Lives, Jobs, SchedulerInv, SchedulerTypeOK
  <2>4. jobs # 0 => UNCHANGED <<jobs, goroutine>>
    BY <2>1 DEF Schedule, IsSchedulerRunning, schedulerVars
  <2>5. Lives => Lives'
    BY <2>4 DEF Lives
  <2> QED BY <1>2, <2>2, <2>3, <2>5, TodoDiffers DEF Remaining, HasJob
<1>8. ASSUME NEW d \in Callers PROVE ~ScheduleLater(c, d)
  <2>1. CallerAt(c, "schedule") => todo[c] = <<"schedule">>
    BY <1>1, StepOfTodo DEF CallerAt
  <2>2. ~(Len(<<"schedule">>) > 1)
    OBVIOUS
  <2> QED BY <2>1, <2>2 DEF ScheduleLater
<1> QED BY <1>3, <1>4, <1>5, <1>6, <1>7, <1>8 DEF CallerStep

\* A request begins with the steps that the kind of its change calls for.
LEMMA RequestKeeps ==
  ASSUME mode = "inactivity", TodoOK, NEW c \in Callers,
         \/ \E p \in Peers : \/ MarkPeerConnected(c, p) \/ MarkPeerDisconnected(c, p)
                             \/ LoginPeer(c, p) \/ ExtendPeerSession(c, p)
         \/ \E e \in BOOLEAN, l \in Limits : UpdateAccountSettings(c, e, l)
  PROVE  TodoOK' /\ ArmedOK' /\ HasJob'
<1>1. Arm = FromCancel /\ <<"settings">> \o Arm = WithSettings
  <2>1. Arm = FromCancel
    BY DEF Arm, FromCancel
  <2>2. <<"settings">> \o <<"cancel", "next", "schedule">> = <<"settings", "cancel", "next", "schedule">>
    <3>1. \A S : \A a, b, c1, d \in S : <<a>> \o <<b, c1, d>> = <<a, b, c1, d>>
      BY Prepended
    <3> DEFINE S == {"settings", "cancel", "next", "schedule"}
    <3>2. "settings" \in S /\ "cancel" \in S /\ "next" \in S /\ "schedule" \in S
      OBVIOUS
    <3> HIDE DEF S
    <3> QED BY <3>1, <3>2
  <2> QED BY <2>1, <2>2 DEF FromCancel, WithSettings
<1>2. ASSUME NEW e \in BOOLEAN, NEW l \in Limits
      PROVE  SettingsSteps(e, l) \in {<<>>, WithSettings, FromCancel, <<"cancel">>}
  BY <1>1 DEF SettingsSteps
<1>3. \E steps \in {<<>>, WithSettings, FromCancel, <<"cancel">>} : Begins(c, steps, "other")
  BY <1>1, <1>2 DEF MarkPeerConnected, MarkPeerDisconnected, LoginPeer, ExtendPeerSession, UpdateAccountSettings
<1> QED BY <1>3, BeginsKeeps

\* A job does not end while a peer is pending, and pending peers only get fewer.
LEMMA JobKeeps ==
  ASSUME mode = "inactivity", SchedulerInv, LimitInv, TodoOK, ArmedOK, HasJob,
         \/ \E j \in Jobs : SchedulerStep(j) \/ JobStep(j) \/ JobFails(j)
         \/ \E p \in Peers : TimePasses(p)
         \/ UNCHANGED vars
  PROVE  TodoOK' /\ ArmedOK' /\ HasJob'
<1>1. ASSUME UNCHANGED <<todo, armed, enabled>>, Pending' \subseteq Pending,
             Pending # {} /\ Lives => Lives', jobs = 0 => jobs' = 0
      PROVE  TodoOK' /\ ArmedOK' /\ HasJob'
  BY <1>1 DEF TodoOK, ArmedOK, HasJob
<1>2. ASSUME UNCHANGED <<mode, connected, flagged>> PROVE Pending' = Pending
  BY <1>2 DEF Pending
<1>3. ASSUME UNCHANGED <<jobs, goroutine>> PROVE (Lives => Lives') /\ (jobs = 0 => jobs' = 0)
  BY <1>3 DEF Lives
<1>4. CASE \E p \in Peers : TimePasses(p)
  <2>1. UNCHANGED <<todo, armed, enabled>> /\ UNCHANGED <<mode, connected, flagged>> /\ UNCHANGED <<jobs, goroutine>>
    BY <1>4 DEF TimePasses, schedulerVars, callVars
  <2> QED BY <1>1, <1>2, <1>3, <2>1
<1>5. CASE UNCHANGED vars
  <2>1. UNCHANGED <<todo, armed, enabled>> /\ UNCHANGED <<mode, connected, flagged>> /\ UNCHANGED <<jobs, goroutine>>
    BY <1>5 DEF vars, schedulerVars, callVars, peerVars
  <2> QED BY <1>1, <1>2, <1>3, <2>1
<1>6. ASSUME NEW j \in Jobs, ListExpired(j) \/ ReadJobSettings(j) PROVE TodoOK' /\ ArmedOK' /\ HasJob'
  <2>1. UNCHANGED <<todo, armed, enabled>> /\ UNCHANGED <<mode, connected, flagged>> /\ UNCHANGED <<jobs, goroutine>>
    BY <1>6 DEF ListExpired, ReadJobSettings, schedulerVars, callVars, peerVars
  <2> QED BY <1>1, <1>2, <1>3, <2>1
<1>7. ASSUME NEW j \in Jobs, NEW p \in Peers, expirePeerIfStillDue(j, p) PROVE TodoOK' /\ ArmedOK' /\ HasJob'
  <2>1. UNCHANGED <<todo, armed, enabled>> /\ UNCHANGED <<mode, connected>> /\ UNCHANGED <<jobs, goroutine>>
        /\ (flagged' = flagged \/ flagged' = [flagged EXCEPT ![p] = TRUE])
    BY <1>7 DEF expirePeerIfStillDue, schedulerVars, callVars
  <2>2. Pending' \subseteq Pending
    BY <2>1 DEF Pending, LimitInv
  <2> QED BY <1>1, <1>3, <2>1, <2>2
<1>8. ASSUME NEW j \in Jobs, SchedulerStep(j) PROVE TodoOK' /\ ArmedOK' /\ HasJob'
  <2>1. UNCHANGED <<todo, armed, enabled>> /\ UNCHANGED <<mode, connected, flagged>>
    BY <1>8 DEF SchedulerStep, callVars, peerVars
  <2>2. (Lives => Lives') /\ (jobs = 0 => jobs' = 0)
    <3> USE DEF Goto, Lives
    <3>1. /\ goroutine \in [Jobs -> {"off", "wait", "job", "end"}]
          /\ jobs # 0 => jobs \in Jobs /\ jobs \notin cancelled
      BY SchedulerAssumption DEF SchedulerInv, SchedulerTypeOK, EntryIsTheJob, Jobs
    <3>2. CASE Tick(j)
      BY <3>1, <3>2 DEF Tick
    <3>3. CASE Stop(j)
      BY <3>1, <3>3 DEF Stop
    <3>4. CASE Finish(j)
      BY <3>1, <3>4 DEF Finish
    <3> QED BY <1>8, <3>2, <3>3, <3>4 DEF SchedulerStep
  <2> QED BY <1>1, <1>2, <2>1, <2>2
<1>9. ASSUME NEW j \in Jobs, JobNext(j) \/ JobFails(j) PROVE TodoOK' /\ ArmedOK' /\ HasJob'
  <2>1. UNCHANGED <<todo, armed, enabled>> /\ UNCHANGED <<mode, connected, flagged>>
    BY <1>9 DEF JobNext, JobFails, callVars, peerVars
  <2>2. jobs' = jobs /\ (Pending # {} => goroutine' = [goroutine EXCEPT ![j] = "wait"])
    BY <1>9 DEF JobNext, JobFails, JobReturns, Goto
  <2>3. Pending # {} /\ Lives => Lives'
    BY <2>2, SchedulerAssumption DEF Lives, SchedulerInv, SchedulerTypeOK, Jobs
  <2> QED BY <1>1, <1>2, <2>1, <2>2, <2>3
<1> QED BY <1>4, <1>5, <1>6, <1>7, <1>8, <1>9 DEF JobStep

\* InactiveHaveJob: once the requests and jobs under way have come to rest, an account for
\* which a request got as far as arming the scheduler after the latest change has a job for
\* its disconnected peers, for any number of requests that cancel and schedule between one
\* another's steps or fail to read the settings, of jobs that end, fail or are being
\* cancelled, and of peers that are flagged meanwhile.
THEOREM InactiveHaveJob == Spec => []InactivePeersHaveJob
<1> DEFINE I == SchedulerInv /\ LimitInv /\ InactivityInv
<1>1. Init => I
  <2>1. Init => SchedulerInv
    BY SchedulerAssumption DEF Init, SchedulerInit, SchedulerInv, SchedulerTypeOK, EntryIsTheJob, Jobs
  <2>2. Init => InactivityInv
    BY DEF Init, InactivityInv, TodoOK, ArmedOK, HasJob, Remaining
  <2> QED BY <2>1, <2>2, LimitInvInit
<1>2. I /\ [Next]_vars => I'
  <2> SUFFICES ASSUME SchedulerInv, LimitInv, InactivityInv, [Next]_vars PROVE I'
    OBVIOUS
  <2>1. UNCHANGED vars => UNCHANGED schedulerVars
    BY DEF vars
  <2>2. SchedulerInv' /\ LimitInv'
    BY <2>1, NextIsScheduler, SchedulerInvStep, LimitInvStep
  <2>3. mode' = mode
    BY DEF Next, CallerStep, ReadSettings, CheckRunning, CallCancel, ReadNext, CallSchedule, ScheduleLater, MarkPeerConnected,
           MarkPeerDisconnected, LoginPeer, ExtendPeerSession, UpdateAccountSettings, SchedulerStep, JobStep,
           JobFails, ListExpired, ReadJobSettings, JobNext, expirePeerIfStillDue, TimePasses, peerVars, vars
  <2>4. InactivityInv'
    BY <2>3, CallerStepKeeps, RequestKeeps, JobKeeps DEF InactivityInv, Next
  <2> QED BY <2>2, <2>4
<1>3. I => InactivePeersHaveJob
  <2>1. \A r \in WillCancel \cup WillSchedule : r # <<>>
    BY DEF WillCancel, WillSchedule, WithSettings, FromCancel, FromNext
  <2> QED BY <2>1 DEF InactivityInv, HasJob, InactivePeersHaveJob, Settled, Lives
<1> QED BY <1>1, <1>2, <1>3, PTL DEF Spec
=============================================================================
