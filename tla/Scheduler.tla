------------------------------- MODULE Scheduler -------------------------------
(***************************************************************************)
(* The management server's job scheduler (DefaultScheduler) for one job    *)
(* ID: the jobs map, with one cancel channel per entry, and the goroutine  *)
(* of every scheduled job, which runs the job when its ticker fires and    *)
(* goes on until it is cancelled or the job asks not to be run again.      *)
(*                                                                         *)
(* Goroutines are numbered; the number stands for the cancel channel.  One *)
(* that returned may be started again under its number.  Entries of other  *)
(* IDs share nothing with this one but the mutex.                          *)
(***************************************************************************)
EXTENDS Naturals

CONSTANT MaxJobs       \* bound: goroutines of the ID that are there at once

ASSUME SchedulerAssumption == MaxJobs \in Nat

Jobs == 1 .. MaxJobs

VARIABLES
    jobs,              \* wm.jobs[ID]: the goroutine whose channel it is, 0 for no entry
    goroutine,         \* "off", "wait" (select), "job" (in job()) or "end" (about to lock)
    cancelled          \* goroutines that are there and whose cancel channel is closed

schedulerVars == <<jobs, goroutine, cancelled>>

SchedulerTypeOK ==
    /\ jobs \in 0 .. MaxJobs
    /\ goroutine \in [Jobs -> {"off", "wait", "job", "end"}]
    /\ cancelled \subseteq Jobs

SchedulerInit == jobs = 0 /\ goroutine = [j \in Jobs |-> "off"] /\ cancelled = {}

Goto(j, step) == goroutine' = [goroutine EXCEPT ![j] = step]

IsSchedulerRunning == jobs # 0

Cancel ==
    /\ jobs' = 0
    /\ cancelled' = IF jobs = 0 THEN cancelled ELSE cancelled \cup {jobs}
    /\ UNCHANGED goroutine

Schedule ==
    \/ IsSchedulerRunning /\ UNCHANGED schedulerVars
    \/ /\ ~IsSchedulerRunning
       /\ \E j \in Jobs : /\ goroutine[j] = "off"
                          /\ jobs' = j /\ Goto(j, "wait")
       /\ UNCHANGED cancelled

\* The ticker fires, the channel is open: job() is called.
Tick(j) ==
    /\ goroutine[j] = "wait" /\ j \notin cancelled
    /\ Goto(j, "job")
    /\ UNCHANGED <<jobs, cancelled>>

\* The select, or the one after the tick, sees the closed channel.
Stop(j) ==
    /\ goroutine[j] = "wait" /\ j \in cancelled
    /\ Goto(j, "off")
    /\ cancelled' = cancelled \ {j}
    /\ UNCHANGED jobs

\* job() returns.
JobReturns(j, reschedule) ==
    /\ goroutine[j] = "job"
    /\ Goto(j, IF reschedule THEN "wait" ELSE "end")
    /\ UNCHANGED <<jobs, cancelled>>

\* Variant of Finish: the entry is deleted whoever it belongs to.
FinishAny(j) ==
    /\ goroutine[j] = "end"
    /\ jobs' = 0
    /\ Goto(j, "off")
    /\ cancelled' = cancelled \ {j}

Finish(j) ==
    /\ goroutine[j] = "end"
    /\ jobs' = IF jobs = j THEN 0 ELSE jobs
    /\ Goto(j, "off")
    /\ cancelled' = cancelled \ {j}

-----------------------------------------------------------------------------
\* The map knows every job that will run again: the entry is of a goroutine that is
\* there and not cancelled, and a goroutine without the entry is cancelled or on its
\* way out, so that Cancel reaches whatever is scheduled and no job runs beside the
\* one that is registered for longer than its current call.
EntryIsTheJob ==
    /\ jobs # 0 => goroutine[jobs] # "off" /\ jobs \notin cancelled
    /\ \A j \in Jobs : goroutine[j] \in {"wait", "job"} /\ jobs # j => j \in cancelled
=============================================================================
