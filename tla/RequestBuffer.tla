---------------------------- MODULE RequestBuffer ----------------------------
(***************************************************************************)
(* requestbuffer.Buffer, for ONE key: callers of Get that arrive within a  *)
(* window share one fetch.  The account loads of the management server go  *)
(* through it.                                                             *)
(*                                                                         *)
(* A flush is named by the caller that opened its window.  The resource is *)
(* the number of writes to it, so a greater value is newer data.           *)
(***************************************************************************)
EXTENDS Naturals, FiniteSets

CONSTANTS
    Callers,    \* calls of Get
    MaxWrites   \* bound: writes of the resource

ASSUME BufferAssumption == IsFiniteSet(Callers) /\ MaxWrites \in Nat

VARIABLES
    resource,  \* writes of the resource so far
    caller,    \* step of Get
    asked,     \* history: resource when Get was called
    waiting,   \* waiting[key]
    flush,     \* step of the flush of the window a caller opened
    batch,     \* the callers a flush took
    value,     \* what it fetched
    answer     \* contents of the callers' channels (capacity 1): set of values

vars == <<resource, caller, asked, waiting, flush, batch, value, answer>>

Values == 0..MaxWrites

TypeOK ==
    /\ resource \in Values
    /\ caller \in [Callers -> {"idle", "arm", "select", "done", "cancelled"}]
    /\ asked \in [Callers -> Values]
    /\ waiting \subseteq Callers
    /\ flush \in [Callers -> {"none", "window", "fetch", "reply", "done"}]
    /\ batch \in [Callers -> SUBSET Callers]
    /\ value \in [Callers -> Values]
    /\ answer \in [Callers -> SUBSET Values]

Init ==
    /\ resource = 0
    /\ caller = [c \in Callers |-> "idle"]
    /\ asked = [c \in Callers |-> 0]
    /\ waiting = {}
    /\ flush = [c \in Callers |-> "none"]
    /\ batch = [c \in Callers |-> {}]
    /\ value = [c \in Callers |-> 0]
    /\ answer = [c \in Callers |-> {}]

Write ==
    /\ resource < MaxWrites
    /\ resource' = resource + 1
    /\ UNCHANGED <<caller, asked, waiting, flush, batch, value, answer>>

\* Variant of First: no window is opened while a flush is under way.
FirstIfQuiet == waiting = {} /\ \A f \in Callers : flush[f] \in {"none", "done"}

First == waiting = {}

\* Variant of Get: a caller joins a flush that is fetching.
GetJoins(c) ==
    /\ caller[c] = "idle"
    /\ asked' = [asked EXCEPT ![c] = resource]
    /\ IF \E f \in Callers : flush[f] = "reply"
       THEN /\ batch' = [f \in Callers |-> IF flush[f] = "reply" THEN batch[f] \cup {c} ELSE batch[f]]
            /\ caller' = [caller EXCEPT ![c] = "select"]
            /\ waiting' = waiting
       ELSE /\ batch' = batch
            /\ caller' = [caller EXCEPT ![c] = IF First THEN "arm" ELSE "select"]
            /\ waiting' = waiting \cup {c}
    /\ UNCHANGED <<resource, flush, value, answer>>

Get(c) ==
    /\ caller[c] = "idle"
    /\ asked' = [asked EXCEPT ![c] = resource]
    /\ waiting' = waiting \cup {c}
    /\ caller' = [caller EXCEPT ![c] = IF First THEN "arm" ELSE "select"]
    /\ UNCHANGED <<resource, flush, batch, value, answer>>

\* The first caller of a batch starts the timer, after the unlock.
AfterFunc(c) ==
    /\ caller[c] = "arm"
    /\ caller' = [caller EXCEPT ![c] = "select"]
    /\ flush' = [flush EXCEPT ![c] = "window"]
    /\ UNCHANGED <<resource, asked, waiting, batch, value, answer>>

\* The select of Get: the answer ...
Receive(c) ==
    /\ caller[c] = "select" /\ answer[c] # {}
    /\ answer' = [answer EXCEPT ![c] = {}]
    /\ caller' = [caller EXCEPT ![c] = "done"]
    /\ UNCHANGED <<resource, asked, waiting, flush, batch, value>>

\* ... or the end of the caller's context; its channel stays in the batch.
Cancel(c) ==
    /\ caller[c] = "select"
    /\ caller' = [caller EXCEPT ![c] = "cancelled"]
    /\ UNCHANGED <<resource, asked, waiting, flush, batch, value, answer>>

\* Variant of TakeBatch: the batch stays in the map.
TakeBatchKeeps(f) ==
    /\ flush[f] = "window"
    /\ batch' = [batch EXCEPT ![f] = waiting]
    /\ flush' = [flush EXCEPT ![f] = IF waiting = {} THEN "done" ELSE "fetch"]
    /\ UNCHANGED <<resource, caller, asked, waiting, value, answer>>

\* flush: the window closes and the batch is taken under the lock ...
TakeBatch(f) ==
    /\ flush[f] = "window"
    /\ batch' = [batch EXCEPT ![f] = waiting]
    /\ waiting' = {}
    /\ flush' = [flush EXCEPT ![f] = IF waiting = {} THEN "done" ELSE "fetch"]
    /\ UNCHANGED <<resource, caller, asked, value, answer>>

\* ... the resource is read (or an error comes back, which is an answer too) ...
Fetch(f) ==
    /\ flush[f] = "fetch"
    /\ value' = [value EXCEPT ![f] = resource]
    /\ flush' = [flush EXCEPT ![f] = "reply"]
    /\ UNCHANGED <<resource, caller, asked, waiting, batch, answer>>

Room(c) == answer[c] = {}

\* ... and given to the callers of the batch one by one; a full channel blocks.
Reply(f, c) ==
    /\ flush[f] = "reply" /\ c \in batch[f] /\ Room(c)
    /\ answer' = [answer EXCEPT ![c] = {value[f]}]
    /\ batch' = [batch EXCEPT ![f] = @ \ {c}]
    /\ UNCHANGED <<resource, caller, asked, waiting, flush, value>>

Flushed(f) ==
    /\ flush[f] = "reply" /\ batch[f] = {}
    /\ flush' = [flush EXCEPT ![f] = "done"]
    /\ UNCHANGED <<resource, caller, asked, waiting, batch, value, answer>>

FlushStep(f) == TakeBatch(f) \/ Fetch(f) \/ (\E c \in Callers : Reply(f, c)) \/ Flushed(f)

Next ==
    \/ Write
    \/ \E c \in Callers : Get(c) \/ AfterFunc(c) \/ Receive(c) \/ Cancel(c) \/ FlushStep(c)

\* Timers fire, fetches return and goroutines go on.
Fairness == \A c \in Callers : WF_vars(AfterFunc(c)) /\ WF_vars(Receive(c)) /\ WF_vars(FlushStep(c))

Spec == Init /\ [][Next]_vars /\ Fairness

-----------------------------------------------------------------------------
(* Properties. *)

\* FreshData: a caller never gets data that was read before its own request,
\* although it shares the fetch with callers that came earlier or later.
FreshData == \A c \in Callers : \A v \in answer[c] : v >= asked[c]

\* OneBatch: a caller waits in one place only, the open window or the batch of
\* one flush, so its channel gets one value and no flush blocks on it.
OneBatch ==
    /\ \A f \in Callers : waiting \cap batch[f] = {}
    /\ \A f, g \in Callers : f # g => batch[f] \cap batch[g] = {}
    /\ \A f \in Callers : \A c \in batch[f] : answer[c] = {}

\* CallersReturn: every call of Get returns: no window is left without a timer.
CallersReturn == \A c \in Callers : (caller[c] # "idle") ~> (caller[c] \in {"done", "cancelled"})
===============================================================================
