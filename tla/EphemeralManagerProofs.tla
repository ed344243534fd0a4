------------------------ MODULE EphemeralManagerProofs ------------------------
(***************************************************************************)
(* The ephemeral manager, for any number of peers and timers: its list     *)
(* never holds an active peer, a cleanup is scheduled whenever peers wait, *)
(* on a store with one connection no active peer is deleted that is marked *)
(* as connected, and where nothing fails no inactive peer is forgotten.    *)
(***************************************************************************)
EXTENDS EphemeralManager, FiniteSetTheorems, SequenceTheorems, TLAPS

\* The provers that a leaf which names none is tried with, in turn.
USE ZenonT(4), SMTT(10), ZenonT(30), SMTT(30)

Streams == {"off", "mark", "connect", "on", "disconnect"}

\* The list names each peer at most once and no active one.
ListInv ==
    /\ exists \subseteq Peers /\ stream \in [Peers -> Streams]
    /\ list \in Seq(Peers) /\ IsInjective(list)
    /\ ActiveNotListed

-----------------------------------------------------------------------------
(* What the operations on the list keep. *)

\* A listing of stored peers names each of them once.
LEMMA ListingType ==
  ASSUME NEW set \in SUBSET Peers, NEW l \in Listings(set)
  PROVE  l \in Seq(Peers) /\ IsInjective(l)
<1>1. Cardinality(set) \in Nat
  BY EphemeralAssumption, FS_Subset, FS_CardinalityType
<1>2. l \in [1..Cardinality(set) -> set] /\ IsInjective(l)
  BY DEF Listings, Injection
<1>3. l \in Seq(set)
  BY <1>1, <1>2
<1> QED
  BY <1>2, <1>3

\* LoadInitialPeers leaves none of them out.
LEMMA ListingCovers ==
  ASSUME NEW set \in SUBSET Peers, NEW l \in Listings(set)
  PROVE  set \subseteq Range(l)
<1>1. IsFiniteSet(set) /\ Cardinality(set) \in Nat
  BY EphemeralAssumption, FS_Subset, FS_CardinalityType
<1>2. Cardinality(1..Cardinality(set)) = Cardinality(set)
  BY <1>1, FS_Interval
<1>3. l \in Injection(1..Cardinality(set), set)
  BY DEF Listings
<1>4. l \in Surjection(1..Cardinality(set), set)
  BY <1>1, <1>2, <1>3, FS_Injection
<1> QED
  BY <1>4 DEF Surjection, Range

\* A suffix of a list without duplicates has none, and all entries but the first n.
LEMMA SuffixKeeps ==
  ASSUME NEW s \in Seq(Peers), IsInjective(s), NEW n \in 0..Len(s)
  PROVE  LET t == SubSeq(s, n + 1, Len(s))
         IN  /\ t \in Seq(Peers) /\ IsInjective(t) /\ Range(t) \subseteq Range(s)
             /\ Range(s) \subseteq Range(t) \cup {s[i] : i \in 1..n}
<1> DEFINE t == SubSeq(s, n + 1, Len(s))
<1> DEFINE m == Len(s)
<1>0. m \in Nat /\ DOMAIN s = 1..m /\ n \in Nat /\ n <= m
  BY LenProperties
<1>1. \A i \in (n + 1)..Len(s) : s[i] \in Peers
  BY <1>0
<1>2. /\ t \in Seq(Peers) /\ Len(t) = IF n + 1 <= Len(s) THEN Len(s) - (n + 1) + 1 ELSE 0
      /\ \A i \in 1..(Len(s) - (n + 1) + 1) : t[i] = s[(n + 1) + i - 1]
  <2>1. n + 1 \in Int /\ m \in Int
    BY <1>0
  <2> HIDE DEF m
  <2>2. \A i \in (n + 1)..m : s[i] \in Peers
    BY <1>1 DEF m
  <2>3. /\ SubSeq(s, n + 1, m) \in Seq(Peers)
        /\ Len(SubSeq(s, n + 1, m)) = IF n + 1 <= m THEN m - (n + 1) + 1 ELSE 0
        /\ \A i \in 1..(m - (n + 1) + 1) : SubSeq(s, n + 1, m)[i] = s[(n + 1) + i - 1]
    BY <2>1, <2>2, SubSeqProperties
  <2> QED
    BY <2>3 DEF m
<1> HIDE DEF t, m
<1>3. DOMAIN t = 1..(m - n)
  <2>1. Len(t) = IF n + 1 <= m THEN m - (n + 1) + 1 ELSE 0
    BY <1>2 DEF m
  <2>2. (IF n + 1 <= m THEN m - (n + 1) + 1 ELSE 0) = m - n
    BY <1>0
  <2>3. t \in Seq(Peers)
    BY <1>2
  <2>4. DOMAIN t = 1..Len(t)
    BY <2>3, LenProperties
  <2> QED
    BY <2>1, <2>2, <2>4
<1>4. \A i \in DOMAIN t : n + i \in DOMAIN s /\ t[i] = s[n + i]
  <2> TAKE i \in DOMAIN t
  <2>1. i \in 1..(m - (n + 1) + 1) /\ (n + 1) + i - 1 = n + i /\ n + i \in 1..m
    BY <1>0, <1>3
  <2> QED
    BY <1>0, <1>2, <2>1 DEF m
<1>5. IsInjective(t)
  BY <1>0, <1>3, <1>4 DEF IsInjective
<1>6. Range(t) \subseteq Range(s)
  BY <1>4 DEF Range
<1>7. ASSUME NEW i \in DOMAIN s, i \notin 1..n PROVE s[i] \in Range(t)
  <2>1. i - n \in DOMAIN t /\ n + (i - n) = i
    BY <1>0, <1>3, <1>7
  <2> QED
    BY <1>4, <2>1 DEF Range
<1>8. Range(s) \subseteq Range(t) \cup {s[i] : i \in 1..n}
  BY <1>7 DEF Range
<1> QED
  BY <1>2, <1>5, <1>6, <1>8 DEF t

\* Taking one entry out of a list without duplicates takes its peer out.
LEMMA RemoveAtKeeps ==
  ASSUME NEW s \in Seq(Peers), IsInjective(s), NEW k \in DOMAIN s
  PROVE  /\ RemoveAt(s, k) \in Seq(Peers) /\ IsInjective(RemoveAt(s, k))
         /\ Range(RemoveAt(s, k)) = Range(s) \ {s[k]}
<1> DEFINE a == SubSeq(s, 1, k - 1)
           b == SubSeq(s, k + 1, Len(s))
           t == a \o b
<1>0. Len(s) \in Nat /\ DOMAIN s = 1..Len(s) /\ k \in 1..Len(s) /\ \A i \in 1..Len(s) : s[i] \in Peers
  BY LenProperties
<1>1. a \in Seq(Peers) /\ Len(a) = k - 1 /\ \A i \in 1..(k - 1) : a[i] = s[i]
  <2>1. \A i \in 1..(k - 1) : s[i] \in Peers
    BY <1>0
  <2>2. /\ a \in Seq(Peers) /\ Len(a) = IF 1 <= k - 1 THEN (k - 1) - 1 + 1 ELSE 0
        /\ \A i \in 1..((k - 1) - 1 + 1) : a[i] = s[1 + i - 1]
    <3>1. 1 \in Int /\ k - 1 \in Int
      BY <1>0
    <3> QED
      BY <2>1, <3>1, SubSeqProperties
  <2> HIDE DEF a
  <2> QED
    BY <1>0, <2>2
<1>2. b \in Seq(Peers) /\ Len(b) = Len(s) - k /\ \A i \in 1..(Len(s) - k) : b[i] = s[k + i]
  <2>1. \A i \in (k + 1)..Len(s) : s[i] \in Peers
    BY <1>0
  <2>2. /\ b \in Seq(Peers) /\ Len(b) = IF k + 1 <= Len(s) THEN Len(s) - (k + 1) + 1 ELSE 0
        /\ \A i \in 1..(Len(s) - (k + 1) + 1) : b[i] = s[(k + 1) + i - 1]
    <3>1. k + 1 \in Int /\ Len(s) \in Int
      BY <1>0
    <3> QED
      BY <2>1, <3>1, SubSeqProperties
  <2> HIDE DEF b
  <2>3. Len(b) = Len(s) - k
    BY <1>0, <2>2
  <2>4. ASSUME NEW i \in 1..(Len(s) - k) PROVE b[i] = s[k + i]
    <3>1. i \in 1..(Len(s) - (k + 1) + 1) /\ (k + 1) + i - 1 = k + i
      BY <1>0
    <3> QED
      BY <2>2, <3>1
  <2> QED
    BY <2>2, <2>3, <2>4
<1> HIDE DEF a, b
<1>3. /\ t \in Seq(Peers) /\ Len(t) = Len(a) + Len(b)
      /\ \A i \in 1..(Len(a) + Len(b)) : t[i] = IF i <= Len(a) THEN a[i] ELSE b[i - Len(a)]
  BY <1>1, <1>2, ConcatProperties
<1> HIDE DEF t
<1>4. DOMAIN t = 1..(Len(s) - 1)
  BY <1>0, <1>1, <1>2, <1>3, LenProperties
<1>5. \A i \in DOMAIN t : /\ i < k => t[i] = s[i]
                          /\ i >= k => t[i] = s[i + 1]
  <2> TAKE i \in DOMAIN t
  <2>1. i \in 1..(Len(a) + Len(b)) /\ i \in Int /\ k \in Int /\ Len(a) = k - 1
    BY <1>0, <1>1, <1>2, <1>4
  <2>2. ASSUME i < k PROVE t[i] = s[i]
    BY <1>1, <1>3, <2>1, <2>2
  <2>3. ASSUME i >= k PROVE t[i] = s[i + 1]
    <3>1. i - (k - 1) \in 1..(Len(s) - k) /\ k + (i - (k - 1)) = i + 1
      BY <1>0, <1>4, <2>1, <2>3
    <3>2. t[i] = b[i - (k - 1)]
      BY <1>3, <2>1, <2>3
    <3> QED
      BY <1>2, <3>1, <3>2
  <2> QED
    BY <2>2, <2>3
<1>6. IsInjective(t)
  BY <1>0, <1>4, <1>5 DEF IsInjective
<1>7. Range(t) \subseteq Range(s) \ {s[k]}
  BY <1>0, <1>4, <1>5 DEF IsInjective, Range
<1>8. ASSUME NEW i \in DOMAIN s, i # k PROVE s[i] \in Range(t)
  <2>1. CASE i < k
    BY <1>0, <1>4, <1>5, <2>1 DEF Range
  <2>2. CASE i > k
    <3>1. i - 1 \in DOMAIN t /\ i - 1 >= k /\ (i - 1) + 1 = i
      BY <1>0, <1>4, <2>2
    <3> QED
      BY <1>5, <3>1 DEF Range
  <2> QED
    BY <1>0, <1>8, <2>1, <2>2
<1>9. Range(t) = Range(s) \ {s[k]}
  BY <1>7, <1>8 DEF Range
<1> QED
  BY <1>3, <1>6, <1>9 DEF RemoveAt, a, b, t

\* A peer that is not listed is added once.
LEMMA AppendKeeps ==
  ASSUME NEW s \in Seq(Peers), IsInjective(s), NEW p \in Peers \ Range(s)
  PROVE  /\ Append(s, p) \in Seq(Peers) /\ IsInjective(Append(s, p)) /\ Append(s, p) # <<>>
         /\ Range(Append(s, p)) = Range(s) \cup {p}
<1> DEFINE t == Append(s, p)
<1>0. Len(s) \in Nat /\ DOMAIN s = 1..Len(s)
  BY LenProperties
<1>1. /\ t \in Seq(Peers) /\ t # <<>> /\ Len(t) = Len(s) + 1
      /\ \A i \in 1..Len(s) : t[i] = s[i]
      /\ t[Len(s) + 1] = p
  BY AppendProperties
<1> HIDE DEF t
<1>2. DOMAIN t = 1..(Len(s) + 1)
  BY <1>1, LenProperties
<1>3. IsInjective(t)
  BY <1>0, <1>1, <1>2 DEF IsInjective, Range
<1>4. Range(t) = Range(s) \cup {p}
  BY <1>0, <1>1, <1>2 DEF Range
<1> QED
  BY <1>1, <1>3, <1>4 DEF t

-----------------------------------------------------------------------------
(* ActiveNotListed. *)

\* Streams and cleanups that leave the list alone: no stream becomes active.
LEMMA UnlistedStep ==
  ASSUME ListInv, list' = list, exists' \subseteq Peers, NEW p \in Peers,
         stream' = stream \/ \E step \in Streams \ {"on"} : Goto(p, step)
  PROVE  ListInv'
  BY DEF ListInv, ActiveNotListed, OnList, Goto, Streams

\* LoadInitialPeers builds a list without repetitions, of peers that are not being served.
LEMMA ListInvInit == Init => ListInv
<1> SUFFICES ASSUME Init PROVE ListInv
  OBVIOUS
<1>1. list \in Seq(Peers) /\ IsInjective(list)
  BY ListingType DEF Init
<1>2. exists = Peers /\ stream = [p \in Peers |-> "off"]
  BY DEF Init
<1> QED
  BY <1>1, <1>2 DEF ListInv, ActiveNotListed, Streams

\* addPeer appends a peer that is not on the list, and disturbs nothing else on it.
LEMMA AddPeerListed ==
  ASSUME ListInv, NEW p \in Peers, ~OnList(p), AddPeer(p)
  PROVE  /\ list' \in Seq(Peers) /\ IsInjective(list') /\ list' # <<>>
         /\ Range(list') = Range(list) \cup {p}
  BY AppendKeeps DEF ListInv, OnList, AddPeer

\* Every step, those of overlapping cleanups and streams included, keeps the list as
\* ListInv says.
LEMMA ListInvStep == ListInv /\ [Next]_vars => ListInv'
<1> SUFFICES ASSUME ListInv, [Next]_vars PROVE ListInv'
  OBVIOUS
<1>1. ASSUME NEW p \in Peers, SyncPeer(p) \/ MarkPeerConnected(p) \/ MarkPeerDisconnected(p)
      PROVE  ListInv'
  <2>1. \E step \in Streams \ {"on"} : Goto(p, step)
    BY <1>1 DEF SyncPeer, MarkPeerConnected, MarkPeerDisconnected, Streams
  <2>2. list' = list /\ exists' = exists
    BY <1>1 DEF SyncPeer, MarkPeerConnected, MarkPeerDisconnected, storeVars, listVars
  <2> QED
    BY <2>1, <2>2, UnlistedStep DEF ListInv
<1>2. ASSUME NEW p \in Peers, OnPeerConnected(p) PROVE ListInv'
  <2>1. /\ list' \in Seq(Peers) /\ IsInjective(list')
        /\ Range(list') \subseteq Range(list) /\ p \notin Range(list')
    <3>1. CASE OnList(p)
      <4>1. PICK i \in DOMAIN list : list[i] = p /\ list' = RemoveAt(list, i)
        BY <1>2, <3>1 DEF OnPeerConnected, removePeer
      <4> QED
        BY <4>1, RemoveAtKeeps DEF ListInv
    <3>2. CASE ~OnList(p)
      BY <1>2, <3>2 DEF OnPeerConnected, removePeer, ListInv, OnList
    <3> QED
      BY <3>1, <3>2
  <2>2. exists' = exists /\ Goto(p, "on")
    BY <1>2 DEF OnPeerConnected, storeVars
  <2> QED
    BY <2>1, <2>2 DEF ListInv, ActiveNotListed, OnList, Goto, Streams
<1>3. ASSUME NEW p \in Peers, OnPeerDisconnected(p) PROVE ListInv'
  <2>1. exists' = exists /\ Goto(p, "off") /\ stream[p] # "on"
    BY <1>3 DEF OnPeerDisconnected, storeVars
  <2>2. CASE list' = list
    BY <2>1, <2>2, UnlistedStep DEF ListInv, Streams
  <2>3. CASE ~IsTracked(p) /\ AddPeer(p)
    <3>1. AddPeer(p) /\ ~OnList(p)
      BY <2>3 DEF IsTracked
    <3>2. /\ list' \in Seq(Peers) /\ IsInjective(list')
          /\ Range(list') = Range(list) \cup {p}
      BY <3>1, AddPeerListed
    <3> QED
      BY <2>1, <3>2 DEF ListInv, ActiveNotListed, OnList, Goto, Streams
  <2> QED
    BY <1>3, <2>2, <2>3 DEF OnPeerDisconnected, listVars
<1>4. ASSUME NEW p \in Peers, TrackEphemeralPeer(p) PROVE ListInv'
  <2>1. AddPeer(p) /\ ~OnList(p) /\ stream[p] = "off" /\ stream' = stream
    BY <1>4 DEF TrackEphemeralPeer
  <2>2. exists' \subseteq Peers
    BY <1>4 DEF TrackEphemeralPeer, ListInv
  <2>3. /\ list' \in Seq(Peers) /\ IsInjective(list')
        /\ Range(list') = Range(list) \cup {p}
    BY <2>1, AddPeerListed
  <2> QED
    BY <2>1, <2>2, <2>3 DEF ListInv, ActiveNotListed, OnList
<1>5. ASSUME NEW t \in Timers, Cleanup(t) PROVE ListInv'
  <2>1. PICK n \in 0..Len(list) : list' = SubSeq(list, n + 1, Len(list))
    BY <1>5 DEF Cleanup
  <2>2. list' \in Seq(Peers) /\ IsInjective(list') /\ Range(list') \subseteq Range(list)
    BY <2>1, SuffixKeeps DEF ListInv
  <2>3. exists' = exists /\ stream' = stream
    BY <1>5 DEF Cleanup, storeVars
  <2> QED
    BY <2>2, <2>3 DEF ListInv, ActiveNotListed, OnList
<1>6. ASSUME NEW t \in Timers, \/ TimerFires(t) \/ DeletePeer(t) \/ CleanupEnds(t)
                               \/ \E p \in Peers : CheckPeer(t, p)
      PROVE  ListInv'
  <2>1. list' = list /\ stream' = stream /\ exists' \subseteq exists
    BY <1>6 DEF TimerFires, DeletePeer, CleanupEnds, CheckPeer, storeVars, listVars
  <2> QED
    BY <2>1 DEF ListInv, ActiveNotListed, OnList
<1>7. CASE Tick \/ UNCHANGED vars
  <2>1. list' = list /\ stream' = stream /\ exists' = exists
    BY <1>7 DEF Tick, vars
  <2> QED
    BY <2>1 DEF ListInv, ActiveNotListed, OnList
<1>8. CASE Restart
  <2>1. list' \in Listings(exists) /\ stream' = [p \in Peers |-> "off"] /\ exists' = exists
    BY <1>8 DEF Restart, storeVars
  <2>2. list' \in Seq(Peers) /\ IsInjective(list')
    BY <2>1, ListingType DEF ListInv
  <2> QED
    BY <2>1, <2>2 DEF ListInv, ActiveNotListed, Streams
<1> QED
  BY <1>1, <1>2, <1>3, <1>4, <1>5, <1>6, <1>7, <1>8 DEF Next, StreamGoesOn, CleanupStep

\* ActiveIsNotListed: a peer whose stream is served is not on the list of peers to
\* be deleted, in any order of connects, disconnects, registrations and cleanups.
THEOREM ActiveIsNotListed == Spec => []ActiveNotListed
<1>1. ListInv => ActiveNotListed
  BY DEF ListInv
<1> QED
  BY <1>1, ListInvInit, ListInvStep, PTL DEF Spec

-----------------------------------------------------------------------------
(* CleanupScheduled. *)

Running == {"armed", "fired"}

\* The manager's timer is one that will run a cleanup, and there is one while
\* peers wait.
TimerInv ==
    /\ timer \in Timers \cup {NoTimer}
    /\ state \in [Timers -> {"free", "armed", "fired", "deleting"}]
    /\ timer # NoTimer => state[timer] \in Running
    /\ list # <<>> => timer # NoTimer

\* After LoadInitialPeers a non-empty list has its timer.
LEMMA TimerInvInit == Init => TimerInv
  BY EphemeralAssumption DEF Init, TimerInv, Running

\* OnPeerDisconnected arms a timer when there is none, so the list it leaves has one.
LEMMA AddPeerTimer ==
  ASSUME TimerInv, NEW p, AddPeer(p)
  PROVE  TimerInv'
<1>1. CASE timer = NoTimer
  <2>1. PICK t \in Timers : timer' = t /\ state' = [state EXCEPT ![t] = "armed"]
    BY <1>1 DEF AddPeer, AfterFunc
  <2> QED
    BY <2>1, EphemeralAssumption DEF TimerInv, Running
<1>2. CASE timer # NoTimer
  BY <1>2 DEF AddPeer, TimerInv, Running
<1> QED
  BY <1>1, <1>2

\* Every step keeps a cleanup scheduled for a list that is not empty.
LEMMA TimerInvStep == TimerInv /\ ListInv /\ [Next]_vars => TimerInv'
<1> SUFFICES ASSUME TimerInv, ListInv, [Next]_vars PROVE TimerInv'
  OBVIOUS
<1>0. ASSUME UNCHANGED <<list, timer, state>> PROVE TimerInv'
  BY <1>0 DEF TimerInv
<1>1. ASSUME NEW p \in Peers, SyncPeer(p) \/ MarkPeerConnected(p) \/ MarkPeerDisconnected(p)
      PROVE  TimerInv'
  BY <1>0, <1>1 DEF SyncPeer, MarkPeerConnected, MarkPeerDisconnected, listVars, timerVars
<1>2. ASSUME NEW p \in Peers, OnPeerConnected(p) PROVE TimerInv'
  <2>1. list' # <<>> => list # <<>>
    <3>1. CASE OnList(p)
      BY <3>1 DEF OnList, Range
    <3>2. CASE ~OnList(p)
      BY <1>2, <3>2 DEF OnPeerConnected, removePeer
    <3> QED
      BY <3>1, <3>2
  <2>2. CASE list' = <<>> /\ timer # NoTimer
    BY <1>2, <2>2 DEF OnPeerConnected, StopTimer, TimerInv
  <2>3. CASE ~(list' = <<>> /\ timer # NoTimer)
    BY <1>2, <2>1, <2>3 DEF OnPeerConnected, TimerInv
  <2> QED
    BY <2>2, <2>3
<1>3. ASSUME NEW p \in Peers, OnPeerDisconnected(p) \/ TrackEphemeralPeer(p) PROVE TimerInv'
  <2>1. AddPeer(p) \/ UNCHANGED <<list, timer, state>>
    BY <1>3 DEF OnPeerDisconnected, TrackEphemeralPeer, listVars
  <2> QED
    BY <1>0, <2>1, AddPeerTimer
<1>4. ASSUME NEW t \in Timers, TimerFires(t) PROVE TimerInv'
  BY <1>4 DEF TimerFires, TimerInv, Running, listVars
<1>5. ASSUME NEW t \in Timers, Cleanup(t) PROVE TimerInv'
  <2>1. state[t] = "fired" /\ Rearm(t)
    BY <1>5 DEF Cleanup
  <2>2. CASE list' = <<>>
    BY <2>1, <2>2 DEF Rearm, TimerInv
  <2>3. CASE list' # <<>>
    <3>1. PICK u \in Timers : /\ state[u] = "free" /\ timer' = u
                              /\ state' = [state EXCEPT ![t] = "deleting", ![u] = "armed"]
      BY <2>1, <2>3 DEF Rearm
    <3> QED
      BY <2>1, <3>1, EphemeralAssumption DEF TimerInv, Running
  <2> QED
    BY <2>2, <2>3
<1>6. ASSUME NEW t \in Timers, CleanupEnds(t) PROVE TimerInv'
  BY <1>6 DEF CleanupEnds, TimerInv, Running, listVars
<1>7. ASSUME NEW t \in Timers, DeletePeer(t) \/ \E p \in Peers : CheckPeer(t, p) PROVE TimerInv'
  BY <1>0, <1>7 DEF DeletePeer, CheckPeer, listVars
<1>8. CASE Tick \/ UNCHANGED vars
  BY <1>0, <1>8 DEF Tick, vars
<1>9. CASE Restart
  <2>1. CASE exists = {}
    <3>1. list' \in [1..0 -> {}]
      BY <1>9, <2>1, FS_EmptySet DEF Restart, Listings, Injection
    <3>2. list' = <<>>
      BY <3>1
    <3> QED
      BY <1>9, <2>1, <3>2 DEF Restart, TimerInv
  <2>2. CASE exists # {}
    BY <1>9, <2>2, EphemeralAssumption DEF Restart, TimerInv, Running
  <2> QED
    BY <2>1, <2>2
<1> QED
  BY <1>1, <1>2, <1>3, <1>4, <1>5, <1>6, <1>7, <1>8, <1>9 DEF Next, StreamGoesOn, CleanupStep

\* CleanupIsScheduled: peers never wait on the list without a timer that is armed
\* or a cleanup about to run, also when a cleanup starts as its timer is stopped.
THEOREM CleanupIsScheduled == Spec => []CleanupScheduled
<1>1. TimerInv => CleanupScheduled
  BY DEF TimerInv, CleanupScheduled, Running
<1>2. Init => ListInv /\ TimerInv
  BY ListInvInit, TimerInvInit
<1>3. ListInv /\ TimerInv /\ [Next]_vars => ListInv' /\ TimerInv'
  BY ListInvStep, TimerInvStep
<1> QED
  BY <1>1, <1>2, <1>3, PTL DEF Spec

-----------------------------------------------------------------------------
(* ActiveStays. *)

\* A stored peer whose stream was marked is connected, whatever failed since, and a
\* transaction that is about to delete a peer has it locked in the state it was
\* checked in.
StatusInv ==
    /\ server \in Deployment
    /\ exists \subseteq Peers /\ connected \subseteq Peers /\ unmarked \subseteq Peers
    /\ stream \in [Peers -> Streams]
    /\ doomed \in [Timers -> SUBSET Peers]
    /\ \A p \in Peers : stream[p] \in {"connect", "on"} /\ p \in exists => p \in connected \cup unmarked
    /\ server.oneConnection => \A t \in Timers : doomed[t] \cap connected = {}
    /\ ActiveStays

\* StatusInv holds when the server has started: no deletion is under way.
LEMMA StatusInvInit == Init => StatusInv
  BY DEF Init, StatusInv, ActiveStays, Streams

\* Every step keeps the stored status, and the reads of running deletions, as StatusInv
\* says.
LEMMA StatusInvStep == StatusInv /\ [Next]_vars => StatusInv'
<1> SUFFICES ASSUME StatusInv, [Next]_vars PROVE StatusInv'
  OBVIOUS
<1> DEFINE Free == server.oneConnection => \A t \in Timers : doomed[t] = {}
<1>0. ASSUME UNCHANGED <<server, exists, connected, stream, unmarked, doomed>> PROVE StatusInv'
  BY <1>0 DEF StatusInv, ActiveStays
<1>1. ASSUME NEW p \in Peers, SyncPeer(p) PROVE StatusInv'
  BY <1>1 DEF SyncPeer, StatusInv, ActiveStays, Goto, Streams, storeVars, timerVars
<1>2. ASSUME NEW p \in Peers, MarkPeerConnected(p) PROVE StatusInv'
  <2>1. /\ Free /\ Goto(p, "connect") /\ UNCHANGED <<server, exists, doomed>>
        /\ \/ connected' = connected \cup {p} /\ unmarked' = unmarked \ {p}
           \/ connected' = connected /\ unmarked' = unmarked \cup {p}
    BY <1>2 DEF MarkPeerConnected, StoreFree, timerVars
  <2> QED
    BY <2>1 DEF StatusInv, ActiveStays, Goto, Streams
<1>3. ASSUME NEW p \in Peers, OnPeerConnected(p) PROVE StatusInv'
  <2>1. /\ stream[p] = "connect" /\ p \in exists /\ Goto(p, "on")
        /\ UNCHANGED <<server, exists, connected, unmarked, doomed>>
    BY <1>3 DEF OnPeerConnected, storeVars
  <2> QED
    BY <2>1 DEF StatusInv, ActiveStays, Goto, Streams
<1>4. ASSUME NEW p \in Peers, MarkPeerDisconnected(p) PROVE StatusInv'
  <2>1. /\ Goto(p, "disconnect") /\ connected' \in {connected, connected \ {p}}
        /\ unmarked' = unmarked \ {p} /\ UNCHANGED <<server, exists, doomed>>
    BY <1>4 DEF MarkPeerDisconnected, timerVars
  <2> QED
    BY <2>1 DEF StatusInv, ActiveStays, Goto, Streams
<1>5. ASSUME NEW p \in Peers, OnPeerDisconnected(p) PROVE StatusInv'
  <2>1. Goto(p, "off") /\ UNCHANGED <<server, exists, connected, unmarked, doomed>>
    BY <1>5 DEF OnPeerDisconnected, storeVars
  <2> QED
    BY <2>1 DEF StatusInv, ActiveStays, Goto, Streams
<1>6. ASSUME NEW p \in Peers, TrackEphemeralPeer(p) PROVE StatusInv'
  <2>1. /\ stream[p] = "off" /\ UNCHANGED <<server, stream, unmarked, doomed>>
        /\ \/ exists' = exists \cup {p} /\ connected' = connected \ {p}
           \/ UNCHANGED <<exists, connected>>
    BY <1>6 DEF TrackEphemeralPeer
  <2> QED
    BY <2>1 DEF StatusInv, ActiveStays
<1>7. ASSUME NEW t \in Timers, NEW p \in Peers, CheckPeer(t, p) PROVE StatusInv'
  <2>1. UNCHANGED <<server, exists, connected, stream, unmarked>>
    BY <1>7 DEF CheckPeer, storeVars
  <2>2. CASE MayDelete(p)
    <3>1. p \notin connected /\ doomed' = [doomed EXCEPT ![t] = {p}]
      BY <1>7, <2>2 DEF CheckPeer, MayDelete
    <3> QED
      BY <2>1, <3>1 DEF StatusInv, ActiveStays
  <2>3. CASE ~MayDelete(p)
    BY <1>0, <1>7, <2>1, <2>3 DEF CheckPeer
  <2> QED
    BY <2>2, <2>3
<1>8. ASSUME NEW t \in Timers, DeletePeer(t) PROVE StatusInv'
  <2>1. /\ UNCHANGED <<server, connected, stream, unmarked>>
        /\ exists' = exists \ doomed[t] \/ exists' = exists
        /\ doomed' = [doomed EXCEPT ![t] = {}]
    BY <1>8 DEF DeletePeer
  <2>2. ActiveStays'
    BY <2>1 DEF StatusInv, ActiveStays
  <2> QED
    BY <2>1, <2>2 DEF StatusInv
<1>9. ASSUME NEW t \in Timers, TimerFires(t) \/ Cleanup(t) \/ CleanupEnds(t) PROVE StatusInv'
  BY <1>0, <1>9 DEF TimerFires, Cleanup, CleanupEnds, storeVars
<1>10. CASE Tick \/ UNCHANGED vars
  BY <1>0, <1>10 DEF Tick, vars
<1>11. CASE Restart
  <2>1. /\ UNCHANGED <<server, exists, connected>> /\ stream' = [p \in Peers |-> "off"]
        /\ unmarked' = {} /\ doomed' = [t \in Timers |-> {}]
    BY <1>11 DEF Restart, storeVars
  <2> QED
    BY <2>1 DEF StatusInv, ActiveStays, Streams
<1> QED
  BY <1>1, <1>2, <1>3, <1>4, <1>5, <1>6, <1>7, <1>8, <1>9, <1>10, <1>11
     DEF Next, StreamGoesOn, CleanupStep

\* ActivePeerStays: on a store with one connection a peer whose stream is served is
\* not deleted by a cleanup that took it off the list before it came back, unless
\* that stream failed to mark it as connected.
THEOREM ActivePeerStays == Spec => []ActiveStays
<1>1. StatusInv => ActiveStays
  BY DEF StatusInv
<1> QED
  BY <1>1, StatusInvInit, StatusInvStep, PTL DEF Spec

-----------------------------------------------------------------------------
(* What InactiveDeleted rests on: no inactive peer is overlooked.  A peer   *)
(* is put on the list after its last sign of life, so the two clocks, the   *)
(* deadline on the list and the age in the store, agree when it is taken    *)
(* off: DeletePeers does not skip it.  A failed stream or a crash breaks    *)
(* this, and InactiveAwaited is about a server without them.                *)

\* InactiveAwaited: an inactive peer is on the list, or taken off it by a cleanup that
\* has yet to look at it and will find that it may be deleted, or being deleted.
InactiveAwaited ==
    ~server.faulty =>
        \A p \in Peers : stream[p] = "off" /\ p \in exists =>
            \/ OnList(p)
            \/ \E t \in Timers : state[t] = "deleting" /\ p \in batch[t] /\ MayDelete(p)
            \/ \E t \in Timers : p \in doomed[t]

InactiveTypes ==
    /\ age \in [Peers -> 0..LifeTime] /\ left \in [Peers -> 0..LifeTime]
    /\ batch \in [Timers -> SUBSET Peers] /\ doomed \in [Timers -> SUBSET Peers]

\* Only a cleanup that deletes has peers to delete.
BatchIsDeleting == \A t \in Timers : batch[t] # {} => state[t] = "deleting"

\* The stored status of a peer without a stream is disconnected.
AwayIsStored ==
    \A p \in Peers : stream[p] \in {"off", "mark", "disconnect"} \/ p \in unmarked => p \notin connected

\* A peer that the manager is yet to be told of is not on the list.
ToldOnce == \A p \in Peers : stream[p] = "disconnect" /\ p \in exists => ~OnList(p)

\* On the list, what is left to the deadline and the age make up the life time.
Held(p) ==
    \/ OnList(p) /\ age[p] + left[p] >= LifeTime
    \/ \E t \in Timers : p \in batch[t] /\ age[p] = LifeTime
    \/ \E t \in Timers : p \in doomed[t]

InactiveHeld == \A p \in Peers : stream[p] = "off" /\ p \in exists => Held(p)

InactiveInv ==
    /\ InactiveTypes /\ BatchIsDeleting
    /\ ~server.faulty => AwayIsStored /\ ToldOnce /\ InactiveHeld

\* After LoadInitialPeers every peer is on the list, with all of its time left.
LEMMA InactiveInvInit == Init => InactiveInv
<1> SUFFICES ASSUME Init PROVE InactiveInv
  OBVIOUS
<1> USE EphemeralAssumption
<1>1. InactiveTypes /\ BatchIsDeleting
  BY DEF Init, InactiveTypes, BatchIsDeleting
<1>2. AwayIsStored /\ ToldOnce
  BY DEF Init, AwayIsStored, ToldOnce
<1>3. \A p \in Peers : OnList(p)
  BY ListingCovers DEF Init, OnList
<1>4. \A p \in Peers : age[p] = LifeTime /\ left[p] = LifeTime
  BY DEF Init
<1>5. InactiveHeld
  BY <1>3, <1>4 DEF InactiveHeld, Held
<1> QED
  BY <1>1, <1>2, <1>5 DEF InactiveInv

\* What a step keeps of a peer it is not about.
LEMMA HeldKept ==
  ASSUME NEW p \in Peers, Held(p), OnList(p) => OnList(p)', age'[p] = age[p], left'[p] = left[p],
         batch' = batch, doomed' = doomed
  PROVE  Held(p)'
  BY DEF Held

\* AddPeer gives its peer the whole life time, and arms a timer that has no batch.
LEMMA AddPeerHolds ==
  ASSUME ListInv, TimerInv, InactiveInv, NEW p \in Peers, ~OnList(p), AddPeer(p), UNCHANGED <<batch, doomed>>
  PROVE  /\ left' \in [Peers -> 0..LifeTime] /\ left'[p] = LifeTime
         /\ \A q \in Peers : q # p => left'[q] = left[q]
         /\ OnList(p)' /\ \A q \in Peers : q # p => (OnList(q)' <=> OnList(q))
         /\ BatchIsDeleting'
<1>1. Range(list') = Range(list) \cup {p}
  BY AddPeerListed
<1>2. left' = [left EXCEPT ![p] = LifeTime]
  BY DEF AddPeer
<1>3. BatchIsDeleting'
  <2>1. CASE timer = NoTimer
    <3>1. PICK t \in Timers : state[t] = "free" /\ state' = [state EXCEPT ![t] = "armed"]
      BY <2>1 DEF AddPeer, AfterFunc
    <3> QED
      BY <3>1 DEF InactiveInv, BatchIsDeleting, TimerInv
  <2>2. CASE timer # NoTimer
    BY <2>2 DEF AddPeer, InactiveInv, BatchIsDeleting
  <2> QED
    BY <2>1, <2>2
<1> QED
  BY <1>1, <1>2, <1>3, EphemeralAssumption DEF OnList, InactiveInv, InactiveTypes

\* The steps of a stream: a peer leaves the list when it is served, and comes back on
\* it after its last sign of life was stored.
LEMMA StreamHolds ==
  ASSUME ListInv, TimerInv, InactiveInv, NEW p \in Peers,
         \/ SyncPeer(p) \/ MarkPeerConnected(p) \/ OnPeerConnected(p)
         \/ MarkPeerDisconnected(p) \/ OnPeerDisconnected(p)
  PROVE  InactiveInv'
<1> USE DEF InactiveInv
<1>0. /\ stream \in [Peers -> Streams] /\ age \in [Peers -> 0..LifeTime]
      /\ UNCHANGED <<server, exists, batch, doomed>> /\ 0 \in 0..LifeTime
      /\ \A q \in Peers : q # p => stream'[q] = stream[q]
  BY EphemeralAssumption DEF ListInv, InactiveTypes, SyncPeer, MarkPeerConnected, OnPeerConnected,
     MarkPeerDisconnected, OnPeerDisconnected, Goto, storeVars, timerVars
<1>1. ASSUME stream'[p] # "off", age' \in [Peers -> 0..LifeTime], left' = left, BatchIsDeleting',
             \A q \in Peers : q # p => (OnList(q)' <=> OnList(q)) /\ age'[q] = age[q]
                                       /\ (q \in connected' <=> q \in connected)
                                       /\ (q \in unmarked' <=> q \in unmarked),
             ~server.faulty /\ (stream'[p] \in {"mark", "disconnect"} \/ p \in unmarked')
                => p \notin connected',
             ~server.faulty /\ stream'[p] = "disconnect" /\ p \in exists => ~OnList(p)'
      PROVE  InactiveInv'
  <2>1. InactiveTypes'
    BY <1>0, <1>1 DEF InactiveTypes
  <2>2. ASSUME ~server.faulty PROVE AwayIsStored' /\ ToldOnce'
    BY <1>0, <1>1, <2>2 DEF AwayIsStored, ToldOnce
  <2>3. ASSUME ~server.faulty PROVE InactiveHeld'
    BY <1>0, <1>1, <2>3, HeldKept DEF InactiveHeld
  <2> QED
    BY <1>0, <1>1, <2>1, <2>2, <2>3
<1>2. CASE SyncPeer(p)
  <2>1. /\ UNCHANGED <<age, left, list, state, connected, unmarked>> /\ stream[p] = "off"
        /\ stream' = [stream EXCEPT ![p] = "mark"]
    BY <1>2 DEF SyncPeer, Goto, storeVars, listVars, timerVars
  <2> QED
    BY <1>0, <1>1, <2>1 DEF BatchIsDeleting, AwayIsStored, OnList
<1>3. CASE MarkPeerConnected(p)
  <2>1. /\ UNCHANGED <<left, list, state>> /\ stream[p] = "mark"
        /\ stream' = [stream EXCEPT ![p] = "connect"]
        /\ \/ /\ connected' = connected \cup {p} /\ age' = [age EXCEPT ![p] = 0]
              /\ unmarked' = unmarked \ {p}
           \/ UNCHANGED <<connected, age>> /\ unmarked' = unmarked \cup {p}
    BY <1>3 DEF MarkPeerConnected, Goto, listVars, timerVars
  <2>2. stream'[p] = "connect" /\ age' \in [Peers -> 0..LifeTime]
        /\ \A q \in Peers : q # p => /\ age'[q] = age[q]
                                     /\ q \in connected' <=> q \in connected
                                     /\ q \in unmarked' <=> q \in unmarked
    BY <1>0, <2>1
  <2>3. ~server.faulty /\ p \in unmarked' => p \notin connected'
    BY <2>1 DEF AwayIsStored
  <2> QED
    BY <1>0, <1>1, <2>1, <2>2, <2>3 DEF BatchIsDeleting, OnList
<1>4. CASE OnPeerConnected(p)
  <2>1. /\ UNCHANGED <<age, left, connected, unmarked>> /\ stream' = [stream EXCEPT ![p] = "on"]
        /\ removePeer(p)
    BY <1>4 DEF OnPeerConnected, Goto, storeVars
  <2>2. \A q \in Peers : q # p => (OnList(q)' <=> OnList(q))
    <3>1. CASE OnList(p)
      <4>1. PICK i \in DOMAIN list : list[i] = p /\ list' = RemoveAt(list, i)
        BY <2>1, <3>1 DEF removePeer
      <4> QED
        BY <4>1, RemoveAtKeeps DEF ListInv, OnList
    <3>2. CASE ~OnList(p)
      BY <2>1, <3>2 DEF removePeer, OnList
    <3> QED
      BY <3>1, <3>2
  <2>3. BatchIsDeleting'
    <3>1. CASE list' = <<>> /\ timer # NoTimer
      BY <1>0, <1>4, <3>1 DEF OnPeerConnected, StopTimer, BatchIsDeleting, TimerInv
    <3>2. CASE ~(list' = <<>> /\ timer # NoTimer)
      BY <1>0, <1>4, <3>2 DEF OnPeerConnected, BatchIsDeleting
    <3> QED
      BY <3>1, <3>2
  <2>4. stream'[p] = "on"
    BY <1>0, <2>1
  <2>5. ~server.faulty /\ p \in unmarked' => p \notin connected'
    BY <2>1 DEF AwayIsStored
  <2> QED
    BY <1>0, <1>1, <2>1, <2>2, <2>3, <2>4, <2>5
<1>5. CASE MarkPeerDisconnected(p)
  <2>1. /\ UNCHANGED <<left, list, state>> /\ stream' = [stream EXCEPT ![p] = "disconnect"]
        /\ \/ connected' = connected \ {p} /\ age' \in {age, [age EXCEPT ![p] = 0]}
           \/ UNCHANGED <<connected, age>> /\ (server.faulty \/ p \in unmarked)
        /\ unmarked' = unmarked \ {p}
        /\ stream[p] = "on" \/ server.faulty \/ p \notin exists
    BY <1>5 DEF MarkPeerDisconnected, Goto, listVars, timerVars
  <2>2. stream'[p] = "disconnect" /\ age' \in [Peers -> 0..LifeTime]
        /\ \A q \in Peers : q # p => /\ age'[q] = age[q]
                                     /\ q \in connected' <=> q \in connected
                                     /\ q \in unmarked' <=> q \in unmarked
    BY <1>0, <2>1
  <2>3. stream[p] = "on" => ~OnList(p)
    BY DEF ListInv, ActiveNotListed
  <2>4. ~server.faulty => p \notin connected'
    BY <2>1 DEF AwayIsStored
  <2> QED
    BY <1>0, <1>1, <2>1, <2>2, <2>3, <2>4 DEF BatchIsDeleting, OnList
<1>6. CASE OnPeerDisconnected(p)
  <2>1. /\ UNCHANGED <<age, connected, unmarked>> /\ stream[p] = "disconnect"
        /\ stream' = [stream EXCEPT ![p] = "off"]
    BY <1>6 DEF OnPeerDisconnected, Goto, storeVars
  <2>2. CASE (server.faulty \/ IsTracked(p)) /\ UNCHANGED <<listVars, state>>
    <3>1. UNCHANGED <<list, left, state>> /\ (server.faulty \/ p \notin exists \/ OnList(p))
      BY <2>2 DEF IsTracked, listVars
    <3>2. InactiveTypes' /\ BatchIsDeleting'
      BY <1>0, <2>1, <3>1 DEF InactiveTypes, BatchIsDeleting
    <3>3. ASSUME ~server.faulty PROVE AwayIsStored' /\ ToldOnce'
      BY <1>0, <2>1, <3>1, <3>3 DEF AwayIsStored, ToldOnce, OnList
    <3>4. ASSUME ~server.faulty PROVE p \notin exists
      BY <2>1, <3>1, <3>4 DEF ToldOnce
    <3>5. ASSUME ~server.faulty PROVE InactiveHeld'
      BY <1>0, <2>1, <3>1, <3>4, <3>5, HeldKept DEF InactiveHeld, OnList
    <3> QED
      BY <1>0, <3>2, <3>3, <3>5
  <2>3. CASE ~IsTracked(p) /\ AddPeer(p)
    <3>1. AddPeer(p) /\ ~OnList(p)
      BY <2>3 DEF IsTracked
    <3>2. /\ left' \in [Peers -> 0..LifeTime] /\ left'[p] = LifeTime
          /\ \A q \in Peers : q # p => left'[q] = left[q]
          /\ OnList(p)' /\ \A q \in Peers : q # p => (OnList(q)' <=> OnList(q))
          /\ BatchIsDeleting'
      BY <1>0, <3>1, AddPeerHolds
    <3>3. InactiveTypes'
      BY <1>0, <2>1, <3>2 DEF InactiveTypes
    <3>4. ASSUME ~server.faulty PROVE AwayIsStored' /\ ToldOnce'
      BY <1>0, <2>1, <3>2, <3>4 DEF AwayIsStored, ToldOnce
    <3>5. Held(p)'
      BY <1>0, <2>1, <3>2, EphemeralAssumption DEF Held
    <3>6. ASSUME ~server.faulty PROVE InactiveHeld'
      BY <1>0, <2>1, <3>2, <3>5, <3>6, HeldKept DEF InactiveHeld
    <3> QED
      BY <1>0, <3>2, <3>3, <3>4, <3>6
  <2> QED
    BY <1>6, <2>2, <2>3 DEF OnPeerDisconnected, listVars
<1> QED
  BY <1>2, <1>3, <1>4, <1>5, <1>6

\* A peer that registers is put on the list before it is stored.
LEMMA TrackHolds ==
  ASSUME ListInv, TimerInv, InactiveInv, NEW p \in Peers, TrackEphemeralPeer(p)
  PROVE  InactiveInv'
<1> USE DEF InactiveInv
<1>1. /\ UNCHANGED <<server, stream, unmarked, batch, doomed>> /\ AddPeer(p) /\ ~OnList(p)
      /\ stream[p] = "off"
      /\ \/ exists' = exists \cup {p} /\ connected' = connected \ {p} /\ age' = [age EXCEPT ![p] = 0]
         \/ server.faulty /\ UNCHANGED <<exists, connected, age>>
  BY DEF TrackEphemeralPeer
<1>2. /\ left' \in [Peers -> 0..LifeTime] /\ left'[p] = LifeTime
      /\ \A q \in Peers : q # p => left'[q] = left[q]
      /\ OnList(p)' /\ \A q \in Peers : q # p => (OnList(q)' <=> OnList(q))
      /\ BatchIsDeleting'
  BY <1>1, AddPeerHolds
<1>3. age \in [Peers -> 0..LifeTime] /\ 0 \in 0..LifeTime
  BY EphemeralAssumption DEF InactiveTypes
<1>4. age' \in [Peers -> 0..LifeTime]
  BY <1>1, <1>3
<1>5. InactiveTypes'
  BY <1>1, <1>2, <1>4 DEF InactiveTypes
<1>6. ASSUME ~server.faulty PROVE AwayIsStored' /\ ToldOnce'
  BY <1>1, <1>2, <1>6 DEF AwayIsStored, ToldOnce
<1>7. Held(p)'
  BY <1>2, <1>4, EphemeralAssumption DEF Held
<1>8. ASSUME ~server.faulty PROVE InactiveHeld'
  BY <1>1, <1>2, <1>3, <1>7, <1>8, HeldKept DEF InactiveHeld
<1> QED
  BY <1>1, <1>2, <1>5, <1>6, <1>8

\* The cleanup: a peer goes from the list to a batch when its time is over, from the
\* batch to its deletion since it was not seen all that time, and is deleted.
LEMMA CleanupHolds ==
  ASSUME ListInv, TimerInv, InactiveInv, NEW t \in Timers, CleanupStep(t)
  PROVE  InactiveInv'
<1> USE DEF InactiveInv
<1>0. /\ UNCHANGED <<server, connected, age, stream, unmarked, left>>
      /\ batch \in [Timers -> SUBSET Peers] /\ doomed \in [Timers -> SUBSET Peers]
      /\ state \in [Timers -> {"free", "armed", "fired", "deleting"}]
      /\ exists' \subseteq exists
  BY DEF InactiveTypes, TimerInv, CleanupStep, TimerFires, Cleanup, DeletePeer, CleanupEnds, CheckPeer,
         storeVars, listVars
<1>1. ASSUME Range(list') \subseteq Range(list),
             batch' \in [Timers -> SUBSET Peers], doomed' \in [Timers -> SUBSET Peers], BatchIsDeleting',
             ~server.faulty => \A p \in Peers : /\ stream[p] = "off" /\ p \in exists'
                                                /\ p \notin connected /\ Held(p)
                                                => Held(p)'
      PROVE  InactiveInv'
  <2>1. InactiveTypes'
    BY <1>0, <1>1 DEF InactiveTypes
  <2>2. ASSUME ~server.faulty PROVE AwayIsStored' /\ ToldOnce'
    BY <1>0, <1>1, <2>2 DEF AwayIsStored, ToldOnce, OnList
  <2>3. ASSUME ~server.faulty PROVE InactiveHeld'
    BY <1>0, <1>1, <2>3 DEF InactiveHeld, AwayIsStored
  <2> QED
    BY <1>0, <1>1, <2>1, <2>2, <2>3
<1>2. CASE TimerFires(t) \/ CleanupEnds(t)
  <2>1. /\ UNCHANGED <<list, batch, doomed>>
        /\ \/ state' = [state EXCEPT ![t] = "fired"] /\ state[t] = "armed"
           \/ state' = [state EXCEPT ![t] = "free"] /\ batch[t] = {}
    BY <1>2 DEF TimerFires, CleanupEnds, listVars
  <2>2. BatchIsDeleting'
    BY <1>0, <2>1 DEF BatchIsDeleting
  <2> QED
    BY <1>0, <1>1, <2>1, <2>2, HeldKept DEF OnList
<1>3. CASE Cleanup(t)
  <2>1. PICK n \in 0..Len(list) :
          /\ Expired(n)
          /\ batch' = [batch EXCEPT ![t] = {list[i] : i \in 1..n}]
          /\ list' = SubSeq(list, n + 1, Len(list))
    BY <1>3 DEF Cleanup
  <2>2. Range(list') \subseteq Range(list) /\ Range(list) \subseteq Range(list') \cup {list[i] : i \in 1..n}
    BY <2>1, SuffixKeeps DEF ListInv
  <2>3. {list[i] : i \in 1..n} \in SUBSET Peers
    <3>1. list \in Seq(Peers) /\ Len(list) \in Nat /\ DOMAIN list = 1..Len(list)
      BY LenProperties DEF ListInv
    <3>2. \A i \in 1..n : i \in 1..Len(list)
      BY <3>1
    <3> QED
      BY <3>1, <3>2
  <2>4. batch' \in [Timers -> SUBSET Peers] /\ doomed' = doomed
    BY <1>0, <1>3, <2>1, <2>3 DEF Cleanup
  <2>5. batch[t] = {} /\ state[t] = "fired"
    BY <1>3 DEF Cleanup, BatchIsDeleting
  <2>6. state'[t] = "deleting" /\ \A u \in Timers : u # t /\ state[u] = "deleting" => state'[u] = "deleting"
    <3>1. CASE list' = <<>>
      BY <1>0, <1>3, <3>1 DEF Cleanup, Rearm
    <3>2. CASE list' # <<>>
      <4>1. PICK u \in Timers : /\ state[u] = "free"
                                /\ state' = [state EXCEPT ![t] = "deleting", ![u] = "armed"]
        BY <1>3, <3>2 DEF Cleanup, Rearm
      <4> QED
        BY <1>0, <2>5, <4>1
    <3> QED
      BY <3>1, <3>2
  <2>7. BatchIsDeleting'
    BY <1>0, <2>1, <2>6 DEF BatchIsDeleting
  <2>8. ASSUME NEW p \in Peers, Held(p) PROVE Held(p)'
    <3>1. CASE OnList(p) /\ age[p] + left[p] >= LifeTime
      <4>1. CASE p \in Range(list')
        BY <1>0, <3>1, <4>1 DEF Held, OnList
      <4>2. CASE p \notin Range(list')
        <5>1. PICK i \in 1..n : list[i] = p
          BY <2>2, <3>1, <4>2 DEF OnList
        <5>2. left[p] = 0
          BY <2>1, <5>1 DEF Expired
        <5>3. age[p] = LifeTime
          BY <3>1, <5>2, EphemeralAssumption DEF InactiveTypes
        <5>4. p \in batch'[t]
          BY <1>0, <2>1, <5>1
        <5> QED
          BY <1>0, <5>3, <5>4 DEF Held
      <4> QED
        BY <4>1, <4>2
    <3>2. CASE \E u \in Timers : p \in batch[u] /\ age[p] = LifeTime
      <4>1. PICK u \in Timers : p \in batch[u] /\ age[p] = LifeTime
        BY <3>2
      <4>2. u # t /\ p \in batch'[u]
        BY <1>0, <2>1, <2>5, <4>1
      <4> QED
        BY <1>0, <4>1, <4>2 DEF Held
    <3>3. CASE \E u \in Timers : p \in doomed[u]
      BY <2>4, <3>3 DEF Held
    <3> QED
      BY <2>8, <3>1, <3>2, <3>3 DEF Held
  <2> QED
    BY <1>0, <1>1, <2>2, <2>4, <2>7, <2>8
<1>4. ASSUME NEW p \in Peers, CheckPeer(t, p) PROVE InactiveInv'
  <2>1. /\ UNCHANGED <<list, state, exists>> /\ p \in batch[t] /\ doomed[t] = {}
        /\ batch' = [batch EXCEPT ![t] = @ \ {p}]
        /\ doomed' = IF MayDelete(p) THEN [doomed EXCEPT ![t] = {p}] ELSE doomed
    BY <1>4 DEF CheckPeer, storeVars, listVars
  <2>2. batch' \in [Timers -> SUBSET Peers] /\ doomed' \in [Timers -> SUBSET Peers]
    BY <1>0, <2>1
  <2>3. BatchIsDeleting'
    BY <1>0, <2>1 DEF BatchIsDeleting
  <2>4. \A q \in Peers : \A u \in Timers : q \in doomed[u] => q \in doomed'[u]
    BY <1>0, <2>1
  <2>5. ASSUME NEW q \in Peers, stream[q] = "off", q \in exists', q \notin connected, Held(q)
        PROVE  Held(q)'
    <3>1. CASE OnList(q) /\ age[q] + left[q] >= LifeTime
      BY <1>0, <2>1, <3>1 DEF Held, OnList
    <3>2. CASE \E u \in Timers : q \in batch[u] /\ age[q] = LifeTime
      <4>1. PICK u \in Timers : q \in batch[u] /\ age[q] = LifeTime
        BY <3>2
      <4>2. CASE u = t /\ q = p
        <5>1. LifeTime >= LifeTime - Slack
          BY EphemeralAssumption
        <5>2. MayDelete(p)
          BY <2>1, <2>5, <4>1, <4>2, <5>1 DEF MayDelete
        <5>3. p \in doomed'[t]
          BY <1>0, <2>1, <5>2
        <5> QED
          BY <4>2, <5>3 DEF Held
      <4>3. CASE ~(u = t /\ q = p)
        <5>1. q \in batch'[u]
          BY <1>0, <2>1, <4>1, <4>3
        <5> QED
          BY <1>0, <4>1, <5>1 DEF Held
      <4> QED
        BY <4>2, <4>3
    <3>3. CASE \E u \in Timers : q \in doomed[u]
      BY <2>4, <3>3 DEF Held
    <3> QED
      BY <2>5, <3>1, <3>2, <3>3 DEF Held
  <2> QED
    BY <1>0, <1>1, <2>1, <2>2, <2>3, <2>5
<1>5. CASE DeletePeer(t)
  <2>1. /\ UNCHANGED <<list, state, batch>> /\ doomed' = [doomed EXCEPT ![t] = {}]
        /\ ~server.faulty => exists' = exists \ doomed[t]
    BY <1>5 DEF DeletePeer, listVars
  <2>2. doomed' \in [Timers -> SUBSET Peers] /\ BatchIsDeleting'
    BY <1>0, <2>1 DEF BatchIsDeleting
  <2>3. ASSUME ~server.faulty, NEW q \in Peers, q \in exists', Held(q) PROVE Held(q)'
    <3>1. \A u \in Timers : q \in doomed[u] => q \in doomed'[u]
      BY <1>0, <2>1, <2>3
    <3> QED
      BY <1>0, <2>1, <2>3, <3>1 DEF Held, OnList
  <2> QED
    BY <1>0, <1>1, <2>1, <2>2, <2>3
<1> QED
  BY <1>2, <1>3, <1>4, <1>5 DEF CleanupStep

\* Time: what is left to the deadline falls no faster than the age grows.
LEMMA TickHolds ==
  ASSUME InactiveInv, Tick
  PROVE  InactiveInv'
<1> USE EphemeralAssumption DEF InactiveInv
<1>1. /\ UNCHANGED <<server, exists, connected, stream, unmarked, list, state, batch, doomed>>
      /\ age' = [p \in Peers |-> IF age[p] < LifeTime THEN age[p] + 1 ELSE age[p]]
      /\ left' = [p \in Peers |-> Less(left[p])]
  BY DEF Tick
<1>2. InactiveTypes'
  BY <1>1 DEF InactiveTypes, Less
<1>3. ASSUME NEW p \in Peers PROVE /\ age[p] = LifeTime => age'[p] = LifeTime
                                   /\ age[p] + left[p] >= LifeTime => age'[p] + left'[p] >= LifeTime
  <2>1. age[p] \in 0..LifeTime /\ left[p] \in 0..LifeTime
    BY DEF InactiveTypes
  <2>2. /\ age'[p] = IF age[p] < LifeTime THEN age[p] + 1 ELSE age[p]
        /\ left'[p] = IF left[p] = 0 THEN 0 ELSE left[p] - 1
    BY <1>1 DEF Less
  <2> QED
    BY <2>1, <2>2
<1>4. \A p \in Peers : Held(p) => Held(p)'
  BY <1>1, <1>3 DEF Held, OnList
<1>5. BatchIsDeleting'
  BY <1>1 DEF BatchIsDeleting
<1>6. ASSUME ~server.faulty PROVE AwayIsStored' /\ ToldOnce' /\ InactiveHeld'
  BY <1>1, <1>4, <1>6 DEF AwayIsStored, ToldOnce, InactiveHeld, OnList
<1> QED
  BY <1>1, <1>2, <1>5, <1>6

\* Every step hands an inactive peer on, from the list to its deletion.
LEMMA InactiveInvStep == ListInv /\ TimerInv /\ InactiveInv /\ [Next]_vars => InactiveInv'
<1> SUFFICES ASSUME ListInv, TimerInv, InactiveInv, [Next]_vars PROVE InactiveInv'
  OBVIOUS
<1>1. CASE Restart
  <2>1. InactiveTypes' /\ BatchIsDeleting' /\ server' = server /\ server.faulty
    BY <1>1, EphemeralAssumption
    DEF Restart, InactiveInv, InactiveTypes, BatchIsDeleting, storeVars
  <2> QED
    BY <2>1 DEF InactiveInv
<1>2. CASE UNCHANGED vars
  BY <1>2 DEF vars, InactiveInv, InactiveTypes, BatchIsDeleting, AwayIsStored, ToldOnce, InactiveHeld, Held, OnList
<1> QED
  BY <1>1, <1>2, StreamHolds, TrackHolds, CleanupHolds, TickHolds DEF Next, StreamGoesOn

\* InactiveIsAwaited: without failures and crashes a peer that is stored and has no
\* stream is on the list or on its way from there to its deletion, and DeletePeers
\* does not find it too young, for every life time and however connects,
\* disconnects, registrations and overlapping cleanups interleave.  By
\* CleanupIsScheduled the list is looked at, so under the fairness of timers and
\* goroutines the peer is deleted unless it comes back.
THEOREM InactiveIsAwaited == Spec => []InactiveAwaited
<1>1. Init => ListInv /\ TimerInv /\ InactiveInv
  BY ListInvInit, TimerInvInit, InactiveInvInit
<1>2. ListInv /\ TimerInv /\ InactiveInv /\ [Next]_vars => (ListInv /\ TimerInv /\ InactiveInv)'
  BY ListInvStep, TimerInvStep, InactiveInvStep
<1>3. InactiveInv => InactiveAwaited
  <2> SUFFICES ASSUME InactiveInv, ~server.faulty, NEW p \in Peers, stream[p] = "off", p \in exists,
                      ~OnList(p), NEW t \in Timers, p \in batch[t], age[p] = LifeTime
               PROVE  state[t] = "deleting" /\ MayDelete(p)
    BY DEF InactiveInv, InactiveHeld, Held, InactiveAwaited
  <2>1. LifeTime >= LifeTime - Slack
    BY EphemeralAssumption
  <2> QED
    BY <2>1 DEF InactiveInv, BatchIsDeleting, AwayIsStored, MayDelete
<1> QED
  BY <1>1, <1>2, <1>3, PTL DEF Spec
===============================================================================
