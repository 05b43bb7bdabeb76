------------------------- MODULE MasterWatcherProofs -------------------------
(***************************************************************************)
(* Theorems about the master watcher, for any number of replicas, fills    *)
(* and faults: no stale writer, and nothing is skipped.                    *)
(*                                                                         *)
(* What a replica has done is said by its place in the replay: every fill  *)
(* below it has its event, and the fills it saw at its last page bound     *)
(* what the replay owes. Fills come in the order of their time, so a page  *)
(* that starts at a cursor starts after every fill older than the cursor.  *)
(* Between two pages the cursor moves past the last fill's millisecond:    *)
(* nothing is skipped if no two fills share one, or if the history fits in *)
(* a page. WatcherPageBoundary shows that the hypothesis is needed.        *)
(***************************************************************************)
EXTENDS MasterWatcher, FiniteSetTheorems, TLAPS

(* No event is ahead of the lease: its token is one the lease row has had,   *)
(* and that row's token only grows.                                          *)
TokenInv ==
    /\ lease \in Leases
    /\ events \in [Fills -> Nat]
    /\ \A i \in Fills : events[i] <= lease.token

(* Initially there is no event.                                              *)
LEMMA InitToken == Init => TokenInv
BY DEF Init, TokenInv, Leases

(* Leaving the leader's loop touches only the expiry of the lease.           *)
LEMMA LeaveKeepsToken ==
    ASSUME TokenInv, NEW w \in Watchers, Leave(w)
    PROVE  lease' \in Leases /\ lease'.token = lease.token
BY DEF TokenInv, Leave, Leases

(* A step that writes no event and does not lower the lease's token.         *)
LEMMA TokenKept ==
    ASSUME TokenInv, UNCHANGED events, lease' \in Leases, lease.token <= lease'.token
    PROVE  TokenInv'
BY DEF TokenInv, Leases

(* PersistFill writes with the token the lease row holds: none is higher.    *)
LEMMA PersistFenced ==
    ASSUME TokenInv, NEW w \in Watchers, PersistFill(w)
    PROVE  /\ TokenInv'
           /\ \A i \in Fills : events'[i] # events[i] => events'[i] = lease.token
<1>1. UNCHANGED lease /\ lease \in Leases /\ lease.token \in Nat
  BY DEF PersistFill, TokenInv, Leases
<1>2. CASE UNCHANGED events BY <1>1, <1>2 DEF TokenInv
<1>3. CASE events' = [events EXCEPT ![wt[w].at] = lease.token]
  <2>1. events \in [Fills -> Nat] BY DEF TokenInv
  <2>2. events' \in [Fills -> Nat] BY <1>1, <1>3, <2>1
  <2>3. \A i \in Fills : events'[i] = events[i] \/ events'[i] = lease.token
    BY <1>3, <2>1
  <2> QED BY <1>1, <2>2, <2>3 DEF TokenInv
<1>4. UNCHANGED events \/ events' = [events EXCEPT ![wt[w].at] = lease.token]
  BY DEF PersistFill, FenceOpen
<1> QED BY <1>2, <1>3, <1>4

(* Every step keeps TokenInv, and an event it writes carries the token the   *)
(* lease row holds at that moment.                                           *)
LEMMA NextToken ==
    ASSUME TokenInv, [Next]_vars
    PROVE  /\ TokenInv'
           /\ \A i \in Fills : events'[i] # events[i] => events'[i] = lease.token
<1>0. lease \in Leases /\ lease.token \in Nat BY DEF TokenInv, Leases
<1>1. CASE UNCHANGED <<events, lease>> BY <1>0, <1>1, TokenKept
<1>2. CASE UNCHANGED vars BY <1>1, <1>2 DEF vars
<1>3. CASE MasterFills BY <1>1, <1>3 DEF MasterFills
<1>4. CASE Expire
  <2>1. UNCHANGED events /\ lease' = [lease EXCEPT !.live = FALSE] BY <1>4 DEF Expire
  <2>2. lease' \in Leases /\ lease'.token = lease.token BY <1>0, <2>1 DEF Leases
  <2> QED BY <1>0, <2>1, <2>2, TokenKept
<1>5. ASSUME NEW w \in Watchers, TryAcquire(w) PROVE TokenInv' /\ UNCHANGED events
  <2>1. UNCHANGED events BY <1>5 DEF TryAcquire
  <2>2. lease' \in Leases /\ lease'.token = lease.token + 1 BY <1>0, <1>5 DEF TryAcquire, Leases
  <2> QED BY <1>0, <2>1, <2>2, TokenKept
<1>6. ASSUME NEW w \in Watchers, Renew(w) PROVE TokenInv' /\ UNCHANGED events
  <2>1. UNCHANGED events BY <1>6 DEF Renew
  <2>2. lease' \in Leases /\ lease'.token = lease.token BY <1>0, <1>6 DEF Renew, Leases
  <2> QED BY <1>0, <2>1, <2>2, TokenKept
<1>7. ASSUME NEW w \in Watchers, LeaderStep(w)
      PROVE  /\ TokenInv'
             /\ \A i \in Fills : events'[i] # events[i] => events'[i] = lease.token
  <2>1. CASE PersistFill(w) BY <2>1, PersistFenced
  <2>2. CASE FencedOut(w) \/ GapUnproven(w) \/ StepDown(w)
    <3>1. UNCHANGED events /\ Leave(w) BY <2>2 DEF FencedOut, GapUnproven, StepDown
    <3> QED BY <1>0, <3>1, LeaveKeepsToken, TokenKept
  <2>3. CASE \/ ReplayStart(w) \/ Fetch(w) \/ SetCheckpoint(w) \/ ReplayDone(w)
             \/ NextPage(w) \/ Subscribe(w)
    BY <1>1, <2>3 DEF ReplayStart, Fetch, SetCheckpoint, ReplayDone, NextPage, Subscribe
  <2> QED BY <1>7, <2>1, <2>2, <2>3 DEF LeaderStep
<1>8. ASSUME NEW w \in Watchers, Rotate(w) PROVE TokenInv' /\ UNCHANGED events
  BY <1>1, <1>8 DEF Rotate
<1>9. ASSUME NEW w \in Watchers, Fail(w) PROVE TokenInv' /\ UNCHANGED events
  <2>1. UNCHANGED events /\ (Leave(w) \/ UNCHANGED lease) BY <1>9 DEF Fail
  <2> QED BY <1>0, <2>1, LeaveKeepsToken, TokenKept
<1> QED BY <1>2, <1>3, <1>4, <1>5, <1>6, <1>7, <1>8, <1>9 DEF Next, Expire

(* No stale writer: for any number of replicas, stalls and crashes, an event *)
(* is never written with a token lower than that of an event already in the  *)
(* log (persist_master_fill_and_jobs under the lease row's share lock).      *)
THEOREM StaleWriterFenced == Spec => TokensNeverRegress
<1>1. TokenInv /\ [Next]_vars => TokenInv' BY NextToken
<1>2. TokenInv /\ [Next]_vars =>
        [\A i \in Fills : events'[i] # events[i] => \A k \in Fills : events[k] <= events'[i]]_vars
  BY NextToken DEF TokenInv
<1> QED BY <1>1, <1>2, InitToken, PTL DEF Spec, TokensNeverRegress

-----------------------------------------------------------------------------
(* Nothing is skipped *)

(* No page ends inside a millisecond: the hypothesis of what is said about   *)
(* the log, and of nothing else.                                             *)
WholePages == SameMs = FALSE \/ MaxFills < PageSize

(* The fills up to the n-th have their events.                               *)
Done(n) == WholePages => \A i \in Fills : i <= n => events[i] # 0

(* The fills are those made so far, in the order of their time.              *)
TimesInv ==
    /\ times \in Seq(Nat) /\ Len(times) <= MaxFills
    /\ \A i, k \in 1..Len(times) : i < k => times[i] <= times[k]
    /\ SameMs = FALSE => \A i, k \in 1..Len(times) : i < k => times[i] < times[k]

LogInv ==
    /\ events \in [Fills -> Nat] /\ jobs \in SUBSET Fills
    /\ ckpt \in Nat /\ paused \in BOOLEAN /\ faults \in Nat
    /\ lease \in Leases

(* The least time the next fill can have.                                    *)
Frontier == IF SameMs THEN LastTime ELSE LastTime + 1

(* Every fill older than a cursor has its event, and none is still to come.  *)
Before(c) ==
    WholePages => c <= Frontier /\ \A i \in 1..Len(times) : times[i] < c => events[i] # 0

(* A page: fills the replica saw, and all of them unless it is full.         *)
Page(r) ==
    /\ r.hi \in 1..r.seen /\ r.start <= r.seen /\ r.seen <= Len(times)
    /\ r.full => PageSize <= r.seen
    /\ ~r.full => r.hi = r.seen

(* What a replica owes at its place in the replay or in the websocket        *)
(* session has been done.                                                    *)
Progress(r) ==
    /\ r.pc = "fetch" => r.start <= Len(times) /\ Before(r.cursor)
    /\ r.pc = "drain" => Page(r) /\ r.at \in 1..(r.hi + 1) /\ Done(r.at - 1)
    /\ r.pc = "mark" => r.at \in 1..Len(times) /\ Done(r.at)
    /\ r.pc = "mark" /\ r.phase = "drain" => Page(r) /\ r.at \in 1..r.hi
    /\ r.pc = "live" => r.at \in 1..(Len(times) + 1) /\ Done(r.at - 1)
    /\ r.pc = "subscribe" => r.start <= r.seen /\ r.seen <= Len(times) /\ Done(r.seen)

ReplicasInv == wt \in [Watchers -> Replicas] /\ \A w \in Watchers : Progress(wt[w])

ReplayInv == TimesInv /\ LogInv /\ Before(ckpt) /\ ReplicasInv

(* A cursor passes every fill that is older, and only those come before it.  *)
LEMMA FirstFromFacts ==
    ASSUME TimesInv, NEW c \in Nat
    PROVE  /\ FirstFrom(c) \in 1..(Len(times) + 1)
           /\ \A i \in 1..Len(times) : i < FirstFrom(c) => times[i] < c
<1> DEFINE S == {i \in DOMAIN times : times[i] < c}
<1>1. Len(times) \in Nat /\ DOMAIN times = 1..Len(times) /\ \A i \in 1..Len(times) : times[i] \in Nat
  BY DEF TimesInv
<1>2. IsFiniteSet(1..Len(times)) /\ Cardinality(1..Len(times)) = Len(times)
  BY <1>1, FS_Interval
<1>3. S \in SUBSET (1..Len(times)) BY <1>1
<1>4. IsFiniteSet(S) /\ Cardinality(S) <= Len(times) BY <1>2, <1>3, FS_Subset
<1>5. Cardinality(S) \in Nat BY <1>4, FS_CardinalityType
<1>6. ASSUME NEW i \in 1..Len(times), i <= Cardinality(S), ~(times[i] < c) PROVE FALSE
  <2>1. ASSUME NEW k \in S PROVE k \in 1..(i - 1)
    <3>1. k \in 1..Len(times) /\ times[k] < c BY <1>3, <2>1
    <3>2. ~(i < k) BY <1>1, <1>6, <3>1 DEF TimesInv
    <3>3. i # k BY <1>6, <3>1
    <3> QED BY <1>1, <3>1, <3>2, <3>3
  <2>2. IsFiniteSet(1..(i - 1)) /\ Cardinality(1..(i - 1)) = i - 1 BY FS_Interval
  <2>3. S \in SUBSET (1..(i - 1)) BY <2>1
  <2>4. Cardinality(S) <= i - 1 BY <2>2, <2>3, FS_Subset
  <2> QED BY <1>5, <1>6, <2>4
<1>7. FirstFrom(c) = Cardinality(S) + 1 BY DEF FirstFrom
<1> HIDE DEF S
<1> QED BY <1>1, <1>4, <1>5, <1>6, <1>7

(* A page never ends past the fills there are, and a short one ends at them. *)
LEMMA PageEndFacts ==
    ASSUME TimesInv, NEW c \in Nat
    PROVE  /\ PageEnd(c) \in 0..Len(times)
           /\ FirstFrom(c) <= PageEnd(c) =>
                PageEnd(c) - FirstFrom(c) + 1 >= PageSize \/ PageEnd(c) = Len(times)
           /\ FirstFrom(c) > PageEnd(c) => PageEnd(c) = Len(times)
<1>1. Len(times) \in Nat BY DEF TimesInv
<1>2. FirstFrom(c) \in 1..(Len(times) + 1) BY FirstFromFacts
<1>3. PageSize \in Nat \ {0} BY SizesAssumption
<1> QED BY <1>1, <1>2, <1>3 DEF PageEnd

(* What a replica has done stays done as the log grows.                      *)
LEMMA ProgressKept ==
    ASSUME NEW r \in Replicas, Progress(r), UNCHANGED times,
           \A i \in Fills : events[i] # 0 => events'[i] # 0, TimesInv
    PROVE  Progress(r)'
<1>1. ASSUME NEW n PROVE Done(n) => Done(n)' BY DEF Done
<1>2. ASSUME NEW c PROVE Before(c) => Before(c)'
  <2>1. \A i \in 1..Len(times) : i \in Fills BY SizesAssumption DEF Fills, TimesInv
  <2> QED BY <2>1 DEF Before, Frontier, LastTime
<1> QED BY <1>1, <1>2 DEF Progress, Page

(* A replica that moves to a place where what it owes is done.               *)
LEMMA ReplicaMoves ==
    ASSUME TimesInv, ReplicasInv, NEW w \in Watchers, NEW r \in Replicas,
           wt' = [wt EXCEPT ![w] = r], Progress(r)', UNCHANGED times,
           \A i \in Fills : events[i] # 0 => events'[i] # 0
    PROVE  ReplicasInv'
<1>1. wt' \in [Watchers -> Replicas] BY DEF ReplicasInv
<1>2. ASSUME NEW v \in Watchers PROVE Progress(wt[v])'
  <2>1. CASE v = w
    <3>1. wt'[v] = r BY <2>1 DEF ReplicasInv
    <3> QED BY <3>1 DEF Progress, Page, Done, Before, Frontier, LastTime
  <2>2. CASE v # w
    <3>1. wt'[v] = wt[v] BY <2>2 DEF ReplicasInv
    <3>2. PICK q \in Replicas : q = wt[v] BY DEF ReplicasInv
    <3>3. Progress(q)' BY <3>2, ProgressKept DEF ReplicasInv
    <3> QED BY <3>1, <3>2, <3>3 DEF Progress, Page, Done, Before, Frontier, LastTime
  <2> QED BY <2>1, <2>2
<1> QED BY <1>1, <1>2 DEF ReplicasInv

(* Idle, and back at the loop, a replica owes nothing.                       *)
LEMMA AtRest ==
    ASSUME NEW r \in Replicas, r.pc \in {"idle", "replay"}
    PROVE  Progress(r) /\ Progress(r)'
BY DEF Progress

-----------------------------------------------------------------------------
(* The exchange and the lease *)

(* A new fill is not older than what the checkpoint and the cursors passed.  *)
LEMMA FillsKeep == ASSUME ReplayInv, MasterFills PROVE ReplayInv'
<1>1. PICK t \in {LastTime, LastTime + 1} \ {0} : (t = LastTime => SameMs) /\ times' = Append(times, t)
  BY DEF MasterFills
<1> DEFINE n == Len(times)
<1>2. n \in Nat /\ n + 1 <= MaxFills /\ times \in Seq(Nat) /\ DOMAIN times = 1..n
  BY SizesAssumption DEF MasterFills, ReplayInv, TimesInv
<1>3. LastTime \in Nat /\ \A i \in 1..n : times[i] \in Nat /\ times[i] <= LastTime
  <2>1. CASE times = <<>> BY <1>2, <2>1 DEF LastTime
  <2>2. CASE times # <<>>
    <3>1. n >= 1 /\ LastTime = times[n] BY <1>2, <2>2 DEF LastTime
    <3>2. ASSUME NEW i \in 1..n PROVE times[i] \in Nat /\ (i < n => times[i] <= times[n])
      BY <1>2, <3>1 DEF ReplayInv, TimesInv
    <3> QED BY <1>2, <3>1, <3>2
  <2> QED BY <2>1, <2>2
<1>4. t \in Nat /\ LastTime <= t /\ (SameMs = FALSE => LastTime < t) /\ Frontier <= t
  BY <1>1, <1>3, SizesAssumption DEF Frontier
<1>5. times' \in Seq(Nat) /\ Len(times') = n + 1 /\ times'[n + 1] = t
      /\ \A i \in 1..n : times'[i] = times[i]
  BY <1>1, <1>2, <1>4
<1>6. Frontier \in Nat /\ Frontier' \in Nat /\ Frontier <= Frontier'
  <2>1. LastTime' = t BY <1>2, <1>5 DEF LastTime
  <2> QED BY <1>1, <1>3, <1>4, <2>1, SizesAssumption DEF Frontier
<1> HIDE DEF n
<1>7. TimesInv'
  <2>1. ASSUME NEW i \in 1..(n + 1), NEW k \in 1..(n + 1), i < k
        PROVE  times'[i] <= times'[k] /\ (SameMs = FALSE => times'[i] < times'[k])
    <3>1. i \in 1..n BY <1>2, <2>1
    <3>2. CASE k = n + 1 BY <1>3, <1>4, <1>5, <3>1, <3>2
    <3>3. CASE k \in 1..n BY <1>5, <2>1, <3>1, <3>3 DEF ReplayInv, TimesInv, n
    <3>4. k = n + 1 \/ k \in 1..n BY <1>2
    <3> QED BY <3>2, <3>3, <3>4
  <2>2. Len(times') \in Nat /\ n + 1 \in Nat BY <1>2, <1>5
  <2> QED BY <1>2, <1>5, <2>1, <2>2 DEF TimesInv
<1>8. UNCHANGED <<lease, wt, events, jobs, ckpt, paused, faults>> BY DEF MasterFills
<1>9. ASSUME NEW c \in Nat, Before(c) PROVE Before(c)'
  <2>1. WholePages => c <= Frontier' /\ c <= t BY <1>4, <1>6, <1>9 DEF Before
  <2>2. ASSUME NEW i \in 1..(n + 1), times'[i] < c, WholePages PROVE events[i] # 0
    <3>1. i # n + 1 BY <1>4, <1>5, <2>1, <2>2
    <3>2. i \in 1..n BY <1>2, <3>1
    <3>3. times[i] < c BY <1>5, <2>2, <3>2
    <3> QED BY <1>9, <2>2, <3>2, <3>3 DEF Before, n
  <2> QED BY <1>5, <1>8, <2>1, <2>2 DEF Before
<1>10. ASSUME NEW w \in Watchers PROVE Progress(wt[w])'
  <2>1. PICK r \in Replicas : r = wt[w] BY DEF ReplayInv, ReplicasInv
  <2>2. Progress(r) BY <2>1 DEF ReplayInv, ReplicasInv
  <2>3. r.cursor \in Nat /\ r.start \in Nat /\ r.seen \in Nat /\ r.at \in Nat BY DEF Replicas
  <2>4. \A m : Done(m) => Done(m)' BY <1>8 DEF Done
  <2>5. Progress(r)' BY <1>2, <1>5, <1>9, <2>2, <2>3, <2>4 DEF Progress, Page, n
  <2>6. wt'[w] = r BY <1>8, <2>1
  <2> QED BY <2>5, <2>6 DEF Progress, Page, Done, Before, Frontier, LastTime
<1>11. Before(ckpt)'
  <2>1. PICK c \in Nat : c = ckpt BY DEF ReplayInv, LogInv
  <2>2. Before(c)' BY <1>9, <2>1 DEF ReplayInv
  <2> QED BY <1>8, <2>1, <2>2 DEF Before, Frontier, LastTime
<1> QED BY <1>7, <1>8, <1>10, <1>11 DEF ReplayInv, LogInv, ReplicasInv

(* The checkpoint and the log stay, the replicas and the lease may move.     *)
LEMMA LogStays ==
    ASSUME ReplayInv, UNCHANGED <<times, events, jobs, ckpt>>, lease' \in Leases,
           paused' \in BOOLEAN, faults' \in Nat, ReplicasInv'
    PROVE  ReplayInv'
BY DEF ReplayInv, TimesInv, LogInv, Before, Frontier, LastTime

(* A replica outside the leader's loop.                                      *)
LEMMA IdleType == Idle \in Replicas /\ Idle.pc = "idle"
BY DEF Idle, Replicas, PCs

(* The lease is taken or renewed.                                            *)
LEMMA LeaseKeeps ==
    ASSUME ReplayInv, NEW w \in Watchers, TryAcquire(w) \/ Renew(w)
    PROVE  ReplayInv'
<1>0. wt \in [Watchers -> Replicas] /\ \A v \in Watchers : Progress(wt[v])
      /\ lease \in Leases /\ lease.token \in Nat /\ TimesInv /\ ReplicasInv
      /\ paused \in BOOLEAN /\ faults \in Nat
  BY DEF ReplayInv, ReplicasInv, LogInv, Leases
<1>1. CASE TryAcquire(w)
  <2> DEFINE r == [Idle EXCEPT !.pc = "replay", !.token = lease.token + 1]
  <2>1. r \in Replicas /\ r.pc = "replay"
    <3>1. lease.token + 1 \in Nat BY <1>0
    <3> QED BY <3>1, IdleType DEF Replicas, PCs
  <2>2. wt' = [wt EXCEPT ![w] = r] /\ UNCHANGED <<times, events, jobs, ckpt, paused, faults>>
    BY <1>1 DEF TryAcquire
  <2>3. lease' \in Leases BY <1>0, <1>1 DEF TryAcquire, Leases
  <2> HIDE DEF r
  <2>4. ReplicasInv' BY <1>0, <2>1, <2>2, AtRest, ReplicaMoves
  <2> QED BY <1>0, <2>2, <2>3, <2>4, LogStays
<1>3. CASE Renew(w)
  <2>1. UNCHANGED <<times, events, jobs, ckpt, paused, faults>> BY <1>3 DEF Renew
  <2>2. CASE OwnLease(w)
    <3>1. lease' \in Leases /\ UNCHANGED wt BY <1>0, <1>3, <2>2 DEF Renew, Leases
    <3>2. ReplicasInv'
      BY <1>0, <2>1, <3>1 DEF ReplicasInv, Progress, Page, Done, Before, Frontier, LastTime
    <3> QED BY <1>0, <2>1, <3>1, <3>2, LogStays
  <2>3. CASE ~OwnLease(w)
    <3>1. PICK r \in Replicas : r = [wt[w] EXCEPT !.token = 0, !.lost = TRUE]
      BY <1>0 DEF Replicas
    <3>2. wt' = [wt EXCEPT ![w] = r] /\ UNCHANGED lease
      BY <1>0, <1>3, <2>3, <3>1 DEF Renew, Replicas
    <3>3. /\ r.pc = wt[w].pc /\ r.phase = wt[w].phase /\ r.at = wt[w].at /\ r.hi = wt[w].hi
          /\ r.full = wt[w].full /\ r.cursor = wt[w].cursor /\ r.seen = wt[w].seen
          /\ r.start = wt[w].start
      BY <1>0, <3>1 DEF Replicas
    <3>4. Progress(r) BY <1>0, <3>3 DEF Progress, Page
    <3>5. Progress(r)' BY <1>0, <2>1, <3>4, ProgressKept
    <3>6. ReplicasInv' BY <1>0, <2>1, <3>2, <3>5, ReplicaMoves
    <3> QED BY <1>0, <2>1, <3>2, <3>6, LogStays
  <2> QED BY <2>2, <2>3
<1> QED BY <1>1, <1>3

(* Whoever leaves the leader's loop owes nothing any more.                   *)
LEMMA LeavingKeeps ==
    ASSUME ReplayInv, NEW w \in Watchers, wt' = [wt EXCEPT ![w] = Idle], lease' \in Leases,
           UNCHANGED <<times, events, jobs, ckpt>>, paused' \in BOOLEAN, faults' \in Nat
    PROVE  ReplayInv'
<1>1. Idle \in Replicas /\ Idle.pc = "idle" BY IdleType
<1>2. PICK r \in Replicas : r = Idle BY <1>1
<1>3. ReplicasInv' BY <1>1, <1>2, AtRest, ReplicaMoves DEF ReplayInv
<1> QED BY <1>3, LogStays

-----------------------------------------------------------------------------
(* The leader *)

(* The replay: a page is fetched after the cursor, and left when it is done. *)
LEMMA ReplayKeeps ==
    ASSUME ReplayInv, NEW w \in Watchers,
           ReplayStart(w) \/ Fetch(w) \/ ReplayDone(w) \/ NextPage(w)
    PROVE  ReplayInv'
<1> DEFINE q == wt[w]
<1>0. /\ wt \in [Watchers -> Replicas] /\ q \in Replicas /\ Progress(q)
      /\ TimesInv /\ ReplicasInv /\ lease \in Leases /\ paused \in BOOLEAN /\ faults \in Nat
      /\ ckpt \in Nat /\ Before(ckpt) /\ Len(times) \in Nat /\ Len(times) <= MaxFills
  BY DEF ReplayInv, ReplicasInv, LogInv, TimesInv
<1>1. UNCHANGED <<times, lease, events, jobs, ckpt, paused, faults>>
  BY DEF ReplayStart, Fetch, ReplayDone, NextPage
<1>2. \A i \in Fills : i \in 1..Len(times) \/ i > Len(times) BY <1>0, SizesAssumption DEF Fills
<1>3. \A i \in 1..Len(times) : i \in Fills BY <1>0, SizesAssumption DEF Fills
<1>4. ASSUME NEW r \in Replicas, wt' = [wt EXCEPT ![w] = r], Progress(r) PROVE ReplayInv'
  <2>1. Progress(r)' BY <1>0, <1>1, <1>4, ProgressKept
  <2> QED BY <1>0, <1>1, <1>4, <2>1, ReplicaMoves, LogStays
<1>5. CASE ReplayStart(w)
  <2>1. PICK r \in Replicas :
           r = [q EXCEPT !.pc = "fetch", !.cursor = ckpt, !.pages = 0, !.start = Len(times)]
    BY <1>0 DEF Replicas, PCs
  <2>2. wt' = [wt EXCEPT ![w] = r] BY <1>0, <1>5, <2>1 DEF ReplayStart, StartCursor, Replicas
  <2>3. r.pc = "fetch" /\ r.cursor = ckpt /\ r.start = Len(times) BY <1>0, <2>1 DEF Replicas
  <2>4. Progress(r) BY <1>0, <2>3 DEF Progress
  <2> QED BY <1>4, <2>2, <2>4
<1>6. CASE Fetch(w)
  <2> DEFINE lo == FirstFrom(q.cursor)
             hi == PageEnd(q.cursor)
  <2>1. q.cursor \in Nat /\ q.start \in Nat BY <1>0 DEF Replicas
  <2>2. lo \in 1..(Len(times) + 1) /\ \A i \in 1..Len(times) : i < lo => times[i] < q.cursor
    BY <1>0, <2>1, FirstFromFacts
  <2>3. /\ hi \in 0..Len(times)
        /\ lo <= hi => hi - lo + 1 >= PageSize \/ hi = Len(times)
        /\ lo > hi => hi = Len(times)
    BY <1>0, <2>1, PageEndFacts
  <2>4. q.start <= Len(times) /\ Before(q.cursor) BY <1>0, <1>6 DEF Fetch, Progress
  <2> HIDE DEF lo, hi
  <2>5. lo \in Nat /\ hi \in Nat /\ PageSize \in Nat \ {0} BY <1>0, <2>2, <2>3, SizesAssumption
  <2>13. PICK p \in PCs : p = IF lo > hi THEN "subscribe" ELSE "drain" BY DEF PCs
  <2> DEFINE f == (hi - lo + 1 >= PageSize)
  <2>14. f \in BOOLEAN OBVIOUS
  <2> HIDE DEF f
  <2>6. PICK r \in Replicas :
           r = [q EXCEPT !.pc = p, !.at = lo, !.hi = hi, !.seen = Len(times), !.full = f]
    BY <1>0, <2>5, <2>14 DEF Replicas
  <2>7. wt' = [wt EXCEPT ![w] = r]
    BY <1>0, <1>6, <2>6, <2>13 DEF Fetch, Replicas, lo, hi, f
  <2>8. /\ r.pc = (IF lo > hi THEN "subscribe" ELSE "drain")
        /\ r.at = lo /\ r.hi = hi /\ r.seen = Len(times) /\ r.start = q.start
        /\ r.full = f
    BY <1>0, <2>6, <2>13 DEF Replicas
  <2>9. Done(lo - 1)
    <3>1. ASSUME WholePages, NEW i \in Fills, i <= lo - 1 PROVE events[i] # 0
      <4>1. i \in 1..Len(times) /\ i < lo BY <1>2, <2>2, <2>5, <3>1, SizesAssumption DEF Fills
      <4> QED BY <2>2, <2>4, <3>1, <4>1 DEF Before
    <3> QED BY <3>1 DEF Done
  <2>10. CASE lo > hi
    <3>1. Len(times) <= lo - 1 BY <1>0, <2>3, <2>5, <2>10
    <3>2. Done(Len(times)) BY <1>0, <2>5, <2>9, <3>1, SizesAssumption DEF Done, Fills
    <3>3. Progress(r) BY <1>0, <2>4, <2>8, <2>10, <3>2 DEF Progress
    <3> QED BY <1>4, <2>7, <3>3
  <2>11. CASE ~(lo > hi)
    <3>1. hi \in 1..Len(times) /\ lo \in 1..(hi + 1) BY <2>2, <2>3, <2>5, <2>11
    <3>2. hi - lo + 1 >= PageSize => PageSize <= Len(times) BY <1>0, <2>2, <2>3, <2>5
    <3>3. ~(hi - lo + 1 >= PageSize) => hi = Len(times) BY <2>3, <2>5, <2>11
    <3>7. (f => PageSize <= Len(times)) /\ (~f => hi = Len(times)) BY <3>2, <3>3 DEF f
    <3>4. Page(r) BY <1>0, <2>4, <2>8, <3>1, <3>7 DEF Page
    <3>5. r.pc = "drain" /\ r.at \in 1..(r.hi + 1) /\ Done(r.at - 1) BY <2>8, <2>9, <2>11, <3>1
    <3>6. Progress(r) BY <3>4, <3>5 DEF Progress
    <3> QED BY <1>4, <2>7, <3>6
  <2> QED BY <2>10, <2>11
<1>7. CASE ReplayDone(w) \/ NextPage(w)
  <2>1. q.pc = "drain" /\ q.at > q.hi BY <1>7 DEF ReplayDone, NextPage
  <2>2. Page(q) /\ q.at \in 1..(q.hi + 1) /\ Done(q.at - 1) BY <1>0, <2>1 DEF Progress
  <2>3. /\ q.hi \in Nat /\ q.at \in Nat /\ q.seen \in Nat /\ q.start \in Nat
        /\ q.full \in BOOLEAN /\ q.pages \in Nat
    BY <1>0 DEF Replicas
  <2>4. q.hi \in 1..Len(times) /\ q.at - 1 = q.hi BY <1>0, <2>1, <2>2, <2>3 DEF Page
  <2>5. CASE ReplayDone(w)
    <3>1. PICK r \in Replicas : r = [q EXCEPT !.pc = "subscribe"] BY <1>0 DEF Replicas, PCs
    <3>2. wt' = [wt EXCEPT ![w] = r] /\ ~q.full BY <1>0, <2>5, <3>1 DEF ReplayDone, Replicas
    <3>3. r.pc = "subscribe" /\ r.seen = q.seen /\ r.start = q.start BY <1>0, <3>1 DEF Replicas
    <3>4. q.hi = q.seen /\ q.start <= q.seen /\ q.seen <= Len(times) BY <2>2, <3>2 DEF Page
    <3>5. Done(r.seen) BY <2>2, <2>4, <3>3, <3>4
    <3>6. Progress(r) BY <3>3, <3>4, <3>5 DEF Progress
    <3> QED BY <1>4, <3>2, <3>6
  <2>6. CASE NextPage(w)
    <3>1. times[q.hi] \in Nat BY <1>0, <2>4 DEF TimesInv
    <3>10. PICK c \in Nat : c = times[q.hi] + 1 BY <3>1
    <3>11. q.pages + 1 \in Nat BY <2>3
    <3>2. PICK r \in Replicas : r = [q EXCEPT !.pc = "fetch", !.cursor = c, !.pages = q.pages + 1]
      BY <1>0, <3>11 DEF Replicas, PCs
    <3>3. wt' = [wt EXCEPT ![w] = r] /\ q.full
      BY <1>0, <2>6, <3>2, <3>10 DEF NextPage, NextCursor, Replicas
    <3>4. r.pc = "fetch" /\ r.cursor = c /\ r.start = q.start BY <1>0, <3>2 DEF Replicas
    <3>5. WholePages => SameMs = FALSE
      BY <1>0, <2>2, <2>3, <3>3, SizesAssumption DEF WholePages, Page
    <3>6. WholePages => c <= Frontier
      <4>1. LastTime = times[Len(times)] /\ times[Len(times)] \in Nat
        BY <1>0, <2>4 DEF LastTime, TimesInv
      <4>2. times[q.hi] <= LastTime
        <5>1. Len(times) \in 1..Len(times) BY <1>0, <2>4 DEF TimesInv
        <5>2. CASE q.hi = Len(times) BY <3>1, <4>1, <5>2
        <5>3. CASE q.hi < Len(times) BY <1>0, <2>4, <4>1, <5>1, <5>3 DEF TimesInv
        <5> QED BY <2>4, <5>1, <5>2, <5>3
      <4> QED BY <3>1, <3>5, <3>10, <4>1, <4>2 DEF Frontier
    <3>7. ASSUME WholePages, NEW i \in 1..Len(times), times[i] < c PROVE events[i] # 0
      <4>1. times[i] \in Nat BY <1>0 DEF TimesInv
      <4>2. ~(times[q.hi] < times[i]) BY <3>1, <3>7, <3>10, <4>1
      <4>3. ~(q.hi < i) BY <1>0, <2>4, <3>5, <3>7, <4>2 DEF TimesInv
      <4>4. i <= q.at - 1 BY <2>3, <2>4, <4>3
      <4> QED BY <1>3, <2>2, <3>7, <4>4 DEF Done
    <3>8. q.start <= Len(times) BY <1>0, <2>2, <2>3 DEF Page
    <3>9. Progress(r) BY <3>4, <3>6, <3>7, <3>8 DEF Progress, Before
    <3> QED BY <1>4, <3>3, <3>9
  <2> QED BY <1>7, <2>5, <2>6
<1> QED BY <1>5, <1>6, <1>7

(* A fill is persisted, then the checkpoint moves to its time.               *)
LEMMA FillKeeps ==
    ASSUME ReplayInv, NEW w \in Watchers, PersistFill(w) \/ SetCheckpoint(w)
    PROVE  ReplayInv'
<1>9. PICK q \in Replicas : q = wt[w] BY DEF ReplayInv, ReplicasInv
<1>0. /\ wt \in [Watchers -> Replicas] /\ q \in Replicas /\ Progress(q)
      /\ TimesInv /\ ReplicasInv /\ lease \in Leases /\ paused \in BOOLEAN /\ faults \in Nat
      /\ ckpt \in Nat /\ Before(ckpt) /\ Len(times) \in Nat /\ Len(times) <= MaxFills
      /\ events \in [Fills -> Nat] /\ jobs \in SUBSET Fills /\ MaxFills \in Nat
  BY <1>9, SizesAssumption DEF ReplayInv, ReplicasInv, LogInv, TimesInv
<1>1. q.at \in Nat /\ q.hi \in Nat /\ q.seen \in Nat /\ q.start \in Nat /\ q.token \in Nat
      /\ q.phase \in {"drain", "live"}
  BY <1>0 DEF Replicas
<1>2. CASE PersistFill(w)
  <2>7. PICK i \in Nat : i = q.at BY <1>1
  <2>1. UNCHANGED <<times, lease, ckpt, paused, faults>> /\ HasFill(w) /\ FenceOpen(w)
    BY <1>2 DEF PersistFill
  <2>2. q.pc \in {"drain", "live"} /\ Done(i - 1) /\ i \in 1..Len(times)
        /\ (q.pc = "drain" => Page(q) /\ i <= q.hi)
    <3>1. CASE q.pc = "drain" /\ i <= q.hi BY <1>0, <1>1, <2>7, <3>1 DEF Progress, Page
    <3>2. CASE q.pc = "live" /\ i <= Len(times) BY <1>0, <1>1, <2>7, <3>2 DEF Progress
    <3> QED BY <1>9, <2>1, <2>7, <3>1, <3>2 DEF HasFill
  <2>3. i \in Fills BY <1>0, <2>2 DEF Fills
  <2>4. ASSUME NEW r \in Replicas, wt' = [wt EXCEPT ![w] = r], Progress(r)',
               events' \in [Fills -> Nat], jobs' \in SUBSET Fills,
               \A k \in Fills : events[k] # 0 => events'[k] # 0
        PROVE  ReplayInv'
    <3>1. ReplicasInv' BY <1>0, <2>1, <2>4, ReplicaMoves
    <3>2. \A k \in 1..Len(times) : k \in Fills BY <1>0 DEF Fills
    <3>3. Before(ckpt)' BY <1>0, <2>1, <2>4, <3>2 DEF Before, Frontier, LastTime
    <3>4. TimesInv' /\ LogInv' BY <1>0, <2>1, <2>4 DEF TimesInv, LogInv
    <3> QED BY <3>1, <3>3, <3>4 DEF ReplayInv
  <2>5. CASE events[i] # 0
    <3>1. PICK r \in Replicas : r = [q EXCEPT !.at = i + 1]
      <4>1. i + 1 \in Nat BY <2>7
      <4> QED BY <4>1 DEF Replicas
    <3>2. wt' = [wt EXCEPT ![w] = r] /\ UNCHANGED <<events, jobs>>
      BY <1>0, <1>2, <1>9, <2>5, <2>7, <3>1 DEF PersistFill, Replicas
    <3>3. /\ r.pc = q.pc /\ r.at = i + 1 /\ r.hi = q.hi /\ r.seen = q.seen
          /\ r.start = q.start /\ r.full = q.full
      BY <1>0, <2>7, <3>1 DEF Replicas
    <3>4. Done(i) BY <1>1, <2>2, <2>3, <2>5 DEF Done, Fills
    <3>5. r.at - 1 = i /\ r.at \in 1..(Len(times) + 1) BY <1>1, <2>2, <3>3
    <3>6. q.pc = "drain" => Page(r) /\ r.at \in 1..(r.hi + 1)
      BY <1>1, <2>2, <3>3 DEF Page
    <3>7. Progress(r) BY <2>2, <3>3, <3>4, <3>5, <3>6 DEF Progress
    <3>8. Progress(r)' BY <1>0, <2>1, <3>2, <3>7, ProgressKept
    <3> QED BY <1>0, <2>4, <3>2, <3>8
  <2>6. CASE events[i] = 0
    <3>1. PICK r \in Replicas : r = [q EXCEPT !.pc = "mark", !.phase = q.pc]
      BY <1>0, <2>2 DEF Replicas, PCs
    <3>2. wt' = [wt EXCEPT ![w] = r] /\ events' = [events EXCEPT ![i] = q.token]
          /\ (jobs' = jobs \/ jobs' = jobs \cup {i})
      BY <1>0, <1>2, <1>9, <2>6, <2>7, <3>1 DEF PersistFill, Replicas
    <3>3. /\ r.pc = "mark" /\ r.phase = q.pc /\ r.at = i /\ r.hi = q.hi /\ r.seen = q.seen
          /\ r.start = q.start /\ r.full = q.full
      BY <1>0, <2>7, <3>1 DEF Replicas
    <3>4. q.token # 0 BY <1>9, <2>1 DEF FenceOpen
    <3>5. events' \in [Fills -> Nat] /\ events'[i] # 0
          /\ \A k \in Fills : events[k] # 0 => events'[k] # 0
      BY <1>0, <1>1, <2>3, <3>2, <3>4
    <3>6. jobs' \in SUBSET Fills BY <1>0, <2>3, <3>2
    <3>7. Done(i)'
      <4>1. ASSUME WholePages, NEW k \in Fills, k <= i PROVE events'[k] # 0
        <5>1. k = i \/ k <= i - 1 BY <1>1, <4>1 DEF Fills
        <5> QED BY <2>2, <3>5, <4>1, <5>1 DEF Done
      <4> QED BY <4>1 DEF Done
    <3>8. r.phase = "drain" => Page(r)' /\ r.at \in 1..r.hi
      BY <1>1, <2>1, <2>2, <3>3 DEF Page
    <3>9. (r.at \in 1..Len(times))' BY <2>1, <2>2, <3>3
    <3>10. Progress(r)' BY <3>3, <3>7, <3>8, <3>9 DEF Progress
    <3> QED BY <1>0, <2>4, <3>2, <3>5, <3>6, <3>10
  <2> QED BY <2>5, <2>6
<1>3. CASE SetCheckpoint(w)
  <2>7. PICK i \in Nat : i = q.at BY <1>1
  <2>1. UNCHANGED <<times, lease, events, jobs, paused, faults>> /\ q.pc = "mark"
    BY <1>3, <1>9 DEF SetCheckpoint
  <2>2. i \in 1..Len(times) /\ Done(i) /\ (q.phase = "drain" => Page(q) /\ i \in 1..q.hi)
    BY <1>0, <2>1, <2>7 DEF Progress
  <2>3. PICK t \in Nat : t = times[i] BY <1>0, <2>2 DEF TimesInv
  <2>4. ckpt' = IF t >= ckpt THEN t ELSE ckpt BY <1>3, <1>9, <2>3, <2>7 DEF SetCheckpoint
  <2>5. Before(t)
    <3>1. LastTime = times[Len(times)] /\ times[Len(times)] \in Nat
      BY <1>0, <2>2 DEF LastTime, TimesInv
    <3>2. t <= LastTime BY <1>0, <2>2, <2>3, <3>1 DEF TimesInv
    <3>3. t <= Frontier BY <2>3, <3>1, <3>2 DEF Frontier
    <3>4. ASSUME WholePages, NEW k \in 1..Len(times), times[k] < t PROVE events[k] # 0
      <4>1. times[k] \in Nat BY <1>0 DEF TimesInv
      <4>2. ~(i < k) BY <1>0, <2>2, <2>3, <3>4, <4>1 DEF TimesInv
      <4>3. k \in Fills /\ k <= i BY <1>0, <4>2 DEF Fills
      <4> QED BY <2>2, <3>4, <4>3 DEF Done
    <3> QED BY <3>3, <3>4 DEF Before
  <2>6. ckpt' \in Nat /\ Before(ckpt)'
    <3>1. ckpt' = t \/ ckpt' = ckpt BY <2>4
    <3> QED BY <1>0, <2>1, <2>5, <3>1 DEF Before, Frontier, LastTime
  <2>8. PICK r \in Replicas : r = [q EXCEPT !.pc = q.phase, !.at = i + 1]
    <3>1. i + 1 \in Nat /\ q.phase \in PCs BY <1>1, <2>7 DEF PCs
    <3> QED BY <3>1 DEF Replicas
  <2>9. wt' = [wt EXCEPT ![w] = r]
    BY <1>0, <1>3, <1>9, <2>7, <2>8 DEF SetCheckpoint, Replicas
  <2>10. /\ r.pc = q.phase /\ r.at = i + 1 /\ r.hi = q.hi /\ r.seen = q.seen
         /\ r.start = q.start /\ r.full = q.full
    BY <2>8 DEF Replicas
  <2>11. r.at - 1 = i /\ r.at \in 1..(Len(times) + 1) BY <1>0, <2>2, <2>10
  <2>12. q.phase = "drain" => Page(r) /\ r.at \in 1..(r.hi + 1)
    BY <1>1, <2>2, <2>10 DEF Page
  <2>13. Progress(r) BY <1>1, <2>2, <2>10, <2>11, <2>12 DEF Progress
  <2>14. Progress(r)' BY <1>0, <2>1, <2>13, ProgressKept
  <2>15. ReplicasInv' BY <1>0, <2>1, <2>9, <2>14, ReplicaMoves
  <2>16. TimesInv' /\ LogInv' BY <1>0, <2>1, <2>6 DEF TimesInv, LogInv
  <2> QED BY <2>6, <2>15, <2>16 DEF ReplayInv
<1> QED BY <1>2, <1>3

(* The websocket session begins and ends.                                    *)
LEMMA SessionKeeps ==
    ASSUME ReplayInv, NEW w \in Watchers, Subscribe(w) \/ Rotate(w)
    PROVE  ReplayInv'
<1>1. PICK q \in Replicas : q = wt[w] BY DEF ReplayInv, ReplicasInv
<1>2. /\ wt \in [Watchers -> Replicas] /\ Progress(q) /\ TimesInv /\ ReplicasInv
      /\ lease \in Leases /\ paused \in BOOLEAN /\ faults \in Nat /\ Len(times) \in Nat
  BY <1>1 DEF ReplayInv, ReplicasInv, LogInv, TimesInv
<1>3. UNCHANGED <<times, lease, events, jobs, ckpt, paused, faults>> BY DEF Subscribe, Rotate
<1>4. ASSUME NEW r \in Replicas, wt' = [wt EXCEPT ![w] = r], Progress(r) PROVE ReplayInv'
  <2>1. Progress(r)' BY <1>2, <1>3, <1>4, ProgressKept
  <2> QED BY <1>2, <1>3, <1>4, <2>1, ReplicaMoves, LogStays
<1>5. PICK b \in Replicas : b = AtLoop(w)
  <2>1. q.token \in Nat /\ q.lost \in BOOLEAN BY DEF Replicas
  <2> QED BY <1>1, <2>1, IdleType DEF AtLoop, Replicas, PCs
<1>6. b.pc = "replay" BY <1>5, IdleType DEF AtLoop, Replicas
<1>7. CASE Rotate(w)
  <2>1. wt' = [wt EXCEPT ![w] = b] BY <1>5, <1>7 DEF Rotate
  <2> QED BY <1>4, <1>6, <2>1, AtRest
<1>8. CASE Subscribe(w)
  <2>1. q.pc = "subscribe" BY <1>1, <1>8 DEF Subscribe
  <2>2. q.seen \in Nat /\ q.seen <= Len(times) /\ Done(q.seen) BY <1>2, <2>1 DEF Progress, Replicas
  <2>3. PICK n \in 1..(q.seen + 1) : wt' = [wt EXCEPT ![w] = [b EXCEPT !.pc = "live", !.at = n]]
    BY <1>1, <1>5, <1>8 DEF Subscribe
  <2>4. n \in Nat /\ n \in 1..(Len(times) + 1) /\ n - 1 <= q.seen BY <1>2, <2>2
  <2>5. PICK r \in Replicas : r = [b EXCEPT !.pc = "live", !.at = n] BY <2>4 DEF Replicas, PCs
  <2>6. r.pc = "live" /\ r.at = n BY <2>5 DEF Replicas
  <2>7. Done(n - 1) BY <2>2, <2>4, SizesAssumption DEF Done, Fills
  <2>8. Progress(r) BY <2>4, <2>6, <2>7 DEF Progress
  <2> QED BY <1>4, <2>3, <2>5, <2>8
<1> QED BY <1>7, <1>8

-----------------------------------------------------------------------------
(* The theorems *)

(* Nothing is there at first.                                                *)
LEMMA ReplayInit == Init => ReplayInv
<1> SUFFICES ASSUME Init PROVE ReplayInv OBVIOUS
<1>1. TimesInv BY SizesAssumption DEF Init, TimesInv
<1>2. LogInv BY DEF Init, LogInv, Leases
<1>3. Before(ckpt) BY SizesAssumption DEF Init, Before, Frontier, LastTime
<1>4. ReplicasInv BY IdleType, AtRest DEF Init, ReplicasInv
<1> QED BY <1>1, <1>2, <1>3, <1>4 DEF ReplayInv

(* Every step keeps the invariant.                                           *)
LEMMA ReplayNext == ASSUME ReplayInv, [Next]_vars PROVE ReplayInv'
<1>0. lease \in Leases /\ paused \in BOOLEAN /\ faults \in Nat BY DEF ReplayInv, LogInv
<1>1. CASE UNCHANGED vars
  BY <1>1 DEF vars, ReplayInv, TimesInv, LogInv, ReplicasInv, Progress, Page, Done, Before,
              Frontier, LastTime
<1>2. CASE MasterFills BY <1>2, FillsKeep
<1>3. ASSUME NEW w \in Watchers, TryAcquire(w) \/ Renew(w) PROVE ReplayInv'
  BY <1>3, LeaseKeeps
<1>4. CASE Expire
  <2>1. lease' \in Leases BY <1>0, <1>4 DEF Expire, Leases
  <2>2. faults' \in Nat BY <1>0, <1>4 DEF Expire
  <2>3. UNCHANGED <<times, wt, events, jobs, ckpt, paused>> BY <1>4 DEF Expire
  <2>4. ReplicasInv'
    BY <2>3 DEF ReplayInv, ReplicasInv, Progress, Page, Done, Before, Frontier, LastTime
  <2> QED BY <1>0, <2>1, <2>2, <2>3, <2>4, LogStays
<1>5. ASSUME NEW w \in Watchers, LeaderStep(w) PROVE ReplayInv'
  <2>1. CASE ReplayStart(w) \/ Fetch(w) \/ ReplayDone(w) \/ NextPage(w) BY <2>1, ReplayKeeps
  <2>2. CASE PersistFill(w) \/ SetCheckpoint(w) BY <2>2, FillKeeps
  <2>3. CASE Subscribe(w) BY <2>3, SessionKeeps
  <2>4. CASE FencedOut(w) \/ GapUnproven(w) \/ StepDown(w)
    <3>1. Leave(w) /\ UNCHANGED <<times, events, jobs, ckpt, faults>> /\ paused' \in BOOLEAN
      BY <1>0, <2>4 DEF FencedOut, GapUnproven, StepDown
    <3>2. lease' \in Leases BY <1>0, <3>1 DEF Leave, Leases
    <3> QED BY <1>0, <3>1, <3>2, LeavingKeeps DEF Leave
  <2> QED BY <1>5, <2>1, <2>2, <2>3, <2>4 DEF LeaderStep
<1>6. ASSUME NEW w \in Watchers, Fail(w) PROVE ReplayInv'
  <2>1. wt' = [wt EXCEPT ![w] = Idle] /\ UNCHANGED <<times, events, jobs, ckpt, paused>>
    BY <1>6 DEF Fail, Leave
  <2>2. lease' \in Leases BY <1>0, <1>6 DEF Fail, Leave, Leases
  <2>3. faults' \in Nat BY <1>0, <1>6 DEF Fail
  <2> QED BY <1>0, <2>1, <2>2, <2>3, LeavingKeeps
<1>7. ASSUME NEW w \in Watchers, Rotate(w) PROVE ReplayInv' BY <1>7, SessionKeeps
<1> QED BY <1>1, <1>2, <1>3, <1>4, <1>5, <1>6, <1>7 DEF Next

(* Every behaviour keeps it.                                                 *)
LEMMA ReplayInvariance == Spec => []ReplayInv
<1>1. ReplayInv /\ [Next]_vars => ReplayInv' BY ReplayNext
<1> QED BY <1>1, ReplayInit, PTL DEF Spec

(* The fills, the lease, the replicas and the log keep their types.          *)
THEOREM TypeCorrect == Spec => []TypeOK
<1>1. ReplayInv => TypeOK BY DEF ReplayInv, TimesInv, LogInv, ReplicasInv, TypeOK
<1> QED BY <1>1, ReplayInvariance, PTL

(* _set_checkpoint after persist_master_fill_and_jobs, unfenced: the         *)
(* checkpoint never passes a fill without its event, whoever moves it.       *)
THEOREM NothingBehindCheckpoint == ASSUME WholePages PROVE Spec => []CheckpointCoversAll
<1>1. ReplayInv => CheckpointCoversAll BY DEF ReplayInv, TimesInv, Before, CheckpointCoversAll
<1> QED BY <1>1, ReplayInvariance, PTL

(* run_leader's replay: when it ends without raising, every fill there was   *)
(* when it began has its event ("Persist every missed master fill").         *)
THEOREM ReplayIsComplete == ASSUME WholePages PROVE Spec => []ReplayComplete
<1>1. ReplayInv => ReplayComplete
  <2> SUFFICES ASSUME ReplayInv, NEW w \in Watchers, wt[w].pc = "subscribe",
                      NEW i \in 1..wt[w].start
               PROVE  events[i] # 0
    BY DEF ReplayComplete
  <2>1. PICK q \in Replicas : q = wt[w] BY DEF ReplayInv, ReplicasInv
  <2>2. q.start <= q.seen /\ q.seen <= Len(times) /\ Done(q.seen)
    BY <2>1 DEF ReplayInv, ReplicasInv, Progress
  <2>3. q.start \in Nat /\ q.seen \in Nat /\ Len(times) \in Nat /\ Len(times) <= MaxFills
    BY DEF Replicas, ReplayInv, TimesInv
  <2>4. i \in Fills /\ i <= q.seen BY <2>1, <2>2, <2>3, SizesAssumption DEF Fills
  <2> QED BY <2>2, <2>4 DEF Done
<1> QED BY <1>1, ReplayInvariance, PTL
=============================================================================
