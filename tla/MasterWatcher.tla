---------------------------- MODULE MasterWatcher ----------------------------
(***************************************************************************)
(* The master watcher: replicas compete for a fenced lease in PostgreSQL;  *)
(* the leader replays the master's fills from a durable checkpoint, page   *)
(* by page, then follows the websocket, and persists every fill as one     *)
(* MasterEvent (with its EVENT jobs) before it moves the checkpoint.       *)
(*                                                                         *)
(* Fills are numbered in exchange order; times[i] is the millisecond of    *)
(* fill i, so a page of history is an interval of fill numbers.            *)
(***************************************************************************)
EXTENDS Integers, Sequences, FiniteSets

CONSTANTS
    Watchers,       \* replicas (holder identities)
    NoHolder,       \* holder of the lease row before the first acquisition
    MaxFills,       \* bound: fills the master makes
    SameMs,         \* whether two fills may share a millisecond
    PageSize,       \* fills per history page (2000)
    MaxPages,       \* pages per replay (5; HL_REPLAY_MAX_FILLS = 5 pages)
    MaxFaults       \* bound: crashes, failures and stalls past the TTL

ASSUME WatchersAssumption == NoHolder \notin Watchers
ASSUME SizesAssumption ==
    /\ MaxFills \in Nat /\ MaxFaults \in Nat /\ SameMs \in BOOLEAN
    /\ PageSize \in Nat \ {0} /\ MaxPages \in Nat \ {0}

VARIABLES
    times,          \* exchange: time of every fill so far
    lease,          \* watcher_lease: holder, fencing_token, not yet expired
    wt,             \* the replicas
    events,         \* fencing_token of each fill's MasterEvent, 0 = no row
    jobs,           \* fills for which EVENT jobs were created
    ckpt,           \* master_checkpoint: time_ms
    paused,         \* global_pause set by an unproven replay
    faults

vars == <<times, lease, wt, events, jobs, ckpt, paused, faults>>

Fills == 1..MaxFills
PCs   == {"idle", "replay", "fetch", "drain", "subscribe", "live", "mark"}

(* at: next fill to persist; hi: last fill of the page; full: a full page;   *)
(* seen, start: fills that existed at the last page and at replay's start.   *)
Replicas == [pc : PCs, token : Nat, lost : BOOLEAN, phase : {"drain", "live"},
             at : Nat, hi : Nat, full : BOOLEAN, cursor : Nat, pages : Nat,
             seen : Nat, start : Nat]

Leases == [holder : Watchers \cup {NoHolder}, token : Nat, live : BOOLEAN]

Idle == [pc |-> "idle", token |-> 0, lost |-> FALSE, phase |-> "drain", at |-> 0, hi |-> 0,
         full |-> FALSE, cursor |-> 0, pages |-> 0, seen |-> 0, start |-> 0]

Init ==
    /\ times = <<>>
    /\ lease = [holder |-> NoHolder, token |-> 0, live |-> FALSE]
    /\ wt = [w \in Watchers |-> Idle]
    /\ events = [i \in Fills |-> 0]
    /\ jobs = {}
    /\ ckpt = 0
    /\ paused = FALSE
    /\ faults = 0

-----------------------------------------------------------------------------
(* The exchange (external) *)

LastTime == IF times = <<>> THEN 0 ELSE times[Len(times)]

MasterFills ==
    /\ Len(times) < MaxFills
    /\ \E t \in {LastTime, LastTime + 1} \ {0} :
          /\ t = LastTime => SameMs
          /\ times' = Append(times, t)
    /\ UNCHANGED <<lease, wt, events, jobs, ckpt, paused, faults>>

(* userFillsByTime: the oldest fills at or after the cursor, a page at most. *)
FirstFrom(c) == Cardinality({i \in DOMAIN times : times[i] < c}) + 1
PageEnd(c) == IF FirstFrom(c) + PageSize - 1 < Len(times)
              THEN FirstFrom(c) + PageSize - 1 ELSE Len(times)

-----------------------------------------------------------------------------
(* The lease *)

OwnLease(w) == lease.holder = w /\ lease.token = wt[w].token

(* try_acquire: free, expired or already ours; the token always grows. *)
TryAcquire(w) ==
    /\ wt[w].pc = "idle"
    /\ ~lease.live \/ lease.holder = w
    /\ lease' = [holder |-> w, token |-> lease.token + 1, live |-> TRUE]
    /\ wt' = [wt EXCEPT ![w] = [Idle EXCEPT !.pc = "replay", !.token = lease.token + 1]]
    /\ UNCHANGED <<times, events, jobs, ckpt, paused, faults>>

(* The TTL runs out: by itself once the holder is gone, else a stall. *)
Expire ==
    /\ lease.live /\ lease' = [lease EXCEPT !.live = FALSE]
    /\ IF \E w \in Watchers : OwnLease(w)
       THEN faults < MaxFaults /\ faults' = faults + 1
       ELSE UNCHANGED faults
    /\ UNCHANGED <<times, wt, events, jobs, ckpt, paused>>

(* renew: by holder and token; a late renewal revives an expired lease that  *)
(* nobody took.  A definitive rejection drops the token and sets `lost'.     *)
Renew(w) ==
    /\ wt[w].token # 0
    /\ IF OwnLease(w)
       THEN lease' = [lease EXCEPT !.live = TRUE] /\ UNCHANGED wt
       ELSE wt' = [wt EXCEPT ![w].token = 0, ![w].lost = TRUE] /\ UNCHANGED lease
    /\ UNCHANGED <<times, events, jobs, ckpt, paused, faults>>

(* Leaving run_leader: stop_renewal, then release by holder and token. *)
Leave(w) ==
    /\ lease' = IF wt[w].token # 0 /\ OwnLease(w) THEN [lease EXCEPT !.live = FALSE] ELSE lease
    /\ wt' = [wt EXCEPT ![w] = Idle]

-----------------------------------------------------------------------------
(* run_leader *)

(* Mutant: the checkpoint's own millisecond is taken as done. *)
StartCursor_After == IF ckpt = 0 THEN 0 ELSE ckpt + 1

(* Mutant: one millisecond of overlap, also before the first checkpoint. *)
StartCursor_Overlap == ckpt - 1

(* Without a checkpoint the replay looks back five minutes: to the start.    *)
StartCursor == ckpt

(* What survives one round of the leader's loop: token and `lost'. *)
AtLoop(w) == [Idle EXCEPT !.pc = "replay", !.token = wt[w].token, !.lost = wt[w].lost]

ReplayStart(w) ==
    /\ wt[w].pc = "replay" /\ ~wt[w].lost
    /\ wt' = [wt EXCEPT ![w].pc = "fetch", ![w].cursor = StartCursor, ![w].pages = 0,
                        ![w].start = Len(times)]
    /\ UNCHANGED <<times, lease, events, jobs, ckpt, paused, faults>>

Fetch(w) ==
    LET lo == FirstFrom(wt[w].cursor)
        hi == PageEnd(wt[w].cursor)
    IN  /\ wt[w].pc = "fetch"
        /\ wt' = [wt EXCEPT ![w].pc = IF lo > hi THEN "subscribe" ELSE "drain",
                            ![w].at = lo, ![w].hi = hi, ![w].seen = Len(times),
                            ![w].full = (hi - lo + 1 >= PageSize)]
        /\ UNCHANGED <<times, lease, events, jobs, ckpt, paused, faults>>

(* Mutant: only the expiry is looked at, not whose lease it is. *)
FenceOpen_AnyToken(w) == wt[w].token # 0 /\ lease.live

(* The lease row is read FOR SHARE, which keeps try_acquire out until the    *)
(* transaction of the event commits: check and write are one step.           *)
FenceOpen(w) == wt[w].token # 0 /\ lease.token = wt[w].token /\ lease.live

HasFill(w) == \/ wt[w].pc = "drain" /\ wt[w].at <= wt[w].hi
              \/ wt[w].pc = "live" /\ wt[w].at <= Len(times) /\ ~wt[w].lost

(* process_fill -> persist_master_fill_and_jobs: a fill with a row is left   *)
(* alone; a replayed or historical fill gets no jobs.                        *)
PersistFill(w) ==
    LET i == wt[w].at IN
    /\ HasFill(w) /\ FenceOpen(w)
    /\ IF events[i] # 0
       THEN /\ wt' = [wt EXCEPT ![w].at = i + 1]
            /\ UNCHANGED <<events, jobs>>
       ELSE /\ events' = [events EXCEPT ![i] = wt[w].token]
            /\ \/ UNCHANGED jobs
               \/ wt[w].pc = "live" /\ jobs' = jobs \cup {i}
            /\ wt' = [wt EXCEPT ![w].pc = "mark", ![w].phase = wt[w].pc]
    /\ UNCHANGED <<times, lease, ckpt, paused, faults>>

(* `Watcher fenced out or lease expired': the leader steps down. *)
FencedOut(w) ==
    /\ HasFill(w) /\ ~FenceOpen(w)
    /\ Leave(w)
    /\ UNCHANGED <<times, events, jobs, ckpt, paused, faults>>

(* _set_checkpoint: its own transaction, monotone, not fenced. *)
SetCheckpoint(w) ==
    LET t == times[wt[w].at] IN
    /\ wt[w].pc = "mark"
    /\ ckpt' = IF t >= ckpt THEN t ELSE ckpt
    /\ wt' = [wt EXCEPT ![w].pc = wt[w].phase, ![w].at = @ + 1]
    /\ UNCHANGED <<times, lease, events, jobs, paused, faults>>

(* Mutant: the next page starts one millisecond too late. *)
NextCursor_Late(w) == times[wt[w].hi] + 2

NextCursor(w) == times[wt[w].hi] + 1

(* A page is done: a short one ends the replay, a full one asks for the next *)
(* and the last allowed one is an unproven gap.                              *)
ReplayDone(w) ==
    /\ wt[w].pc = "drain" /\ wt[w].at > wt[w].hi /\ ~wt[w].full
    /\ wt' = [wt EXCEPT ![w].pc = "subscribe"]
    /\ UNCHANGED <<times, lease, events, jobs, ckpt, paused, faults>>

NextPage(w) ==
    /\ wt[w].pc = "drain" /\ wt[w].at > wt[w].hi /\ wt[w].full
    /\ wt[w].pages + 1 < MaxPages
    /\ wt' = [wt EXCEPT ![w].pc = "fetch", ![w].cursor = NextCursor(w), ![w].pages = @ + 1]
    /\ UNCHANGED <<times, lease, events, jobs, ckpt, paused, faults>>

GapUnproven(w) ==
    /\ wt[w].pc = "drain" /\ wt[w].at > wt[w].hi /\ wt[w].full
    /\ wt[w].pages + 1 = MaxPages
    /\ paused' = TRUE
    /\ Leave(w)
    /\ UNCHANGED <<times, events, jobs, ckpt, faults>>

(* master_fills: the subscription's first message repeats recent fills (no   *)
(* isSnapshot filter), from the last page read at the latest (external).     *)
Subscribe(w) ==
    /\ wt[w].pc = "subscribe"
    /\ \E n \in 1..(wt[w].seen + 1) :
          wt' = [wt EXCEPT ![w] = [AtLoop(w) EXCEPT !.pc = "live", !.at = n]]
    /\ UNCHANGED <<times, lease, events, jobs, ckpt, paused, faults>>

(* Normal end of the websocket session: replay before reconnecting. *)
Rotate(w) ==
    /\ wt[w].pc = "live" /\ ~wt[w].lost
    /\ wt' = [wt EXCEPT ![w] = AtLoop(w)]
    /\ UNCHANGED <<times, lease, events, jobs, ckpt, paused, faults>>

(* The loop sees `lost' and leaves; the token is already gone. *)
StepDown(w) ==
    /\ wt[w].pc \in {"replay", "live"} /\ wt[w].lost
    /\ Leave(w)
    /\ UNCHANGED <<times, events, jobs, ckpt, paused, faults>>

(* Any other exception leaves cleanly; a crash does not release. *)
Fail(w) ==
    /\ wt[w].pc # "idle" /\ faults < MaxFaults
    /\ Leave(w) \/ (wt' = [wt EXCEPT ![w] = Idle] /\ UNCHANGED lease)
    /\ faults' = faults + 1
    /\ UNCHANGED <<times, events, jobs, ckpt, paused>>

LeaderStep(w) ==
    \/ ReplayStart(w) \/ Fetch(w) \/ PersistFill(w) \/ FencedOut(w) \/ SetCheckpoint(w)
    \/ ReplayDone(w) \/ NextPage(w) \/ GapUnproven(w) \/ Subscribe(w) \/ StepDown(w)

Next ==
    \/ MasterFills
    \/ Expire
    \/ \E w \in Watchers :
          TryAcquire(w) \/ Renew(w) \/ LeaderStep(w) \/ Rotate(w) \/ Fail(w)

Spec == Init /\ [][Next]_vars

(* Every replica's loop keeps running, and a lease without a holder runs     *)
(* out: time passes.                                                         *)
Fairness ==
    /\ \A w \in Watchers : WF_vars(TryAcquire(w)) /\ WF_vars(LeaderStep(w))
    /\ WF_vars(Expire /\ UNCHANGED faults)

FairSpec == Spec /\ Fairness

-----------------------------------------------------------------------------
(* Properties *)

(* Every variable has its type.                                              *)
TypeOK ==
    /\ times \in Seq(Nat)
    /\ lease \in Leases
    /\ wt \in [Watchers -> Replicas]
    /\ events \in [Fills -> Nat]
    /\ jobs \in SUBSET Fills
    /\ ckpt \in Nat /\ paused \in BOOLEAN /\ faults \in Nat

(* A revived old leader never writes after its successor: every new event    *)
(* carries a token at least as high as all earlier ones ("only the current   *)
(* lease/fencing token may persist master events").                          *)
TokensNeverRegress ==
    [][\A i \in Fills : events'[i] # events[i] =>
          \A k \in Fills : events[k] <= events'[i]]_vars

(* The checkpoint is never ahead of the event log: every fill before it has  *)
(* its MasterEvent, so a replay that starts there misses nothing.            *)
CheckpointCoversAll ==
    \A i \in DOMAIN times : times[i] < ckpt => events[i] # 0

(* A replay that ends without raising has persisted every fill that existed  *)
(* when it began ("Persist every missed master fill").                       *)
ReplayComplete ==
    \A w \in Watchers : wt[w].pc = "subscribe" =>
        \A i \in 1..wt[w].start : events[i] # 0

(* Every master fill finally has its MasterEvent, whoever leads.             *)
FillsPersisted == \A i \in Fills : (i \in DOMAIN times) ~> (events[i] # 0)
=============================================================================
