--------------------------- MODULE LeverageRecovery ---------------------------
(***************************************************************************)
(* Recovery from missing master leverage (HF-006) for one follower and one *)
(* asset: an intent that may not raise exposure without the master's       *)
(* leverage leaves a marker in Redis, a RECONCILE job that carries it is   *)
(* the repair. Marks and repairs are made by different processes, over a   *)
(* Redis that may be away and answers that may be lost, and are ordered by *)
(* the causal counter of PostgreSQL. Jobs are named by their causal order: *)
(* the intent's, or the one taken before the repair's master snapshot.     *)
(***************************************************************************)
EXTENDS Integers, FiniteSets

CONSTANTS
    MaxOrder,       \* bound: causal orders allocated
    MaxAttempts,    \* MAX_JOB_RETRIES
    MaxFaults       \* bound: Redis outages, lost answers and crashes

VARIABLES
    clock,          \* the causal counter in system_flags
    job,            \* CopyJob rows by causal order
    rec,            \* order taken by the running reconciliation, 0 for none
    stream,         \* jobs with an entry in the Redis stream
    up,             \* Redis answers
    marks,          \* Redis keys of this member and their counters
    registered,     \* history: intents whose registration script ran
    wk,             \* the execution worker
    faults

vars == <<clock, job, rec, stream, up, marks, registered, wk, faults>>

Orders == 1..MaxOrder
Queued == {"QUEUED", "RETRYING"}
Ended  == {"DONE", "SKIPPED", "DEAD"}
NoJob  == [kind |-> "none", state |-> "none", att |-> 0, pend |-> FALSE]
NoTask == [pc |-> "idle", j |-> 1]

Init ==
    /\ clock = 0 /\ rec = 0 /\ stream = {} /\ up = TRUE
    /\ job = [o \in Orders |-> NoJob]
    /\ marks = [started |-> FALSE, latest |-> 0, repaired |-> 0, missing |-> 0, recovered |-> 0]
    /\ registered = {} /\ wk = NoTask /\ faults = 0

Fault == faults < MaxFaults /\ faults' = faults + 1

-----------------------------------------------------------------------------
(* The Lua scripts *)

(* Mutant: registration does not look at the repair watermark. *)
Covered_Never(o) == FALSE

(* A repair at least as recent as the intent was recorded already. *)
Covered(o) == marks.repaired >= o

RegisterMissing(o) ==
    IF Covered(o) THEN marks
    ELSE [marks EXCEPT !.started = TRUE,
                       !.latest  = IF o > @ THEN o ELSE @,
                       !.missing = IF marks.started THEN @ ELSE @ + 1]

Closes(o) == marks.started /\ o >= marks.latest

RecordRepair(o) ==
    LET seen == [marks EXCEPT !.repaired = IF o > @ THEN o ELSE @]
    IN IF Closes(o) THEN [seen EXCEPT !.started = FALSE, !.latest = 0, !.recovered = @ + 1]
       ELSE seen

-----------------------------------------------------------------------------
(* Producers *)

(* next_master_leverage_causal_order for an intent without leverage. *)
NewIntent ==
    /\ clock < MaxOrder
    /\ clock' = clock + 1
    /\ job' = [job EXCEPT ![clock + 1] = [NoJob EXCEPT !.kind = "intent", !.state = "QUEUED"]]
    /\ UNCHANGED <<rec, stream, up, marks, registered, wk, faults>>

(* The reconciler takes its order before it reads the master. *)
SnapshotStart ==
    /\ rec = 0 /\ clock < MaxOrder
    /\ clock' = clock + 1 /\ rec' = clock + 1
    /\ UNCHANGED <<job, stream, up, marks, registered, wk, faults>>

(* The job it creates carries the master's leverage, or that it is flat. *)
NewRepair ==
    /\ rec # 0
    /\ job' = [job EXCEPT ![rec] = [NoJob EXCEPT !.kind = "repair", !.state = "QUEUED"]]
    /\ rec' = 0
    /\ UNCHANGED <<clock, stream, up, marks, registered, wk, faults>>

(* The strategy job is superseded by a newer one or expired. *)
Supersede(o) ==
    /\ job[o].state \in Queued
    /\ job' = [job EXCEPT ![o].state = "SKIPPED"]
    /\ UNCHANGED <<clock, rec, stream, up, marks, registered, wk, faults>>

-----------------------------------------------------------------------------
(* Maintenance: repair_stream *)

(* Never published, or so long ago that it is published again: enqueued_at   *)
(* only delays that.                                                         *)
Publishable(o) == job[o].state \in Queued /\ up

Booked(o) == IF job[o].kind = "repair" THEN RecordRepair(o) ELSE marks

(* Stream entry, watermark, marker and counters move in one script; the      *)
(* obligation of an earlier fallback is discharged with the same commit.     *)
PublishJob(o) ==
    /\ Publishable(o)
    /\ stream' = stream \cup {o} /\ marks' = Booked(o)
    /\ job' = [job EXCEPT ![o].pend = FALSE]
    /\ UNCHANGED <<clock, rec, up, registered, wk, faults>>

(* The script ran, its answer or the commit was lost: published again later. *)
PublishLost(o) ==
    /\ Publishable(o) /\ Fault
    /\ stream' = stream \cup {o} /\ marks' = Booked(o)
    /\ UNCHANGED <<clock, job, rec, up, registered, wk>>

(* Mutant: only a finished repair is replayed, a skipped one is forgotten. *)
Replayable_Done(o) == job[o].pend /\ job[o].state = "DONE"

(* A repair that a fallback worker brought to its end without Redis. *)
Replayable(o) == job[o].pend /\ job[o].state \in {"DONE", "SKIPPED"}

ReplayRepair(o) ==
    /\ Replayable(o) /\ up
    /\ marks' = RecordRepair(o)
    /\ job' = [job EXCEPT ![o].pend = FALSE]
    /\ UNCHANGED <<clock, rec, stream, up, registered, wk, faults>>

ReplayLost(o) ==
    /\ Replayable(o) /\ up /\ Fault
    /\ marks' = RecordRepair(o)
    /\ UNCHANGED <<clock, job, rec, stream, up, registered, wk>>

(* Mutant: one attempt too many. *)
Released_Late(o) == IF job[o].att <= MaxAttempts THEN "RETRYING" ELSE "DEAD"

Released(o) == IF job[o].att < MaxAttempts THEN "RETRYING" ELSE "DEAD"

(* The lease ran out, whether or not its worker is still at it. *)
ReleaseStale(o) ==
    /\ job[o].state = "PROCESSING"
    /\ job' = [job EXCEPT ![o].state = Released(o)]
    /\ UNCHANGED <<clock, rec, stream, up, marks, registered, wk, faults>>

-----------------------------------------------------------------------------
(* The execution worker *)

(* A stream entry is a hint; entries of ended jobs are acknowledged.         *)
Consume(o) ==
    /\ wk.pc = "idle" /\ up /\ o \in stream
    /\ stream' = stream \ {o}
    /\ wk' = IF job[o].state \in Queued THEN [pc |-> "claim", j |-> o] ELSE NoTask
    /\ UNCHANGED <<clock, job, rec, up, marks, registered, faults>>

(* The durable queue: a repair is marked as to be accounted before it runs.  *)
Fallback(o) ==
    /\ wk.pc = "idle" /\ job[o].state \in Queued
    /\ job' = [job EXCEPT ![o].pend = @ \/ job[o].kind = "repair"]
    /\ wk' = [pc |-> "claim", j |-> o]
    /\ UNCHANGED <<clock, rec, stream, up, marks, registered, faults>>

Claim ==
    /\ wk.pc = "claim"
    /\ IF job[wk.j].state \in Queued
       THEN /\ job' = [job EXCEPT ![wk.j].state = "PROCESSING", ![wk.j].att = @ + 1]
            /\ wk' = [wk EXCEPT !.pc = "run"]
       ELSE wk' = NoTask /\ UNCHANGED job
    /\ UNCHANGED <<clock, rec, stream, up, marks, registered, faults>>

(* The order path (module CopyExecution) ends or delays the job. *)
Run ==
    /\ wk.pc = "run"
    /\ \E s \in {"DONE", "SKIPPED", Released(wk.j)} :
          job' = [job EXCEPT ![wk.j].state = s]
    /\ wk' = NoTask
    /\ UNCHANGED <<clock, rec, stream, up, marks, registered, faults>>

(* Master leverage unavailable: fail closed, then register the outage. *)
RunBlocked ==
    /\ wk.pc = "run" /\ job[wk.j].kind = "intent"
    /\ job' = [job EXCEPT ![wk.j].state = Released(wk.j)]
    /\ wk' = [wk EXCEPT !.pc = "register"]
    /\ UNCHANGED <<clock, rec, stream, up, marks, registered, faults>>

(* Without Redis the registration is dropped; the next attempt makes it. *)
Register ==
    /\ wk.pc = "register"
    /\ IF up THEN marks' = RegisterMissing(wk.j) /\ registered' = registered \cup {wk.j}
             ELSE UNCHANGED <<marks, registered>>
    /\ wk' = NoTask
    /\ UNCHANGED <<clock, job, rec, stream, up, faults>>

Crash ==
    /\ wk.pc # "idle" /\ Fault
    /\ wk' = NoTask
    /\ UNCHANGED <<clock, job, rec, stream, up, marks, registered>>

-----------------------------------------------------------------------------
RedisDown ==
    /\ up /\ Fault
    /\ up' = FALSE
    /\ UNCHANGED <<clock, job, rec, stream, marks, registered, wk>>

RedisUp ==
    /\ ~up
    /\ up' = TRUE
    /\ UNCHANGED <<clock, job, rec, stream, marks, registered, wk, faults>>

Next ==
    \/ NewIntent \/ SnapshotStart \/ NewRepair
    \/ \E o \in Orders :
          \/ Supersede(o) \/ PublishJob(o) \/ PublishLost(o) \/ ReplayRepair(o) \/ ReplayLost(o)
          \/ ReleaseStale(o) \/ Consume(o) \/ Fallback(o)
    \/ Claim \/ Run \/ RunBlocked \/ Register \/ Crash
    \/ RedisDown \/ RedisUp

(* Maintenance runs for ever and an outage of Redis ends. *)
Fairness == WF_vars(RedisUp) /\ \A o \in Orders : WF_vars(ReplayRepair(o))

Spec == Init /\ [][Next]_vars /\ Fairness

-----------------------------------------------------------------------------
(* Properties *)

(* Types of the rows, the Redis keys and the worker. *)
TypeOK ==
    /\ clock \in 0..MaxOrder /\ rec \in 0..MaxOrder /\ stream \subseteq Orders /\ up \in BOOLEAN
    /\ job \in [Orders -> [kind : {"none", "intent", "repair"},
                           state : {"none", "PROCESSING"} \cup Queued \cup Ended,
                           att : 0..MaxAttempts, pend : BOOLEAN]]
    /\ marks \in [started : BOOLEAN, latest : 0..MaxOrder, repaired : 0..MaxOrder,
                  missing : Nat, recovered : Nat]
    /\ wk \in [pc : {"idle", "claim", "run", "register"}, j : Orders]

(* However marks and repairs are delayed, lost or repeated, the marker is    *)
(* there exactly while some registered intent is newer than every repair, it *)
(* names the newest such intent, and every outage is counted once at its     *)
(* start and once at its end.                                                *)
MarkerExact ==
    LET open == {o \in registered : o > marks.repaired}
    IN /\ marks.started <=> open # {}
       /\ marks.started => marks.latest \in open /\ \A o \in open : o <= marks.latest
       /\ marks.missing = marks.recovered + (IF marks.started THEN 1 ELSE 0)

RepairRan(o) ==
    job[o].kind = "repair" /\ (job[o].state = "DONE" \/ (job[o].pend /\ job[o].state = "SKIPPED"))
Accounted(o) == marks.repaired >= o \/ job[o].state \notin {"DONE", "SKIPPED"}

(* A repair that ran is finally accounted for, also when it went through the *)
(* durable queue while Redis was away: its outage does not stay open (unless *)
(* a worker past its lease reopens the job it had already ended).            *)
RepairAccounted == \A o \in Orders : RepairRan(o) ~> Accounted(o)
-----------------------------------------------------------------------------
(* The inductive invariant behind the marker, and the bounds it holds for.   *)

Bounds == MaxOrder \in Nat \ {0} /\ MaxAttempts \in Nat \ {0}

Rows == [kind : {"none", "intent", "repair"},
         state : {"none", "PROCESSING"} \cup Queued \cup Ended,
         att : 0..MaxAttempts, pend : BOOLEAN]
Keys == [started : BOOLEAN, latest : 0..MaxOrder, repaired : 0..MaxOrder,
         missing : Nat, recovered : Nat]
Tasks == [pc : {"idle", "claim", "run", "register"}, j : Orders]

(* A job waits for a worker only while it has an attempt left.               *)
AttemptsLeft == \A o \in Orders : job[o].state \in Queued => job[o].att < MaxAttempts

RowInv  == job \in [Orders -> Rows] /\ AttemptsLeft
TaskInv == /\ clock \in 0..MaxOrder /\ rec \in 0..MaxOrder
           /\ stream \subseteq Orders /\ up \in BOOLEAN /\ wk \in Tasks

(* Without a marker the newest open intent is forgotten too.                 *)
MarkInv == /\ marks \in Keys /\ registered \subseteq Orders
           /\ ~marks.started => marks.latest = 0
           /\ MarkerExact

Inv == RowInv /\ TaskInv /\ MarkInv

(* What a step does to one row.                                              *)
RowMoves(o) ==
    \/ job'[o] = job[o]
    \/ \E kind \in {"intent", "repair"} : job'[o] = [NoJob EXCEPT !.kind = kind, !.state = "QUEUED"]
    \/ job'[o] = [job[o] EXCEPT !.pend = FALSE]
    \/ job'[o] = [job[o] EXCEPT !.pend = job[o].pend \/ job[o].kind = "repair"]
    \/ \E s \in {"DONE", "SKIPPED", Released(o)} : job'[o] = [job[o] EXCEPT !.state = s]
    \/ job[o].state \in Queued
       /\ job'[o] = [job[o] EXCEPT !.state = "PROCESSING", !.att = job[o].att + 1]
=============================================================================
