---------------------------- MODULE CopyExecution ----------------------------
(***************************************************************************)
(* The Hyperliquid execution path of HyperCopy for one follower and one    *)
(* market: copy jobs and executions in PostgreSQL, the execution workers   *)
(* that claim jobs and submit IOC orders, the resolver of ambiguous        *)
(* executions, the reconciler that replaces the position ledger by the     *)
(* exchange snapshot, the per-user advisory lock that serialises them, and *)
(* the exchange itself.                                                    *)
(*                                                                         *)
(* Followers are independent (one advisory lock, one ledger row per user   *)
(* and market), so one of each is enough.  Sizes are signed whole lots.    *)
(* The follower's target is the master position in follower lots: sizing   *)
(* keeps the sign and classify() only compares target and current size.    *)
(***************************************************************************)
EXTENDS Integers, FiniteSets, Functions

CONSTANTS
    Workers,        \* execution-worker replicas, one consume() loop each
    NoOne, Resolver, Reconciler,    \* the other owners of the user lock
    MaxJobs,        \* bound: CopyJob rows ever created
    Positions,      \* positions the master may move to
    StartSizes,     \* initial follower position (ledger = exchange)
    Origins,        \* job origins enabled: subset of AllOrigins
    MaxAttempts,    \* settings.MAX_JOB_RETRIES
    MaxMoves,       \* bound: master position changes
    MaxOrder,       \* bound: causal orders the reconciler may allocate
    MaxLockLoss,    \* bound: advisory-lock connections dropped
    MaxManual       \* bound: manual trades of the follower

AllOrigins == {"EVENT", "RECONCILE", "CLOSE_ALL"}

ASSUME ActorsAssumption ==
    /\ Workers \cap {NoOne, Resolver, Reconciler} = {}
    /\ NoOne # Resolver /\ NoOne # Reconciler /\ Resolver # Reconciler
ASSUME JobsAssumption == MaxJobs \in Nat /\ MaxAttempts \in Nat \ {0}
ASSUME PositionsAssumption == Positions \subseteq Int /\ StartSizes \subseteq Int
ASSUME OriginsAssumption == Origins \subseteq AllOrigins
ASSUME BoundsAssumption == /\ MaxMoves \in Nat /\ MaxOrder \in Nat
                           /\ MaxLockLoss \in Nat /\ MaxManual \in Nat

Jobs  == 1..MaxJobs
Kinds == {"c", "o"}             \* attempt_kind: close leg, open leg
Execs == Jobs \X Kinds          \* unique (copy_job_id, attempt_kind)

NoExec == <<0, "o">>            \* NULL execution id: job ids start at 1

ClaimableStates   == {"QUEUED", "RETRYING"}
ActiveJobStates   == ClaimableStates \cup {"PROCESSING"}
TerminalJobStates == {"DONE", "SKIPPED", "DEAD"}
JobStates         == {"none"} \cup ActiveJobStates \cup TerminalJobStates

UnresolvedStates   == {"SUBMITTING", "UNKNOWN"}
TerminalExecStates == {"FILLED", "REJECTED", "CANCELED", "QUARANTINED"}
ExecStates         == {"none"} \cup UnresolvedStates \cup TerminalExecStates

PCs     == {"idle", "lockwait", "plan", "leg", "insert", "send", "authorized",
            "await", "apply", "finish"}
Results == {"DONE", "SKIPPED", "DEAD", "RETRY"}

VARIABLES
    jobState, jobOwner, jobAttempts, intent, hinted,   \* copy_jobs, stream hints
    execState, execLeg, execFill, execApplied,         \* executions
    ledger, lock,                                      \* position_ledger, lock
    pc, wk,                                            \* workers
    res, rec,                                          \* resolver, reconciler
    pos, order, xfill, sent,                           \* exchange
    master, moved, moves, causal, paused,              \* master, orders, copy_state
    lockLosses, manuals, counted                       \* fault counters, ghost

jobVars  == <<jobState, jobOwner, jobAttempts, intent, hinted>>
execVars == <<execState, execLeg, execFill, execApplied>>
exchVars == <<pos, order, xfill, sent>>
srcVars  == <<master, moved, moves, causal, paused>>
ghosts   == <<lockLosses, manuals>>
vars == <<jobVars, execVars, ledger, lock, pc, wk, res, rec, exchVars, srcVars,
          ghosts, counted>>

-----------------------------------------------------------------------------
(* Records *)

NoIntent == [origin |-> "EVENT", order |-> 0, target |-> 0, safe |-> FALSE]
NoLeg    == [delta |-> 0, reduceOnly |-> FALSE, before |-> 0, last |-> NoExec]
NoWork   == [job |-> 0, att |-> 0, led |-> [size |-> 0, last |-> NoExec, verified |-> {}],
             kind |-> "o", leg |-> NoLeg, more |-> FALSE, result |-> "DONE"]
ResIdle  == [pc |-> "idle", exec |-> NoExec, out |-> "UNKNOWN", job |-> "none",
             snap |-> 0, seen |-> {}]
RecIdle  == [pc |-> "idle", order |-> 0, mpos |-> 0, snap |-> 0, seen |-> {}]

Intents == [origin : AllOrigins, order : Nat, target : Int, safe : BOOLEAN]
Legs    == [delta : Int, reduceOnly : BOOLEAN, before : Int, last : Execs \cup {NoExec}]
Ledgers == [size : Int, last : Execs \cup {NoExec}, verified : SUBSET Execs]
Works   == [job : Jobs \cup {0}, att : Nat, led : Ledgers, kind : Kinds, leg : Legs,
            more : BOOLEAN, result : Results]
Resolutions == [pc : {"idle", "queried", "snapped"}, exec : Execs \cup {NoExec},
                out : {"UNKNOWN", "FILLED", "CANCELED", "REJECTED"}, job : JobStates,
                snap : Int, seen : SUBSET Execs]
Reconciliations == [pc : {"idle", "started", "master", "held"}, order : Nat, mpos : Int,
                    snap : Int, seen : SUBSET Execs]
OrderStates == {"none", "wire", "filled", "rejected", "lost"}

-----------------------------------------------------------------------------
(* Sizing: classify() and the close-then-open split of a reversal *)

Abs(n) == IF n < 0 THEN -n ELSE n

Reversing(cur, tgt) == cur # 0 /\ tgt # 0 /\ (cur > 0) # (tgt > 0)

ReduceOnly(cur, tgt) ==
    cur # 0 /\ (Reversing(cur, tgt) \/ Abs(tgt) < Abs(cur))

(* Sizes risk.evaluate() may leave of a planned delta: a reducing leg passes *)
(* whole, an increasing one may be trimmed.                                  *)
Trimmed(delta) == IF delta > 0 THEN 1..delta ELSE delta..(-1)

(* Mutant: every reduction closes the whole position. *)
PrimaryDeltas_CloseAll(cur, tgt) ==
    IF ReduceOnly(cur, tgt) THEN {-cur} ELSE Trimmed(tgt - cur)

PrimaryDeltas(cur, tgt) ==
    IF Reversing(cur, tgt) THEN {-cur}
    ELSE IF ReduceOnly(cur, tgt) THEN {tgt - cur}
    ELSE Trimmed(tgt - cur)

(* _safe_ambiguity_reduction: keep the side, only shrink. *)
SafeReduction(real, tgt) ==
    /\ real # 0 /\ Abs(tgt) < Abs(real)
    /\ tgt = 0 \/ (real > 0) = (tgt > 0)

-----------------------------------------------------------------------------
(* Queries on the state *)

ExecOf(w)   == <<wk[w].job, wk[w].kind>>
Unresolved(e) == execState[e] \in UnresolvedStates
Created(j)  == jobState[j] # "none"
NextJob(j)  == ~Created(j) /\ \A k \in Jobs : k < j => Created(k)
Strategy(j) == intent[j].origin \in {"EVENT", "RECONCILE"}

(* _newer_intent_reason: a strategy row in any state with a higher order. *)
NewerIntent(j) == \E k \in Jobs : /\ Created(k) /\ Strategy(k)
                                  /\ intent[k].order > intent[j].order

Landed == {e \in Execs : order[e] = "filled"}

(* The order answered `filled' is completely filled; a partially filled IOC  *)
(* whose rest was cancelled is reported as a terminal cancel (external).     *)
FullyFilled(e) == order[e] = "filled" /\ xfill[e] = execLeg[e].delta

(* _resolve_cloid: the read may fail or lag, so UNKNOWN is always possible.  *)
QueryOutcomes(e) ==
    {"UNKNOWN"} \cup (IF FullyFilled(e) THEN {"FILLED"}
                      ELSE IF order[e] = "filled" THEN {"CANCELED"}
                      ELSE IF order[e] = "rejected" THEN {"REJECTED"} ELSE {})

TerminalExecs == {e \in Execs : execState[e] \in TerminalExecStates}

(* Mutant: the advisory lock is taken without waiting for its holder. *)
LockFree_Always == TRUE

LockFree == lock = NoOne

Unlock(a) == IF lock = a THEN NoOne ELSE lock

-----------------------------------------------------------------------------
Init ==
    /\ jobState = [j \in Jobs |-> "none"]
    /\ jobOwner = [j \in Jobs |-> NoOne]
    /\ jobAttempts = [j \in Jobs |-> 0]
    /\ intent = [j \in Jobs |-> NoIntent]
    /\ hinted = {}
    /\ execState = [e \in Execs |-> "none"]
    /\ execLeg = [e \in Execs |-> NoLeg]
    /\ execFill = [e \in Execs |-> 0]
    /\ execApplied = {}
    /\ pos \in StartSizes
    /\ ledger = [size |-> pos, last |-> NoExec, verified |-> {}]
    /\ lock = NoOne
    /\ pc = [w \in Workers |-> "idle"]
    /\ wk = [w \in Workers |-> NoWork]
    /\ res = ResIdle
    /\ rec = RecIdle
    /\ order = [e \in Execs |-> "none"]
    /\ xfill = [e \in Execs |-> 0]
    /\ sent = [e \in Execs |-> 0]
    /\ master = pos
    /\ moved = FALSE
    /\ moves = 0
    /\ causal = 0
    /\ paused = FALSE
    /\ lockLosses = 0
    /\ manuals = 0
    /\ counted = [e \in Execs |-> 0]

-----------------------------------------------------------------------------
(* Sources of jobs *)

MasterMove(p) ==
    /\ moves < MaxMoves /\ p # master
    /\ master' = p /\ moved' = TRUE /\ moves' = moves + 1
    /\ UNCHANGED <<jobVars, execVars, ledger, lock, pc, wk, res, rec, exchVars,
                   causal, paused, ghosts, counted>>

CreateJob(j, it) ==
    /\ NextJob(j)
    /\ jobState' = [jobState EXCEPT ![j] = "QUEUED"]
    /\ intent' = [intent EXCEPT ![j] = it]

(* persist_master_fill_and_jobs: one EVENT job per follower that is copying. *)
MasterFill(j) ==
    /\ "EVENT" \in Origins /\ moved /\ ~paused
    /\ CreateJob(j, [origin |-> "EVENT", order |-> causal + 1, target |-> master,
                     safe |-> FALSE])
    /\ causal' = causal + 1
    /\ moved' = FALSE
    /\ UNCHANGED <<jobOwner, jobAttempts, hinted, execVars, ledger, lock, pc, wk,
                   res, rec, exchVars, master, moves, paused, ghosts, counted>>

CloseAllPending ==
    \E k \in Jobs : intent[k].origin = "CLOSE_ALL" /\ jobState[k] \in ActiveJobStates

(* close_positions: pause copying and, unless one is pending, queue a job    *)
(* with target zero for the open managed market.  Publishing it follows the  *)
(* commit and may fail (deferred_enqueue): Publish.                          *)
ClosePositions(j) ==
    /\ "CLOSE_ALL" \in Origins /\ ledger.size # 0 /\ ~CloseAllPending
    /\ CreateJob(j, [origin |-> "CLOSE_ALL", order |-> 0, target |-> 0, safe |-> FALSE])
    /\ paused' = TRUE
    /\ UNCHANGED <<jobOwner, jobAttempts, hinted, execVars, ledger, lock, pc, wk, res,
                   rec, exchVars, master, moved, moves, causal, ghosts, counted>>

(* close_positions with nothing to close still pauses copying. *)
CloseNothing ==
    /\ "CLOSE_ALL" \in Origins /\ (ledger.size = 0 \/ CloseAllPending)
    /\ ~paused /\ paused' = TRUE
    /\ UNCHANGED <<jobVars, execVars, ledger, lock, pc, wk, res, rec, exchVars,
                   master, moved, moves, causal, ghosts, counted>>

-----------------------------------------------------------------------------
(* Queue maintenance *)

(* publish_job / repair_stream / _next_database_job_id: coalesce the         *)
(* follower's strategy jobs, then hint the job to the workers.  Hints are    *)
(* never withdrawn: a stale stream entry can still be delivered.             *)
Publish(j) ==
    /\ jobState[j] \in ClaimableStates
    /\ IF Strategy(j) /\ NewerIntent(j)
       THEN /\ jobState' = [jobState EXCEPT ![j] = "SKIPPED"]
            /\ UNCHANGED hinted
       ELSE /\ jobState' = [k \in Jobs |->
                 IF /\ Strategy(j) /\ Strategy(k) /\ jobState[k] \in ClaimableStates
                    /\ intent[k].order < intent[j].order
                 THEN "SKIPPED" ELSE jobState[k]]
            /\ hinted' = hinted \cup {j}
    /\ jobOwner' = [k \in Jobs |-> IF jobState'[k] = "SKIPPED" /\ jobState[k] # "SKIPPED"
                                   THEN NoOne ELSE jobOwner[k]]
    /\ UNCHANGED <<jobAttempts, intent, execVars, ledger, lock, pc, wk, res, rec,
                   exchVars, srcVars, ghosts, counted>>

(* expire_stale_strategy_jobs: a Hyperliquid job expires even when one of    *)
(* its executions is unresolved.  The age is abstracted: any time.           *)
ExpireStrategyJob(j) ==
    /\ jobState[j] \in ClaimableStates /\ Strategy(j)
    /\ jobState' = [jobState EXCEPT ![j] = "SKIPPED"]
    /\ jobOwner' = [jobOwner EXCEPT ![j] = NoOne]
    /\ UNCHANGED <<jobAttempts, intent, hinted, execVars, ledger, lock, pc, wk, res,
                   rec, exchVars, srcVars, ghosts, counted>>

(* Mutant: a job out of attempts is left for ever in PROCESSING. *)
Released_Stuck(j) == IF jobAttempts[j] < MaxAttempts THEN "RETRYING" ELSE "PROCESSING"

(* Mutant: a state the job_state enumeration does not have. *)
Released_Failed(j) == IF jobAttempts[j] < MaxAttempts THEN "RETRYING" ELSE "FAILED"

Released(j) == IF jobAttempts[j] < MaxAttempts THEN "RETRYING" ELSE "DEAD"

(* release_stale_jobs.  The lease is a timeout of a worker of unknown speed: *)
(* it may have run out whenever the job is PROCESSING.                       *)
ReleaseStale(j) ==
    /\ jobState[j] = "PROCESSING"
    /\ jobState' = [jobState EXCEPT ![j] = Released(j)]
    /\ jobOwner' = [jobOwner EXCEPT ![j] = NoOne]
    /\ UNCHANGED <<jobAttempts, intent, hinted, execVars, ledger, lock, pc, wk, res,
                   rec, exchVars, srcVars, ghosts, counted>>

-----------------------------------------------------------------------------
(* Execution worker: handle_job_id -> process_job -> _process_job_locked *)

(* claim_job *)
Claim(w, j) ==
    /\ pc[w] = "idle" /\ j \in hinted /\ jobState[j] \in ClaimableStates
    /\ jobState' = [jobState EXCEPT ![j] = "PROCESSING"]
    /\ jobOwner' = [jobOwner EXCEPT ![j] = w]
    /\ jobAttempts' = [jobAttempts EXCEPT ![j] = @ + 1]
    /\ pc' = [pc EXCEPT ![w] = "lockwait"]
    /\ wk' = [wk EXCEPT ![w] = [NoWork EXCEPT !.job = j]]
    /\ UNCHANGED <<intent, hinted, execVars, ledger, lock, res, rec, exchVars, srcVars,
                   ghosts, counted>>

StillOwner(w) == jobState[wk[w].job] = "PROCESSING" /\ jobOwner[wk[w].job] = w

(* position_ledger_lock, then _renew_job_lease_after_lock re-reads the row.  *)
AcquireLock(w) ==
    /\ pc[w] = "lockwait" /\ LockFree /\ StillOwner(w)
    /\ lock' = w
    /\ pc' = [pc EXCEPT ![w] = "plan"]
    /\ wk' = [wk EXCEPT ![w].att = jobAttempts[wk[w].job]]
    /\ UNCHANGED <<jobVars, execVars, ledger, res, rec, exchVars, srcVars, ghosts, counted>>

(* The claim was lost during the lock wait: leave the row alone. *)
ClaimLost(w) ==
    /\ pc[w] = "lockwait" /\ LockFree /\ ~StillOwner(w)
    /\ pc' = [pc EXCEPT ![w] = "idle"]
    /\ wk' = [wk EXCEPT ![w] = NoWork]
    /\ UNCHANGED <<jobVars, execVars, ledger, lock, res, rec, exchVars, srcVars, ghosts,
                   counted>>

GoFinish(w, result) ==
    /\ pc' = [pc EXCEPT ![w] = "finish"]
    /\ wk' = [wk EXCEPT ![w].result = result]

(* Every early return before an order: missing user, destination or network  *)
(* mismatch, missing data, anti-reopen fence, SHADOW, risk denial, gates,    *)
(* failed leverage update, leverage-only jobs.                               *)
Decline(w) ==
    /\ pc[w] = "plan"
    /\ \E r \in Results : GoFinish(w, r)
    /\ UNCHANGED <<jobVars, execVars, ledger, lock, res, rec, exchVars, srcVars, ghosts,
                   counted>>

(* The ledger row is read once and kept in memory until the job ends.  `more' *)
(* is the secondary leg of a reversal, which the risk engine may suppress; a *)
(* paused user and an ambiguity-safe reduction (_ambiguity_reduction_plan_   *)
(* safe) admit only reductions without one.                                  *)
Plan(w) ==
    LET j   == wk[w].job
        cur == ledger.size
        tgt == intent[j].target
    IN  /\ pc[w] = "plan" /\ tgt # cur
        /\ paused \/ intent[j].safe => ReduceOnly(cur, tgt)
        /\ \E d \in PrimaryDeltas(cur, tgt), more \in BOOLEAN :
              /\ more => Reversing(cur, tgt) /\ ~paused /\ ~intent[j].safe
              /\ wk' = [wk EXCEPT ![w].led = ledger,
                                  ![w].kind = IF Reversing(cur, tgt) THEN "c" ELSE "o",
                                  ![w].leg = [delta |-> d, reduceOnly |-> ReduceOnly(cur, tgt),
                                              before |-> cur, last |-> ledger.last],
                                  ![w].more = more]
        /\ pc' = [pc EXCEPT ![w] = "leg"]
        /\ UNCHANGED <<jobVars, execVars, ledger, lock, res, rec, exchVars, srcVars, ghosts,
                       counted>>

(* What a leg's outcome leads to: apply the fill, retry, or stop. *)
Dispatch(w, out) ==
    IF out = "FILLED" THEN /\ pc' = [pc EXCEPT ![w] = "apply"]
                           /\ UNCHANGED wk
    ELSE GoFinish(w, IF out = "UNKNOWN" THEN "RETRY" ELSE "SKIPPED")

(* _persist_outcome *)
PersistOutcome(e, out, filled) ==
    /\ execState' = [execState EXCEPT ![e] = out]
    /\ execFill' = [execFill EXCEPT ![e] = filled]
    /\ UNCHANGED <<execLeg, execApplied>>

(* Mutant: a row left UNKNOWN by a failed submission is submitted again. *)
NoRow_Resubmit(e) == execState[e] \in {"none", "UNKNOWN"}

NoRow(e) == execState[e] = "none"

(* _execute_leg, no Execution row yet. *)
LegFresh(w) ==
    /\ pc[w] = "leg" /\ NoRow(ExecOf(w))
    /\ pc' = [pc EXCEPT ![w] = "insert"]
    /\ UNCHANGED <<jobVars, execVars, ledger, lock, wk, res, rec, exchVars, srcVars, ghosts,
                   counted>>

(* _execute_leg, the row is terminal: its stored outcome is the answer. *)
LegStored(w) ==
    /\ pc[w] = "leg" /\ execState[ExecOf(w)] \in TerminalExecStates
    /\ Dispatch(w, execState[ExecOf(w)])
    /\ UNCHANGED <<jobVars, execVars, ledger, lock, res, rec, exchVars, srcVars, ghosts,
                   counted>>

(* _execute_leg, the row is unresolved: query the cloid, never resubmit. *)
LegResolve(w) ==
    LET e == ExecOf(w) IN
    /\ pc[w] = "leg" /\ Unresolved(e)
    /\ \E out \in QueryOutcomes(e) :
          /\ IF out = "UNKNOWN" THEN UNCHANGED execVars
             ELSE PersistOutcome(e, out, IF out = "FILLED" THEN execLeg[e].delta ELSE 0)
          /\ Dispatch(w, out)
    /\ UNCHANGED <<jobVars, ledger, lock, res, rec, exchVars, srcVars, ghosts, counted>>

(* INSERT Execution(SUBMITTING) and COMMIT, before any external effect. *)
InsertExecution(w) ==
    LET e == ExecOf(w) IN
    /\ pc[w] = "insert" /\ NoRow(e)
    /\ execState' = [execState EXCEPT ![e] = "SUBMITTING"]
    /\ execLeg' = [execLeg EXCEPT ![e] = wk[w].leg]
    /\ pc' = [pc EXCEPT ![w] = "send"]
    /\ UNCHANGED <<jobVars, execFill, execApplied, ledger, lock, wk, res, rec, exchVars,
                   srcVars, ghosts, counted>>

(* The unique constraint refuses a second row: the exception leaves the job  *)
(* PROCESSING for release_stale_jobs.                                        *)
InsertConflict(w) ==
    /\ pc[w] = "insert" /\ ~NoRow(ExecOf(w))
    /\ pc' = [pc EXCEPT ![w] = "idle"]
    /\ wk' = [wk EXCEPT ![w] = NoWork]
    /\ lock' = Unlock(w)
    /\ UNCHANGED <<jobVars, execVars, ledger, res, rec, exchVars, srcVars, ghosts, counted>>

(* The last awaited authorization: newest intent and unmoved master. *)
Authorize(w) ==
    LET j == wk[w].job IN
    /\ pc[w] = "send"
    /\ Strategy(j) => ~NewerIntent(j) /\ master = intent[j].target
    /\ pc' = [pc EXCEPT ![w] = "authorized"]
    /\ UNCHANGED <<jobVars, execVars, ledger, lock, wk, res, rec, exchVars, srcVars, ghosts,
                   counted>>

(* Authorization refused or unavailable, or the mainnet writer fence: a      *)
(* definitive local cancellation, nothing was sent.                          *)
PreSubmitCancel(w) ==
    /\ pc[w] \in {"send", "authorized"}
    /\ PersistOutcome(ExecOf(w), "CANCELED", 0)
    /\ Dispatch(w, "CANCELED")
    /\ UNCHANGED <<jobVars, ledger, lock, res, rec, exchVars, srcVars, ghosts, counted>>

(* The SDK call leaves the process. *)
Submit(w) ==
    LET e == ExecOf(w) IN
    /\ pc[w] = "authorized"
    /\ sent' = [sent EXCEPT ![e] = @ + 1]
    /\ order' = [order EXCEPT ![e] = "wire"]
    /\ pc' = [pc EXCEPT ![w] = "await"]
    /\ UNCHANGED <<jobVars, execVars, ledger, lock, wk, res, rec, pos, xfill, srcVars, ghosts,
                   counted>>

(* Any exception around the submission, sent or not: UNKNOWN. *)
SubmitAmbiguous(w) ==
    /\ pc[w] \in {"send", "await"}
    /\ PersistOutcome(ExecOf(w), "UNKNOWN", 0)
    /\ Dispatch(w, "UNKNOWN")
    /\ UNCHANGED <<jobVars, ledger, lock, res, rec, exchVars, srcVars, ghosts, counted>>

(* Mutant: the requested size is recorded, as if every IOC filled whole. *)
TotalSz_Requested(e) == IF order[e] = "filled" THEN execLeg[e].delta ELSE 0

TotalSz(e) == xfill[e]

(* parse_order_response on the exchange's answer; totalSz is the real fill. *)
Response(w) ==
    LET e == ExecOf(w) IN
    /\ pc[w] = "await" /\ order[e] \in {"filled", "rejected"}
    /\ LET out == IF order[e] = "filled" THEN "FILLED" ELSE "REJECTED"
       IN  PersistOutcome(e, out, TotalSz(e)) /\ Dispatch(w, out)
    /\ UNCHANGED <<jobVars, ledger, lock, res, rec, exchVars, srcVars, ghosts, counted>>

(* Mutant: the size alone is taken as proof that the fill is contained. *)
Reflected_BySize(e, led) ==
    led.size \in {execLeg[e].before, execLeg[e].before + execFill[e]}

(* last_verified_at >= resolved_at: a snapshot taken after the outcome. *)
Reflected(e, led) ==
    /\ e \in led.verified
    /\ led.size \in {execLeg[e].before, execLeg[e].before + execFill[e]}

(* _apply_fill_to_ledger: how a durable fill relates to the ledger row `led'. *)
ApplyMode(e, led) ==
    LET leg == execLeg[e]
    IN  CASE e \in execApplied -> "done"
          [] e \notin execApplied /\ led.last = e -> "reflected"
          [] e \notin execApplied /\ led.last # e /\ led.last # leg.last -> "deferred"
          [] OTHER -> IF Reflected(e, led) THEN "reflected"
                      ELSE IF led.size = leg.before THEN "applied" ELSE "deferred"

(* Mutant: any fill of the close leg counts as a flat position. *)
Flattened_AnyFill(fill, delta, size) == fill # 0

(* close_leg_flattened *)
Flattened(fill, delta, size) == Abs(fill) >= Abs(delta) /\ size = 0

(* Ledger change and applied marker are one transaction.  After the close    *)
(* leg of a reversal, close_leg_flattened() decides whether the open leg     *)
(* follows or is abandoned to a later reconciliation.                        *)
ApplyFill(w) ==
    LET e    == ExecOf(w)
        led  == wk[w].led
        mode == ApplyMode(e, led)
        size == IF mode = "applied" THEN execLeg[e].before + execFill[e] ELSE led.size
        new  == IF mode = "done" THEN led ELSE [led EXCEPT !.size = size, !.last = e]
        flat == Flattened(execFill[e], wk[w].leg.delta, size)
    IN  /\ pc[w] = "apply" /\ mode # "deferred"
        /\ IF mode = "done" THEN UNCHANGED <<ledger, execApplied, counted>>
           ELSE /\ ledger' = [ledger EXCEPT !.size = IF mode = "applied" THEN size ELSE @,
                                            !.last = e]
                /\ execApplied' = execApplied \cup {e}
                /\ counted' = [counted EXCEPT ![e] = IF mode = "applied" THEN @ + 1 ELSE @]
        /\ IF wk[w].more /\ wk[w].kind = "c"
           THEN IF flat
                THEN /\ \E d \in Trimmed(intent[wk[w].job].target) :
                          wk' = [wk EXCEPT ![w].led = new, ![w].kind = "o",
                                           ![w].leg = [delta |-> d, reduceOnly |-> FALSE,
                                                       before |-> 0, last |-> new.last]]
                     /\ pc' = [pc EXCEPT ![w] = "leg"]
                ELSE GoFinish(w, "SKIPPED")
           ELSE GoFinish(w, "DONE")
        /\ UNCHANGED <<jobVars, execState, execLeg, execFill, lock, res, rec, exchVars, srcVars,
                       ghosts>>

(* LedgerApplicationDeferred: the fill stays durable, the job retries. *)
ApplyDeferred(w) ==
    /\ pc[w] = "apply" /\ ApplyMode(ExecOf(w), wk[w].led) = "deferred"
    /\ GoFinish(w, "RETRY")
    /\ UNCHANGED <<jobVars, execVars, ledger, lock, res, rec, exchVars, srcVars, ghosts,
                   counted>>

(* _finish, _finish_action_rejection, _retry_or_dead: written by primary key *)
(* from the in-memory row, without checking that the claim is still held.    *)
Finish(w) ==
    LET j == wk[w].job
        r == wk[w].result
    IN  /\ pc[w] = "finish"
        /\ jobState' = [jobState EXCEPT ![j] =
                            IF r # "RETRY" THEN r
                            ELSE IF wk[w].att >= MaxAttempts THEN "DEAD" ELSE "RETRYING"]
        /\ jobOwner' = [jobOwner EXCEPT ![j] = NoOne]
        /\ lock' = Unlock(w)
        /\ pc' = [pc EXCEPT ![w] = "idle"]
        /\ wk' = [wk EXCEPT ![w] = NoWork]
        /\ UNCHANGED <<jobAttempts, intent, hinted, execVars, ledger, res, rec, exchVars,
                       srcVars, ghosts, counted>>

(* Process crash, cancelled task or escaping exception: the advisory lock is *)
(* released, every commit stays.                                             *)
Crash(w) ==
    /\ pc[w] # "idle"
    /\ pc' = [pc EXCEPT ![w] = "idle"]
    /\ wk' = [wk EXCEPT ![w] = NoWork]
    /\ lock' = Unlock(w)
    /\ UNCHANGED <<jobVars, execVars, ledger, res, rec, exchVars, srcVars, ghosts, counted>>

(* The lock's own connection drops; its holder does not notice. *)
LoseLock ==
    /\ lock # NoOne /\ lockLosses < MaxLockLoss
    /\ lock' = NoOne
    /\ lockLosses' = lockLosses + 1
    /\ UNCHANGED <<jobVars, execVars, ledger, pc, wk, res, rec, exchVars, srcVars, manuals,
                   counted>>

-----------------------------------------------------------------------------
(* The exchange (external) *)

(* Fills an order may get: a reduce-only order never passes zero. *)
FillSizes(e) ==
    {f \in Trimmed(execLeg[e].delta) :
        execLeg[e].reduceOnly => (f < 0) = (pos > 0) /\ Abs(f) <= Abs(pos)}

Fill(e) ==
    /\ order[e] = "wire"
    /\ \E f \in FillSizes(e) : pos' = pos + f /\ xfill' = [xfill EXCEPT ![e] = f]
    /\ order' = [order EXCEPT ![e] = "filled"]
    /\ UNCHANGED <<jobVars, execVars, ledger, lock, pc, wk, res, rec, sent, srcVars, ghosts,
                   counted>>

(* Refused by the exchange, or lost on the way until expiresAfter. *)
NotFilled(e) ==
    /\ order[e] = "wire"
    /\ \E s \in {"rejected", "lost"} : order' = [order EXCEPT ![e] = s]
    /\ UNCHANGED <<jobVars, execVars, ledger, lock, pc, wk, res, rec, pos, xfill, sent,
                   srcVars, ghosts, counted>>

ManualTrade ==
    /\ manuals < MaxManual
    /\ \E d \in {-1, 1} : pos' = pos + d
    /\ manuals' = manuals + 1
    /\ UNCHANGED <<jobVars, execVars, ledger, lock, pc, wk, res, rec, order, xfill, sent,
                   srcVars, lockLosses, counted>>

-----------------------------------------------------------------------------
(* Ledger synchronisation from an exchange snapshot *)

SyncLedger(size, last, seen) ==
    /\ ledger' = [size |-> size, last |-> last, verified |-> TerminalExecs]
    /\ counted' = [e \in Execs |-> IF e \in seen THEN 1 ELSE 0]

(* resolve_ambiguous_executions: take the user lock, read the execution and  *)
(* its job, query the cloid.  The job row read here is not read again: the   *)
(* later db.get() answers from the session.                                  *)
ResolveQuery(e) ==
    /\ res.pc = "idle" /\ LockFree /\ Unresolved(e)
    /\ lock' = Resolver
    /\ \E out \in QueryOutcomes(e) :
          res' = [ResIdle EXCEPT !.pc = "queried", !.exec = e, !.out = out,
                                 !.job = jobState[e[1]]]
    /\ UNCHANGED <<jobVars, execVars, ledger, pc, wk, rec, exchVars, srcVars, ghosts, counted>>

(* UNKNOWN_EXECUTION_SLA_SECONDS = 600 is far beyond expiresAfter (15 s): an *)
(* aged order is no longer on its way.                                       *)
Aged(e) == order[e] # "wire"

(* Mutant: an aged execution is quarantined whatever its job does. *)
MayQuarantine_AnyJob(e, job) == Aged(e)

(* Mutant: a dead job is forgotten in the set of terminal states. *)
MayQuarantine_NotDead(e, job) == Aged(e) /\ job \in {"DONE", "SKIPPED"}

MayQuarantine(e, job) == Aged(e) /\ job \in TerminalJobStates

ResolveSnapshot ==
    /\ res.pc = "queried"
    /\ res.out = "FILLED" \/ (res.out = "UNKNOWN" /\ MayQuarantine(res.exec, res.job))
    /\ res' = [res EXCEPT !.pc = "snapped", !.snap = pos, !.seen = Landed]
    /\ UNCHANGED <<jobVars, execVars, ledger, lock, pc, wk, rec, exchVars, srcVars, ghosts,
                   counted>>

(* Without a snapshot a recovered fill counts as UNKNOWN again, and an aged  *)
(* one may still be quarantined with the snapshot read after that.           *)
ResolveUnverified ==
    /\ res.pc = "queried" /\ res.out = "FILLED"
    /\ res' = [res EXCEPT !.out = "UNKNOWN"]
    /\ UNCHANGED <<jobVars, execVars, ledger, lock, pc, wk, rec, exchVars, srcVars, ghosts,
                   counted>>

ResolveNotFilled ==
    /\ res.pc = "queried" /\ res.out \in {"REJECTED", "CANCELED"}
    /\ PersistOutcome(res.exec, res.out, 0)
    /\ lock' = Unlock(Resolver)
    /\ res' = ResIdle
    /\ UNCHANGED <<jobVars, ledger, pc, wk, rec, exchVars, srcVars, ghosts, counted>>

(* A recovered fill lifts the fence only with the snapshot that contains it. *)
ResolveFilled ==
    /\ res.pc = "snapped" /\ res.out = "FILLED"
    /\ SyncLedger(res.snap, res.exec, res.seen)
    /\ PersistOutcome(res.exec, "FILLED", xfill[res.exec])
    /\ lock' = Unlock(Resolver)
    /\ res' = ResIdle
    /\ UNCHANGED <<jobVars, pc, wk, rec, exchVars, srcVars, ghosts>>

Quarantine ==
    /\ res.pc = "snapped" /\ res.out = "UNKNOWN"
    /\ SyncLedger(res.snap, res.exec, res.seen)
    /\ execState' = [execState EXCEPT ![res.exec] = "QUARANTINED"]
    /\ lock' = Unlock(Resolver)
    /\ res' = ResIdle
    /\ UNCHANGED <<jobVars, execLeg, execFill, execApplied, pc, wk, rec, exchVars, srcVars,
                   ghosts>>

(* Too young, job still active, snapshot unavailable, deadline or crash. *)
ResolveSkip ==
    /\ res.pc # "idle"
    /\ lock' = Unlock(Resolver)
    /\ res' = ResIdle
    /\ UNCHANGED <<jobVars, execVars, ledger, pc, wk, rec, exchVars, srcVars, ghosts, counted>>

-----------------------------------------------------------------------------
(* The reconciler *)

(* reconcile_active_users: allocate the causal order, then read the master.  *)
(* Order 0 is the observability refresh, which never creates a job.          *)
ReconcileStart ==
    /\ rec.pc = "idle"
    /\ \/ rec' = [RecIdle EXCEPT !.pc = "started"] /\ UNCHANGED causal
       \/ /\ "RECONCILE" \in Origins /\ causal < MaxOrder
          /\ causal' = causal + 1
          /\ rec' = [RecIdle EXCEPT !.pc = "started", !.order = causal + 1]
    /\ UNCHANGED <<jobVars, execVars, ledger, lock, pc, wk, res, exchVars, master, moved,
                   moves, paused, ghosts, counted>>

ReconcileMaster ==
    /\ rec.pc = "started"
    /\ rec' = [rec EXCEPT !.pc = "master", !.mpos = IF rec.order > 0 THEN master ELSE 0]
    /\ UNCHANGED <<jobVars, execVars, ledger, lock, pc, wk, res, exchVars, srcVars, ghosts,
                   counted>>

(* reconcile_user: the follower snapshot is read under the user lock. *)
ReconcileSnapshot ==
    /\ rec.pc = "master" /\ LockFree
    /\ lock' = Reconciler
    /\ rec' = [rec EXCEPT !.pc = "held", !.snap = pos, !.seen = Landed]
    /\ UNCHANGED <<jobVars, execVars, ledger, pc, wk, res, exchVars, srcVars, ghosts, counted>>

(* Mutant: an unresolved execution does not stop a new target. *)
AmbiguousWith_Never(states) == FALSE

AmbiguousWith(states) == \E e \in Execs : Unresolved(e) /\ jobState[e[1]] \in states

(* The conditions reconcile_observed_follower puts on a new RECONCILE job. *)
MayRetarget(real, tgt) ==
    /\ ~paused /\ tgt # real
    /\ ~AmbiguousWith(ActiveJobStates)
    /\ AmbiguousWith(TerminalJobStates) => SafeReduction(real, tgt)
    /\ \A k \in Jobs : intent[k].origin = "RECONCILE" => jobState[k] \notin ActiveJobStates

ReconcileCommit ==
    /\ rec.pc = "held"
    /\ SyncLedger(rec.snap, ledger.last, rec.seen)
    /\ \/ UNCHANGED <<jobState, intent>>     \* on target, below a threshold, backed off
       \/ \E j \in Jobs :
             /\ rec.order > 0 /\ MayRetarget(rec.snap, rec.mpos)
             /\ CreateJob(j, [origin |-> "RECONCILE", order |-> rec.order, target |-> rec.mpos,
                              safe |-> AmbiguousWith(TerminalJobStates)])
    /\ lock' = Unlock(Reconciler)
    /\ rec' = RecIdle
    /\ UNCHANGED <<jobOwner, jobAttempts, hinted, execVars, pc, wk, res, exchVars, srcVars,
                   ghosts>>

(* Deadline, rate limit, crash, or an exception before anything was written. *)
(* After the ledger was flushed, the except branch marks the run FAILED and  *)
(* commits the rest: that is ReconcileCommit without a job.                  *)
ReconcileAbort ==
    /\ rec.pc # "idle"
    /\ lock' = Unlock(Reconciler)
    /\ rec' = RecIdle
    /\ UNCHANGED <<jobVars, execVars, ledger, pc, wk, res, exchVars, srcVars, ghosts, counted>>

-----------------------------------------------------------------------------
WorkerStep(w) ==
    \/ \E j \in Jobs : Claim(w, j)
    \/ AcquireLock(w) \/ ClaimLost(w)
    \/ Decline(w) \/ Plan(w)
    \/ LegFresh(w) \/ LegStored(w) \/ LegResolve(w)
    \/ InsertExecution(w) \/ InsertConflict(w)
    \/ Authorize(w) \/ PreSubmitCancel(w) \/ Submit(w) \/ SubmitAmbiguous(w) \/ Response(w)
    \/ ApplyFill(w) \/ ApplyDeferred(w) \/ Finish(w)

JobStep(j) ==
    MasterFill(j) \/ ClosePositions(j) \/ Publish(j) \/ ExpireStrategyJob(j) \/ ReleaseStale(j)

ResolverStep ==
    \/ \E e \in Execs : ResolveQuery(e)
    \/ ResolveSnapshot \/ ResolveUnverified
    \/ ResolveNotFilled \/ ResolveFilled \/ Quarantine \/ ResolveSkip

ReconcilerStep ==
    ReconcileStart \/ ReconcileMaster \/ ReconcileSnapshot \/ ReconcileCommit \/ ReconcileAbort

ExchangeStep == (\E e \in Execs : Fill(e) \/ NotFilled(e)) \/ ManualTrade

Next ==
    \/ \E p \in Positions : MasterMove(p)
    \/ CloseNothing
    \/ \E j \in Jobs : JobStep(j)
    \/ \E w \in Workers : WorkerStep(w) \/ Crash(w)
    \/ LoseLock
    \/ ResolverStep
    \/ ReconcilerStep
    \/ ExchangeStep

Spec == Init /\ [][Next]_vars

-----------------------------------------------------------------------------
(* Fairness.  Worker loops keep running and maintenance keeps publishing and *)
(* releasing (WF).  pg_advisory_xact_lock queues its waiters, so whoever     *)
(* waits while the lock is released again and again gets it (SF).  An order  *)
(* leaves the wire by expiresAfter (WF).  Exchange reads of the resolver may *)
(* fail, not for ever (SF); lock holders run under deadlines (WF).  Crashes, *)
(* fills and the reconciler's rounds are owed nothing.                       *)
Fairness ==
    /\ \A w \in Workers : /\ WF_vars(WorkerStep(w))
                          /\ SF_vars(AcquireLock(w) \/ ClaimLost(w))
    /\ \A j \in Jobs : WF_vars(Publish(j)) /\ WF_vars(ReleaseStale(j))
    /\ \A e \in Execs : WF_vars(Fill(e) \/ NotFilled(e)) /\ SF_vars(ResolveQuery(e))
    /\ SF_vars(ResolveSnapshot)
    /\ SF_vars(ResolveNotFilled \/ ResolveFilled \/ Quarantine)
    /\ WF_vars(ResolveSkip)
    /\ WF_vars(ReconcileCommit \/ ReconcileAbort)

FairSpec == Spec /\ Fairness

-----------------------------------------------------------------------------
(* Properties *)

JobsOK ==
    /\ jobState \in [Jobs -> JobStates]
    /\ jobOwner \in [Jobs -> Workers \cup {NoOne}]
    /\ jobAttempts \in [Jobs -> Nat]
    /\ intent \in [Jobs -> Intents]
    /\ hinted \in SUBSET Jobs

ExecsOK ==
    /\ execState \in [Execs -> ExecStates]
    /\ execLeg \in [Execs -> Legs]
    /\ execFill \in [Execs -> Int]
    /\ execApplied \in SUBSET Execs

LedgerOK ==
    /\ ledger \in Ledgers
    /\ lock \in Workers \cup {NoOne, Resolver, Reconciler}
    /\ counted \in [Execs -> Nat]

WorkersOK ==
    /\ pc \in [Workers -> PCs]
    /\ wk \in [Workers -> Works]
    /\ \A w \in Workers : pc[w] # "idle" => wk[w].job \in Jobs

MaintenanceOK ==
    /\ res \in Resolutions
    /\ res.pc # "idle" => res.exec \in Execs
    /\ rec \in Reconciliations

ExchangeOK ==
    /\ pos \in Int
    /\ order \in [Execs -> OrderStates]
    /\ xfill \in [Execs -> Int]
    /\ sent \in [Execs -> Nat]

SourcesOK ==
    /\ master \in Int /\ moved \in BOOLEAN /\ moves \in Nat
    /\ causal \in Nat /\ paused \in BOOLEAN
    /\ lockLosses \in Nat /\ manuals \in Nat

(* Every variable has its type; a busy worker has a job and a busy resolver  *)
(* an execution.                                                             *)
TypeOK == /\ JobsOK /\ ExecsOK /\ LedgerOK /\ WorkersOK
          /\ MaintenanceOK /\ ExchangeOK /\ SourcesOK

(* Whatever crashes, expired leases, retries and lost locks do, the signed   *)
(* order of an execution leaves the process at most once, and never before   *)
(* its Execution row is durable (_execute_leg).                              *)
AtMostOneSubmission ==
    \A e \in Execs : sent[e] <= 1 /\ (sent[e] = 1 => execState[e] # "none")

(* The ledger never contains a fill twice: "Apply one durable Execution fill *)
(* to the ledger at most once" (_apply_fill_to_ledger).                      *)
NoFillCountedTwice == \A e \in Execs : counted[e] <= 1

(* The ledger differs from the exchange by exactly the fills it has not yet  *)
(* taken in or has taken in twice: sizes recorded from responses are the     *)
(* sizes that were filled (_persist_outcome, _apply_fill_to_ledger).         *)
LedgerExplained ==
    pos - ledger.size = SumFunction([e \in Execs |-> (1 - counted[e]) * xfill[e]])

(* An execution marked ledger_applied_at is contained in the ledger size     *)
(* exactly once, through all later snapshots.                                *)
AppliedIsContained == \A e \in execApplied : counted[e] = 1

(* A fill the ledger has taken in is never lost again: a snapshot older than *)
(* a fill cannot overwrite the ledger that contains it (user lock around     *)
(* snapshot and commit in reconcile_user).                                   *)
LedgerNeverForgets == [][\A e \in Execs : counted[e] > 0 => counted'[e] > 0]_vars

(* Every fill brings the exchange position strictly closer to the target of  *)
(* its job (sizing.plan and the legs of _process_job_locked).                *)
FillsApproachTarget ==
    [][\A e \in Execs : order[e] = "wire" /\ order'[e] = "filled" =>
          Abs(pos' - intent[e[1]].target) < Abs(pos - intent[e[1]].target)]_vars

(* An order that may open is never on its way against a position of the      *)
(* other side: the open leg of a reversal follows a flat position only       *)
(* (close_leg_flattened).                                                    *)
NeverOpensAgainstPosition ==
    \A e \in Execs : order[e] = "wire" /\ ~execLeg[e].reduceOnly =>
        pos = 0 \/ (pos > 0) = (execLeg[e].delta > 0)

(* Exposure stays within the largest position master or follower may hold,   *)
(* plus the follower's own trades: an unresolved order is never followed by  *)
(* one that could double its effect (the ambiguity guards of                 *)
(* reconcile_observed_follower).                                             *)
ExposureBounded ==
    \E p \in Positions \cup StartSizes : Abs(pos) <= Abs(p) + manuals

(* A terminal execution never changes again, however resolver and workers    *)
(* race for it (EXECUTION_TRANSITIONS).                                      *)
ExecutionOutcomeFinal ==
    [][\A e \in Execs : execState[e] \in TerminalExecStates =>
          execState'[e] = execState[e]]_vars

(* "only an already-terminal CopyJob may be moved to QUARANTINED": at the    *)
(* commit, not just at the read (resolve_ambiguous_executions).              *)
QuarantineOnlyTerminal ==
    [][\A e \in Execs : execState'[e] = "QUARANTINED" /\ execState[e] # "QUARANTINED" =>
          jobState[e[1]] \in TerminalJobStates]_vars

(* Every job ends and stays ended, crashes and expired leases included.      *)
JobsTerminate ==
    \A j \in Jobs : Created(j) ~> [](jobState[j] \in TerminalJobStates)

(* Every ambiguous execution is settled: resolved or quarantined.            *)
ExecutionsSettle ==
    \A e \in Execs : Unresolved(e) ~> (execState[e] \in TerminalExecStates)

(* "Ambiguous outcomes are resolved against Hyperliquid before any further   *)
(* action": no order leaves while another execution is unresolved.           *)
AmbiguityResolvedFirst ==
    [][\A e \in Execs : sent'[e] > sent[e] =>
          \A f \in Execs \ {e} : ~Unresolved(f)]_vars
=============================================================================
