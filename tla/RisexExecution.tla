---------------------------- MODULE RisexExecution ----------------------------
(***************************************************************************)
(* One user's RISEx copy orders on one asset: the durable journal row an   *)
(* order gets before its POST, the claim of the first POST, provider truth *)
(* after it, the resolver of ambiguous rows, credential rotation, unlink   *)
(* and activation.                                                         *)
(*                                                                         *)
(* One execution-worker process: its consume loop handles one job at a     *)
(* time while its maintenance loop resolves (the operational window and    *)
(* the singleton check are RisexWindow's; here they are a choice). A step  *)
(* is what happens between two awaits. An execution epoch is named by its  *)
(* credential generation; 0 is "no active epoch".                          *)
(***************************************************************************)
EXTENDS Integers, FiniteSets

CONSTANTS
    MaxJobs,        \* bound: copy jobs, numbered as they are created
    MaxAttempts,    \* MAX_JOB_RETRIES
    MaxEvents       \* bound: disturbances of all kinds together: crashes, failed
                    \* reads, leases lost, deadlines, own trades, user requests

VARIABLES
    job,        \* copy_jobs: state, attempt_count, execution_epoch_id
    row,        \* executions: state, submission_status, terminal_outcome
    ord,        \* the order at the provider
    indexed,    \* the provider's order history shows it
    ext,        \* the user's own trades so far
    ledger,     \* position_ledgers.size: the provider position it was copied from
    active,     \* users.active_execution_epoch_id
    gen,        \* generation of the stored credential
    cw,         \* _run_risex_copy_job of the consume loop
    rs,         \* resolve_risex_ambiguous_executions of the maintenance loop
    ac,         \* resume_copy_immediate in the API process
    posts,      \* POSTs sent, by job
    events

vars == <<job, row, ord, indexed, ext, ledger, active, gen, cw, rs, ac, posts, events>>

Jobs    == 1..MaxJobs
JobDone == {"DONE", "SKIPPED", "DEAD"}
NoRow   == [st |-> "NONE", sub |-> "NONE", out |-> "NONE"]
NoTask  == [pc |-> "idle", j |-> 1, out |-> "NONE",
            dirty |-> FALSE, snap |-> [fills |-> {}, ext |-> 0]]
NoAct   == [pc |-> "idle", epoch |-> 0, snap |-> [fills |-> {}, ext |-> 0]]

(* The absolute position the provider reports. *)
Position == [fills |-> {j \in Jobs : ord[j] = "FILLED"}, ext |-> ext]

Init ==
    /\ job = [j \in Jobs |-> [state |-> "NONE", att |-> 0, epoch |-> 0]]
    /\ row = [j \in Jobs |-> NoRow]
    /\ ord = [j \in Jobs |-> "NONE"] /\ indexed = {} /\ ext = 0
    /\ ledger = Position
    /\ active = 1 /\ gen = 1
    /\ cw = NoTask /\ rs = NoTask /\ ac = NoAct
    /\ posts = [j \in Jobs |-> 0] /\ events = 0

Disturb == events < MaxEvents /\ events' = events + 1

Unresolved(j) == row[j].st = "SUBMITTING"

-----------------------------------------------------------------------------
(* Jobs *)

CreateJob(j) ==
    /\ job[j].state = "NONE" /\ active # 0
    /\ \A k \in Jobs : k < j => job[k].state # "NONE"
    /\ job' = [job EXCEPT ![j] = [state |-> "READY", att |-> 0, epoch |-> active]]
    /\ UNCHANGED <<row, ord, indexed, ext, ledger, active, gen, cw, rs, ac, posts, events>>

(* expire_stale_strategy_jobs spares a job with an unresolved execution. *)
ExpireJob(j) ==
    /\ job[j].state = "READY" /\ ~Unresolved(j)
    /\ job' = [job EXCEPT ![j].state = "SKIPPED"]
    /\ UNCHANGED <<row, ord, indexed, ext, ledger, active, gen, cw, rs, ac, posts, events>>

RetryOrDead(j) == IF job[j].att >= MaxAttempts THEN "DEAD" ELSE "READY"

(* release_stale_jobs: the lease ran out, whoever holds the job. *)
ReleaseStale(j) ==
    /\ job[j].state = "PROCESSING"
    /\ IF cw.pc # "idle" /\ cw.j = j THEN Disturb ELSE UNCHANGED events
    /\ job' = [job EXCEPT ![j].state = RetryOrDead(j)]
    /\ UNCHANGED <<row, ord, indexed, ext, ledger, active, gen, cw, rs, ac, posts>>

-----------------------------------------------------------------------------
(* The consume loop. Its session keeps the rows it has read: a job or a row  *)
(* another session has changed meanwhile is overwritten, not re-read.        *)

EndJob(j, state) ==
    /\ job' = [job EXCEPT ![j].state = state]
    /\ cw' = NoTask

(* _defer_for_resolution, _defer_risex_window_unavailable: no attempt spent. *)
Defer(j) ==
    /\ job' = [job EXCEPT ![j].state = "READY", ![j].att = IF @ > 0 THEN @ - 1 ELSE 0]
    /\ cw' = NoTask

FinishState(st) == IF st = "FILLED" THEN "DONE" ELSE "SKIPPED"

Step(pc) == cw' = [NoTask EXCEPT !.pc = pc, !.j = cw.j] /\ UNCHANGED job

(* A job of another epoch is skipped unclaimed. *)
Claim(j) ==
    /\ cw.pc = "idle" /\ job[j].state = "READY"
    /\ IF job[j].epoch # active
       THEN job' = [job EXCEPT ![j].state = "SKIPPED"] /\ UNCHANGED cw
       ELSE /\ job' = [job EXCEPT ![j].state = "PROCESSING", ![j].att = @ + 1]
            /\ cw' = [NoTask EXCEPT !.pc = "recover", !.j = j]
    /\ UNCHANGED <<row, ord, indexed, ext, ledger, active, gen, rs, ac, posts, events>>

(* recover_risex_case_a_job: a terminal row ends the job, terminal evidence  *)
(* resumes at provider truth, anything else goes on to "then".               *)
Recovered(j, then) ==
    IF row[j].st \in {"FILLED", "CANCELED"} THEN EndJob(j, FinishState(row[j].st))
    ELSE IF row[j].out # "NONE" THEN Step("truth")
    ELSE then

Recover ==
    /\ cw.pc = "recover"
    /\ Recovered(cw.j, Step("window"))
    /\ UNCHANGED <<row, ord, indexed, ext, ledger, active, gen, rs, ac, posts, events>>

WindowClosed ==
    /\ cw.pc = "window"
    /\ Defer(cw.j) \/ EndJob(cw.j, "DEAD")      \* disabled; context or singleton lost
    /\ UNCHANGED <<row, ord, indexed, ext, ledger, active, gen, rs, ac, posts, events>>

(* Mutant: a row the first attempt left unposted or in flight is prepared again. *)
Unprepared_Resign(j) == row[j].st = "NONE" \/ row[j].sub \in {"PRE_POST_COMMITTED", "POST_IN_FLIGHT"}

(* No durable row yet: the only case that may be prepared and signed. *)
Unprepared(j) == row[j].st = "NONE"

(* Mutant: an unresolved execution of the asset does not stop a new order. *)
PeerUnresolved_Ignored(j) == FALSE

PeerUnresolved(j) == \E k \in Jobs \ {j} : Unresolved(k)

(* prepare_risex_worker_submission up to the credential.                     *)
Prepare ==
    /\ cw.pc = "window"
    /\ LET j == cw.j
       IN IF ~Unprepared(j) \/ PeerUnresolved(j) THEN Recovered(j, Defer(j))
          ELSE IF job[j].epoch # active \/ job[j].epoch # gen THEN EndJob(j, "SKIPPED")
          ELSE Step("plan")
    /\ UNCHANGED <<row, ord, indexed, ext, ledger, active, gen, rs, ac, posts, events>>

(* A risk denial, a failed read or a negative gate spends the attempt. *)
PlanFails ==
    /\ cw.pc = "plan"
    /\ EndJob(cw.j, RetryOrDead(cw.j))
    /\ UNCHANGED <<row, ord, indexed, ext, ledger, active, gen, rs, ac, posts, events>>

Persist ==
    /\ cw.pc = "plan"
    /\ IF Unprepared(cw.j)
       THEN /\ row' = [row EXCEPT ![cw.j] =
                         [st |-> "SUBMITTING", sub |-> "PRE_POST_COMMITTED", out |-> "NONE"]]
            /\ Step("intent")
       ELSE UNCHANGED row /\ EndJob(cw.j, RetryOrDead(cw.j))   \* another nonce was persisted
    /\ UNCHANGED <<ord, indexed, ext, ledger, active, gen, rs, ac, posts, events>>

(* The strategy intent was superseded: the job ends, the row stays as it is. *)
IntentStale ==
    /\ cw.pc = "intent"
    /\ EndJob(cw.j, "SKIPPED")
    /\ UNCHANGED <<row, ord, indexed, ext, ledger, active, gen, rs, ac, posts, events>>

(* claim_risex_first_post, under the lock of the user row. *)
ClaimFirstPost ==
    /\ cw.pc = "intent"
    /\ LET j == cw.j
       IN IF ~(Unresolved(j) /\ row[j].sub = "PRE_POST_COMMITTED") THEN Defer(j) /\ UNCHANGED row
          ELSE IF job[j].epoch # active \/ job[j].epoch # gen
          THEN /\ row' = [row EXCEPT ![j].st = "CANCELED", ![j].sub = "PRE_SUBMIT_BLOCKED"]
               /\ EndJob(j, "SKIPPED")
          ELSE /\ row' = [row EXCEPT ![j].sub = "POST_IN_FLIGHT"]
               /\ Step("post")
    /\ UNCHANGED <<ord, indexed, ext, ledger, active, gen, rs, ac, posts, events>>

(* place_ioc refuses (window, probe, singleton): the exception leaves the job *)
(* PROCESSING and the row POST_IN_FLIGHT.                                     *)
PostRefused ==
    /\ cw.pc = "post"
    /\ cw' = NoTask
    /\ UNCHANGED <<job, row, ord, indexed, ext, ledger, active, gen, rs, ac, posts, events>>

Post ==
    /\ cw.pc = "post"
    /\ posts' = [posts EXCEPT ![cw.j] = @ + 1]
    /\ ord' = [ord EXCEPT ![cw.j] = "SENT"]
    /\ cw' = [cw EXCEPT !.pc = "await"]
    /\ UNCHANGED <<job, row, indexed, ext, ledger, active, gen, rs, ac, events>>

(* Mutant: a 4xx body counts as a definitive rejection. *)
Classify_4xx(o) == IF o \in {"FILLED", "CANCELED"} THEN {o, "NONE"} ELSE {"NONE", "CANCELED"}

(* classify_risex_runtime_response: only a 2xx with the completed order is   *)
(* definitive; an acknowledgement or a 4xx settles nothing.                  *)
Classify(o) == IF o \in {"FILLED", "CANCELED"} THEN {o, "NONE"} ELSE {"NONE"}

Response ==
    /\ cw.pc = "await"
    /\ \E out \in Classify(ord[cw.j]) :
          /\ row' = [row EXCEPT ![cw.j].sub = IF out = "NONE" THEN "ACKNOWLEDGED"
                                              ELSE "TERMINAL_EVIDENCE_PERSISTED",
                                ![cw.j].out = out]
          /\ IF out = "NONE" THEN Defer(cw.j) ELSE Step("truth")
    /\ UNCHANGED <<ord, indexed, ext, ledger, active, gen, rs, ac, posts, events>>

(* Timeout or 5xx: the outcome is unknown, the job stays PROCESSING. *)
ResponseLost ==
    /\ cw.pc = "await"
    /\ cw' = NoTask
    /\ UNCHANGED <<job, row, ord, indexed, ext, ledger, active, gen, rs, ac, posts, events>>

-----------------------------------------------------------------------------
(* Provider truth: the ledger baseline, then the snapshot, then one          *)
(* transaction under the user's ledger lock.                                 *)

(* Every ledger write spoils the baselines read before it. *)
Spoil(task) == IF task.pc \in {"read", "evidence", "snapshot", "settle"}
               THEN [task EXCEPT !.dirty = TRUE] ELSE task

TruthBaseline ==
    /\ cw.pc = "truth"
    /\ Step("read")
    /\ UNCHANGED <<row, ord, indexed, ext, ledger, active, gen, rs, ac, posts, events>>

TruthRead ==
    /\ cw.pc = "read"
    /\ cw' = [cw EXCEPT !.pc = "settle", !.snap = Position]
    /\ UNCHANGED <<job, row, ord, indexed, ext, ledger, active, gen, rs, ac, posts, events>>

TruthFails ==
    /\ cw.pc = "read" /\ Disturb
    /\ Defer(cw.j) \/ (cw' = NoTask /\ UNCHANGED job)
    /\ UNCHANGED <<row, ord, indexed, ext, ledger, active, gen, rs, ac, posts>>

(* Mutant: the snapshot is written although the ledger changed since. *)
Settleable_NoBaseline(task) == ~PeerUnresolved(task.j)

Settleable(task) == ~task.dirty /\ ~PeerUnresolved(task.j)

TruthSettle ==
    /\ cw.pc = "settle"
    /\ IF Settleable(cw)
       THEN /\ ledger' = cw.snap
            /\ row' = [row EXCEPT ![cw.j].st = row[cw.j].out]
            /\ rs' = Spoil(rs)
            /\ Step("finish")
       ELSE Defer(cw.j) /\ UNCHANGED <<ledger, row, rs>>
    /\ UNCHANGED <<ord, indexed, ext, active, gen, ac, posts, events>>

FinishJob ==
    /\ cw.pc = "finish"
    /\ EndJob(cw.j, FinishState(row[cw.j].st))
    /\ UNCHANGED <<row, ord, indexed, ext, ledger, active, gen, rs, ac, posts, events>>

-----------------------------------------------------------------------------
(* The resolver *)

(* Mutant: rows of dead jobs are left to an operator. *)
Candidate_LiveJob(j) == Unresolved(j) /\ job[j].state # "DEAD"

(* The candidates: every unresolved row, whatever became of its job. *)
Candidate(j) == Unresolved(j)

ResolveLoad(j) ==
    /\ rs.pc = "idle" /\ Candidate(j)
    /\ rs' = [NoTask EXCEPT !.pc = "evidence", !.j = j]
    /\ UNCHANGED <<job, row, ord, indexed, ext, ledger, active, gen, cw, ac, posts, events>>

(* The nonce is consumed and the history holds the order: the provider is    *)
(* done with it. Otherwise the row stays unresolved.                         *)
ResolveEvidence ==
    /\ rs.pc = "evidence"
    /\ rs' = IF rs.j \in indexed THEN [rs EXCEPT !.pc = "snapshot", !.out = ord[rs.j]]
             ELSE NoTask
    /\ UNCHANGED <<job, row, ord, indexed, ext, ledger, active, gen, cw, ac, posts, events>>

ResolveSnapshot ==
    /\ rs.pc = "snapshot"
    /\ rs' = [rs EXCEPT !.pc = "settle", !.snap = Position]
    /\ UNCHANGED <<job, row, ord, indexed, ext, ledger, active, gen, cw, ac, posts, events>>

ResolveSettle ==
    /\ rs.pc = "settle"
    /\ IF Unresolved(rs.j) /\ Settleable(rs)
       THEN /\ ledger' = rs.snap
            /\ row' = [row EXCEPT ![rs.j].st = rs.out]
            /\ cw' = Spoil(cw)
            /\ rs' = [NoTask EXCEPT !.pc = "finish", !.j = rs.j]
       ELSE rs' = NoTask /\ UNCHANGED <<ledger, row, cw>>
    /\ UNCHANGED <<job, ord, indexed, ext, active, gen, ac, posts, events>>

ResolveFinish ==
    /\ rs.pc = "finish"
    /\ job' = IF job[rs.j].state \in JobDone THEN job
              ELSE [job EXCEPT ![rs.j].state = FinishState(row[rs.j].st)]
    /\ rs' = NoTask
    /\ UNCHANGED <<row, ord, indexed, ext, ledger, active, gen, cw, ac, posts, events>>

(* The cycle's deadline, or a failed read. *)
ResolveFails ==
    /\ rs.pc # "idle" /\ Disturb
    /\ rs' = NoTask
    /\ UNCHANGED <<job, row, ord, indexed, ext, ledger, active, gen, cw, ac, posts>>

-----------------------------------------------------------------------------
(* The API process *)

(* link_risex_trading_account: the blockers of the active epoch only. *)
Rotate ==
    /\ Disturb
    /\ \A j \in Jobs : active # 0 /\ job[j].epoch = active => ~Unresolved(j)
    /\ gen' = gen + 1 /\ active' = gen + 1
    /\ UNCHANGED <<job, row, ord, indexed, ext, ledger, cw, rs, ac, posts>>

(* unlink_trading_account: only the managed ledger must be flat. *)
Unlink ==
    /\ Disturb
    /\ active # 0 /\ ledger.fills = {}
    /\ active' = 0
    /\ UNCHANGED <<job, row, ord, indexed, ext, ledger, gen, cw, rs, ac, posts>>

(* resume_copy_immediate: preflight and observation without the lock, ...    *)
ActivateObserve ==
    /\ Disturb
    /\ ac.pc = "idle" /\ active # 0
    /\ \A j \in Jobs : job[j].epoch = active =>
          job[j].state \notin {"READY", "PROCESSING"} /\ ~Unresolved(j)
    /\ ac' = [pc |-> "observed", epoch |-> active, snap |-> Position]
    /\ UNCHANGED <<job, row, ord, indexed, ext, ledger, active, gen, cw, rs, posts>>

(* ... then the ledger from the observation under it, if nothing rotated.    *)
ActivateCommit ==
    /\ ac.pc = "observed"
    /\ IF ac.epoch = active
       THEN ledger' = ac.snap /\ cw' = Spoil(cw) /\ rs' = Spoil(rs)
       ELSE UNCHANGED <<ledger, cw, rs>>
    /\ ac' = NoAct
    /\ UNCHANGED <<job, row, ord, indexed, ext, active, gen, posts, events>>

-----------------------------------------------------------------------------
(* The provider and the process *)

Land(j) ==
    /\ ord[j] = "SENT"
    /\ \E o \in {"FILLED", "CANCELED", "LOST"} : ord' = [ord EXCEPT ![j] = o]
    /\ UNCHANGED <<job, row, indexed, ext, ledger, active, gen, cw, rs, ac, posts, events>>

Index(j) ==
    /\ ord[j] \in {"FILLED", "CANCELED"} /\ j \notin indexed
    /\ indexed' = indexed \cup {j}
    /\ UNCHANGED <<job, row, ord, ext, ledger, active, gen, cw, rs, ac, posts, events>>

OwnTrade ==
    /\ Disturb
    /\ ext' = ext + 1
    /\ UNCHANGED <<job, row, ord, indexed, ledger, active, gen, cw, rs, ac, posts>>

Crash ==
    /\ cw.pc # "idle" \/ rs.pc # "idle"
    /\ Disturb
    /\ cw' = NoTask /\ rs' = NoTask
    /\ UNCHANGED <<job, row, ord, indexed, ext, ledger, active, gen, ac, posts>>

-----------------------------------------------------------------------------
WorkerStep ==
    \/ Recover \/ WindowClosed \/ Prepare \/ PlanFails \/ Persist \/ IntentStale \/ ClaimFirstPost
    \/ PostRefused \/ Post \/ Response \/ ResponseLost
    \/ TruthBaseline \/ TruthRead \/ TruthSettle \/ FinishJob

ResolverStep ==
    \/ \E j \in Jobs : ResolveLoad(j)
    \/ ResolveEvidence \/ ResolveSnapshot \/ ResolveSettle \/ ResolveFinish

Next ==
    \/ \E j \in Jobs : CreateJob(j) \/ ExpireJob(j) \/ ReleaseStale(j) \/ Claim(j)
                       \/ Land(j) \/ Index(j)
    \/ WorkerStep \/ TruthFails
    \/ ResolverStep \/ ResolveFails
    \/ Rotate \/ Unlink \/ ActivateObserve \/ ActivateCommit
    \/ OwnTrade \/ Crash

(* Both loops run for ever; the provider indexes every order it has handled. *)
Fairness ==
    /\ WF_vars(WorkerStep) /\ WF_vars(ResolverStep)
    /\ \A j \in Jobs : WF_vars(Index(j))

Spec == Init /\ [][Next]_vars /\ Fairness

-----------------------------------------------------------------------------
(* Properties *)

Snapshots == [fills : SUBSET Jobs, ext : 0..MaxEvents]
Outs      == {"NONE", "FILLED", "CANCELED"}

(* Types of the jobs, rows, orders, tasks and counters. *)
TypeOK ==
    /\ job \in [Jobs -> [state : {"NONE", "READY", "PROCESSING"} \cup JobDone,
                         att : 0..MaxAttempts + 1, epoch : 0..MaxEvents + 1]]
    /\ row \in [Jobs -> [st : {"NONE", "SUBMITTING", "FILLED", "CANCELED"},
                         sub : {"NONE", "PRE_POST_COMMITTED", "POST_IN_FLIGHT", "ACKNOWLEDGED",
                                "TERMINAL_EVIDENCE_PERSISTED", "PRE_SUBMIT_BLOCKED"},
                         out : Outs]]
    /\ ord \in [Jobs -> {"NONE", "SENT", "FILLED", "CANCELED", "LOST"}]
    /\ indexed \subseteq Jobs /\ ext \in 0..MaxEvents /\ ledger \in Snapshots
    /\ active \in 0..MaxEvents + 1 /\ gen \in 1..MaxEvents + 1
    /\ cw \in [pc : {"idle", "recover", "window", "plan", "intent", "post", "await", "truth",
                     "read", "settle", "finish"},
               j : Jobs, out : Outs, dirty : BOOLEAN, snap : Snapshots]
    /\ rs \in [pc : {"idle", "evidence", "snapshot", "settle", "finish"},
               j : Jobs, out : Outs, dirty : BOOLEAN, snap : Snapshots]
    /\ ac \in [pc : {"idle", "observed"}, epoch : 0..MaxEvents + 1, snap : Snapshots]

(* A job's order is posted at most once over every retry, lease expiry,      *)
(* crash and restart: the durable row, not the process, fences the POST.     *)
AtMostOnePost == \A j \in Jobs : posts[j] <= 1

(* At most one unresolved execution per user and asset: an absolute snapshot *)
(* can then be attributed to it (prepare's fence over crashes and retries).  *)
OneUnresolved == Cardinality({j \in Jobs : Unresolved(j)}) <= 1

(* A row is settled with what the provider did (a blocked order never left), *)
(* releasing a filled reservation leaves a ledger that holds that fill, and  *)
(* neither settlement path replaces an observation by an older one: worker   *)
(* and resolver race with each other and with the user's own trades.         *)
Converges ==
    /\ \A j \in Jobs :
          row'[j].st # row[j].st /\ row'[j].st \in {"FILLED", "CANCELED"} =>
              IF row'[j].sub = "PRE_SUBMIT_BLOCKED" THEN ord[j] = "NONE"
              ELSE row'[j].st = ord[j] /\ (ord[j] = "FILLED" => j \in ledger'.fills)
    /\ ac' = ac => ledger.fills \subseteq ledger'.fills /\ ledger.ext <= ledger'.ext

SettlementConverges == [][Converges]_vars

Handled(j) == ord[j] \in {"FILLED", "CANCELED"}
Settled(j) == row[j].st \in {"FILLED", "CANCELED"}

(* Every order the provider handled is settled, whatever acknowledgement,    *)
(* lease or process was lost on the way.                                     *)
LandedSettles == \A j \in Jobs : Handled(j) ~> Settled(j)

-----------------------------------------------------------------------------
(* The journal row implements a write-ahead submission journal. *)

Phase(j) ==
    CASE row[j].st = "NONE" -> "absent"
      [] row[j].sub = "PRE_SUBMIT_BLOCKED" -> "blocked"
      [] row[j].sub = "PRE_POST_COMMITTED" -> "recorded"
      [] row[j].st = "SUBMITTING" /\ row[j].sub # "PRE_POST_COMMITTED" -> "released"
      [] OTHER -> "settled"

Result(j) == CASE ord[j] = "FILLED" -> "filled" [] ord[j] = "CANCELED" -> "canceled"
               [] OTHER -> "none"

Journal == INSTANCE SubmissionJournal WITH
               Orders <- Jobs,
               phase  <- [j \in Jobs |-> Phase(j)],
               left   <- [j \in Jobs |-> posts[j] > 0],
               result <- [j \in Jobs |-> Result(j)]

(* Every behaviour of the RISEx order path is one of the journal's: recorded *)
(* before released, released before it leaves, settled with its own result.  *)
ImplementsJournal == Journal!Spec
=============================================================================
