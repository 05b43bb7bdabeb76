---------------------------- MODULE AdminCommands ----------------------------
(***************************************************************************)
(* Administrator commands of one follower that run as durable jobs: the    *)
(* signed leverage synchronization of one asset, which is one-shot, and    *)
(* the targeted reconciliation, which is retried. API requests reuse or    *)
(* create a job and wait for it; workers claim jobs, may stall past the    *)
(* lease or crash; maintenance quarantines and releases stale claims.      *)
(* A configuration is a leverage and a margin mode. Limits have the same   *)
(* shape: what the market allows (max_leverage, not only_isolated) and     *)
(* what the risk profile allows (max_leverage, any mode).                  *)
(***************************************************************************)
EXTENDS Integers, Sequences

CONSTANTS
    Requests,       \* API requests
    Workers,        \* execution workers
    Commands,       \* the kinds requested, a subset of {"sync", "reconcile"}
    MaxAttempts,    \* MAX_JOB_RETRIES
    Sources,        \* what master, market and risk profile may show at a time
    MaxConfig,      \* bound: how many of them follow each other
    MaxEvents       \* bound: changed permissions, failed reads, lost answers and crashes

VARIABLES
    config,         \* sources, oldest first, and configuration of the follower account
    permit,         \* follower PAUSED, binding current, no system halt
    job,            \* jobs, named by the request that created them
    req,            \* API requests
    wk,             \* workers
    maint,          \* maintenance: which of its two sweeps is next
    signed,         \* history: configurations signed for each job
    claimed,        \* history: which source was the current one at the first claim
    events

vars == <<config, permit, job, req, wk, maint, signed, claimed, events>>

Active == {"QUEUED", "PROCESSING", "RETRYING"}
Ended  == {"DONE", "SKIPPED", "DEAD"}

Config == [lev : Nat, cross : BOOLEAN]
None   == [lev |-> 0, cross |-> FALSE]      \* no open position

NoJob  == [kind |-> "none", state |-> "none", att |-> 0, stale |-> FALSE, asked |-> None]
NoReq  == [pc |-> "idle", kind |-> "none", j |-> "none", asked |-> None, answer |-> "none"]
NoTask == [pc |-> "idle", j |-> "none", att |-> 0, value |-> None]

Init ==
    /\ \E s \in Sources : config = [source |-> <<s>>, follower |-> None]
    /\ permit = TRUE
    /\ job = [r \in Requests |-> NoJob]
    /\ req = [r \in Requests |-> NoReq]
    /\ wk = [w \in Workers |-> NoTask]
    /\ maint = "quarantine"
    /\ signed = [r \in Requests |-> <<>>]
    /\ claimed = [r \in Requests |-> 0]
    /\ events = 0

Event == events < MaxEvents /\ events' = events + 1

-----------------------------------------------------------------------------
(* Configurations *)

Source == config.source[Len(config.source)]

(* The lower leverage, and cross margin only if both have it. *)
Meet(a, b)   == [lev |-> IF a.lev <= b.lev THEN a.lev ELSE b.lev, cross |-> a.cross /\ b.cross]
Within(a, b) == a.lev <= b.lev /\ (a.cross => b.cross)

(* What the diagnostic proposes, and the limits of it that the job carries:  *)
(* initial_exchange_max_leverage and initial_desired_is_cross.               *)
Desired(s) == Meet(Meet(s.master, s.market), s.risk)
Shown(s)   == [lev |-> s.market.lev, cross |-> Desired(s).cross]

-----------------------------------------------------------------------------
(* API requests *)

Answer(r, a) == req' = [req EXCEPT ![r] = [NoReq EXCEPT !.pc = "answered", !.answer = a]]

(* sync_position_config: the diagnostic reads master and follower. *)
Diagnose(r) ==
    /\ req[r].pc = "idle" /\ "sync" \in Commands
    /\ \/ Source.master = None /\ Answer(r, "conflict")
       \/ /\ Source.master # None /\ config.follower = Desired(Source)
          /\ Answer(r, "unchanged")
       \/ /\ Source.master # None /\ config.follower # Desired(Source)
          /\ req' = [req EXCEPT ![r] = [NoReq EXCEPT !.pc = "look", !.kind = "sync",
                                                     !.asked = Shown(Source)]]
    /\ UNCHANGED <<config, permit, job, wk, maint, signed, claimed, events>>

(* queue_reconcile needs no diagnostic. *)
RequestReconcile(r) ==
    /\ req[r].pc = "idle" /\ "reconcile" \in Commands
    /\ req' = [req EXCEPT ![r] = [NoReq EXCEPT !.pc = "look", !.kind = "reconcile"]]
    /\ UNCHANGED <<config, permit, job, wk, maint, signed, claimed, events>>

InProgress(kind) == {r \in Requests : job[r].kind = kind /\ job[r].state \in Active}

(* An active job of the kind is reused; no lock covers the insert after it.  *)
(* 409 without a usable credential, or when the job has another account's.   *)
Look(r) ==
    /\ req[r].pc = "look"
    /\ \/ \E s \in InProgress(req[r].kind) :
             req' = [req EXCEPT ![r].pc = "wait", ![r].j = s]
       \/ /\ InProgress(req[r].kind) = {}
          /\ req' = [req EXCEPT ![r].pc = "insert", ![r].j = r]
       \/ req[r].kind = "sync" /\ ~permit /\ Answer(r, "conflict")
    /\ UNCHANGED <<config, permit, job, wk, maint, signed, claimed, events>>

(* Insert and commit; a failed publication is left to repair_stream. *)
Enqueue(r) ==
    /\ req[r].pc = "insert"
    /\ job' = [job EXCEPT ![r] = [NoJob EXCEPT !.kind = req[r].kind, !.state = "QUEUED",
                                               !.asked = req[r].asked]]
    /\ req' = [req EXCEPT ![r].pc = "wait"]
    /\ UNCHANGED <<config, permit, wk, maint, signed, claimed, events>>

(* The outcome of the job, or 504 when it still runs at the deadline; a      *)
(* submitted configuration is verified on the exchange.                      *)
Observe(r) ==
    /\ req[r].pc = "wait"
    /\ LET s == job[req[r].j].state
       IN IF s = "DONE" /\ req[r].kind = "sync" THEN req' = [req EXCEPT ![r].pc = "verify"]
          ELSE Answer(r, CASE s = "DONE" -> "done" [] s = "SKIPPED" -> "blocked"
                           [] s = "DEAD" -> "failed" [] OTHER -> "running")
    /\ UNCHANGED <<config, permit, job, wk, maint, signed, claimed, events>>

Submitted(j) == signed[j][Len(signed[j])]

Verify(r) ==
    /\ req[r].pc = "verify"
    /\ Answer(r, IF config.follower = Submitted(req[r].j) THEN "verified" ELSE "unverified")
    /\ UNCHANGED <<config, permit, job, wk, maint, signed, claimed, events>>

-----------------------------------------------------------------------------
(* Workers *)

Idle(w) == wk' = [wk EXCEPT ![w] = NoTask]

Claim(w, j) ==
    /\ wk[w].pc = "idle" /\ job[j].state \in {"QUEUED", "RETRYING"}
    /\ job' = [job EXCEPT ![j].state = "PROCESSING", ![j].att = @ + 1, ![j].stale = FALSE]
    /\ wk' = [wk EXCEPT ![w] = [NoTask EXCEPT !.pc = job[j].kind, !.j = j, !.att = job[j].att + 1]]
    /\ claimed' = [claimed EXCEPT ![j] = IF @ = 0 THEN Len(config.source) ELSE @]
    /\ UNCHANGED <<config, permit, req, maint, signed, events>>

Finish(w, state) ==
    /\ job' = [job EXCEPT ![wk[w].j].state = state, ![wk[w].j].stale = FALSE]
    /\ Idle(w)

(* Mutant: a released synchronization is run again. *)
FirstAttempt_Any(w) == TRUE

(* A signed command is never repeated: the attempt this worker has claimed.  *)
FirstAttempt(w) == wk[w].att = 1

(* The checks before the signature: attempt, binding and account; the        *)
(* SUBMITTING marker is committed.                                           *)
Prepare(w) ==
    /\ wk[w].pc = "sync"
    /\ \/ ~FirstAttempt(w) /\ Finish(w, "DEAD")
       \/ FirstAttempt(w) /\ ~permit /\ Finish(w, "SKIPPED")
       \/ /\ FirstAttempt(w) /\ permit
          /\ wk' = [wk EXCEPT ![w].pc = "refresh"]
          /\ UNCHANGED job
    /\ UNCHANGED <<config, permit, req, maint, signed, claimed, events>>

(* The credential cannot be prepared. *)
PrepareFails(w) ==
    /\ wk[w].pc = "sync" /\ Event
    /\ Finish(w, "DEAD")
    /\ UNCHANGED <<config, permit, req, maint, signed, claimed>>

(* Mutant: the limits of the diagnostic are signed, nothing is read again.   *)
FreshConfig_Shown(j) == job[j].asked

(* _authorize_submission, after every wait: master and market as they are    *)
(* now, within what the administrator was shown.                             *)
FreshConfig(j) == Meet(Meet(Source.master, Source.market), job[j].asked)

Refresh(w) ==
    /\ wk[w].pc = "refresh"
    /\ IF Source.master = None THEN Finish(w, "SKIPPED")
       ELSE /\ wk' = [wk EXCEPT ![w].pc = "authorize", ![w].value = FreshConfig(wk[w].j)]
            /\ UNCHANGED job
    /\ UNCHANGED <<config, permit, req, maint, signed, claimed, events>>

(* A read, the slot or the final query fails before the signed call.         *)
AuthorizeFails(w) ==
    /\ wk[w].pc \in {"refresh", "authorize"} /\ Event
    /\ Finish(w, "DEAD")
    /\ UNCHANGED <<config, permit, req, maint, signed, claimed>>

(* fresh_position_config_sync_authorization: the leverage the risk profile   *)
(* allows now.                                                               *)
Authorized(w) == Meet(wk[w].value, Source.risk)

(* One final query over every permission, then the signed call. *)
Sign(w) ==
    /\ wk[w].pc = "authorize"
    /\ IF permit
       THEN /\ signed' = [signed EXCEPT ![wk[w].j] = Append(@, Authorized(w))]
            /\ wk' = [wk EXCEPT ![w].pc = "sent", ![w].value = Authorized(w)]
            /\ UNCHANGED job
       ELSE Finish(w, "SKIPPED") /\ UNCHANGED signed
    /\ UNCHANGED <<config, permit, req, maint, claimed, events>>

(* The exchange applies it and the worker records the answer. *)
Acknowledge(w) ==
    /\ wk[w].pc = "sent"
    /\ config' = [config EXCEPT !.follower = wk[w].value]
    /\ Finish(w, "DONE")
    /\ UNCHANGED <<permit, req, maint, signed, claimed, events>>

(* Refused, or the answer is lost: unknown, never retried. *)
Unverified(w) ==
    /\ wk[w].pc = "sent" /\ Event
    /\ config' \in {config, [config EXCEPT !.follower = wk[w].value]}
    /\ Finish(w, "DEAD")
    /\ UNCHANGED <<permit, req, maint, signed, claimed>>

(* _retry_admin_job, and release_stale_jobs. *)
Retried(j) == IF job[j].att >= MaxAttempts THEN "DEAD" ELSE "RETRYING"

Reconcile(w) ==
    /\ wk[w].pc = "reconcile"
    /\ \E s \in {"DONE", Retried(wk[w].j)} : Finish(w, s)
    /\ UNCHANGED <<config, permit, req, maint, signed, claimed, events>>

(* A crash before or after the exchange got the request. *)
Crash(w) ==
    /\ wk[w].pc # "idle" /\ Event
    /\ Idle(w)
    /\ config' \in {config, IF wk[w].pc = "sent" THEN [config EXCEPT !.follower = wk[w].value]
                            ELSE config}
    /\ UNCHANGED <<permit, job, req, maint, signed, claimed>>

-----------------------------------------------------------------------------
(* Leases and maintenance *)

(* The lease runs out, whether its worker died or is only slow. *)
LeaseExpires(j) ==
    /\ job[j].state = "PROCESSING" /\ ~job[j].stale
    /\ job' = [job EXCEPT ![j].stale = TRUE]
    /\ UNCHANGED <<config, permit, req, wk, maint, signed, claimed, events>>

(* Mutant: the one-shot command is left out of both sweeps. *)
Stale_NotSync(j) == job[j].state = "PROCESSING" /\ job[j].stale /\ job[j].kind # "sync"

Stale(j) == job[j].state = "PROCESSING" /\ job[j].stale

(* _quarantine_stale_admin_leverage_jobs comes first, ...                    *)
QuarantineStale ==
    /\ maint = "quarantine"
    /\ job' = [j \in Requests |-> IF Stale(j) /\ job[j].kind = "sync"
                                  THEN [job[j] EXCEPT !.state = "DEAD", !.stale = FALSE] ELSE job[j]]
    /\ maint' = "release"
    /\ UNCHANGED <<config, permit, req, wk, signed, claimed, events>>

(* ... then release_stale_jobs, which meets leases that ran out in between.  *)
ReleaseStale ==
    /\ maint = "release"
    /\ job' = [j \in Requests |-> IF Stale(j) THEN [job[j] EXCEPT !.state = Retried(j), !.stale = FALSE]
                                  ELSE job[j]]
    /\ maint' = "quarantine"
    /\ UNCHANGED <<config, permit, req, wk, signed, claimed, events>>

-----------------------------------------------------------------------------
(* The master, the market's limits or the risk profile change. *)
MasterConfig ==
    /\ Len(config.source) < MaxConfig
    /\ \E s \in Sources \ {Source} : config' = [config EXCEPT !.source = Append(@, s)]
    /\ UNCHANGED <<permit, job, req, wk, maint, signed, claimed, events>>

(* Pause, resume, relink, system pause, emergency stop and their release. *)
SetPermit ==
    /\ Event
    /\ permit' = ~permit
    /\ UNCHANGED <<config, job, req, wk, maint, signed, claimed>>

ApiStep(r)    == Diagnose(r) \/ RequestReconcile(r) \/ Look(r) \/ Enqueue(r) \/ Observe(r) \/ Verify(r)
WorkerStep(w) == Prepare(w) \/ Refresh(w) \/ Sign(w) \/ Acknowledge(w) \/ Reconcile(w)
Maintenance   == QuarantineStale \/ ReleaseStale

Next ==
    \/ \E r \in Requests : ApiStep(r) \/ LeaseExpires(r)
    \/ \E w \in Workers : \/ WorkerStep(w) \/ PrepareFails(w) \/ AuthorizeFails(w)
                          \/ Unverified(w) \/ Crash(w)
                          \/ \E j \in Requests : Claim(w, j)
    \/ Maintenance \/ MasterConfig \/ SetPermit

(* Workers and maintenance run for ever, a lease runs out, a job in the      *)
(* durable queue is claimed.                                                 *)
Fairness ==
    /\ \A w \in Workers : WF_vars(WorkerStep(w)) /\ \A j \in Requests : SF_vars(Claim(w, j))
    /\ \A j \in Requests : WF_vars(LeaseExpires(j))
    /\ WF_vars(Maintenance)

Spec == Init /\ [][Next]_vars /\ Fairness

-----------------------------------------------------------------------------
(* Properties *)

(* Types of the jobs, requests and tasks. *)
TypeOK ==
    /\ config \in [source : Seq(Sources), follower : Config]
    /\ permit \in BOOLEAN /\ maint \in {"quarantine", "release"}
    /\ job \in [Requests -> [kind : {"none", "sync", "reconcile"}, state : {"none"} \cup Active \cup Ended,
                             att : 0..MaxAttempts, stale : BOOLEAN, asked : Config]]
    /\ \A w \in Workers : wk[w].pc \in {"idle", "sync", "refresh", "authorize", "sent", "reconcile"}
    /\ \A r \in Requests : req[r].pc \in {"idle", "look", "insert", "wait", "verify", "answered"}

(* A synchronization is signed at most once, whatever leases run out between *)
(* the two sweeps, whoever stalls and claims it again. What is signed has    *)
(* neither more leverage nor a wider margin mode than master and market had  *)
(* together after the claim, than the risk profile allowed after it, and     *)
(* than the administrator of the job was shown, however these moved apart.   *)
SignedOnceAndFresh ==
    \A j \in Requests :
        LET Since == {config.source[k] : k \in claimed[j]..Len(config.source)}
        IN /\ Len(signed[j]) <= 1
           /\ \A i \in 1..Len(signed[j]) :
                 /\ Within(signed[j][i], job[j].asked)
                 /\ \E s \in Since : /\ Within(signed[j][i], s.master)
                                     /\ Within(signed[j][i], s.market)
                 /\ \E s \in Since : Within(signed[j][i], s.risk)

IsActive(j) == job[j].state \in Active
HasEnded(j) == job[j].state \in Ended

(* Every command ends, through stalls, crashes, releases and retries. *)
CommandsEnd == \A j \in Requests : IsActive(j) ~> HasEnded(j)
=============================================================================
