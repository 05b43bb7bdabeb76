-------------------------- MODULE DestinationSwitch --------------------------
(***************************************************************************)
(* The copy controls of one follower and one market: linking and unlinking *)
(* the trading account, pause, shadow, resume, close-positions, and the    *)
(* switch of the execution destination, against the queue and a worker     *)
(* that executes the jobs of the user.                                     *)
(*                                                                         *)
(* An epoch names a destination and its account; a job is bound to the     *)
(* active epoch when it is published, and the binding is read again under  *)
(* the user lock and right before the order. The switch holds the user row *)
(* FOR UPDATE, which keeps out every other update of the user and every    *)
(* insert that references the user. Orders of a RISEx destination are in   *)
(* module RisexExecution; here its jobs end without one.                   *)
(***************************************************************************)
EXTENDS Integers, Sequences, FiniteSets

CONSTANTS
    Dests,          \* execution destinations; "risex" is one that cannot be verified flat
    Home,           \* destination the follower starts on
    MaxJobs,        \* bound: copy jobs
    MaxEpochs,      \* bound: execution epochs
    MaxRequests     \* bound: requests of the user, crashes and lost answers

VARIABLES
    user,           \* User: destination, active epoch, copy state, trading account
    epochs,         \* ExecutionEpoch rows
    jobs,           \* CopyJob with its Execution and order
    ledger, pos,    \* PositionLedger.size, position on each destination
    wk,             \* _process_job_locked; holds the user lock unless idle
    fan,            \* fan-out of a master fill: users read, jobs not yet inserted
    sw,             \* set_user_destination; holds the user row unless idle
    act,            \* resume: jobs known when the activation started
    late,           \* history: increasing orders sent since copying was paused
    requests

vars == <<user, epochs, jobs, ledger, pos, wk, fan, sw, act, late, requests>>

Abs(n) == IF n < 0 THEN -n ELSE n

Pending    == {"QUEUED", "PROCESSING"}
Unresolved == {"SUBMITTING", "UNKNOWN"}

NoWork   == [pc |-> "idle", j |-> 0]
NoFan    == [pc |-> "idle", dest |-> Home, born |-> 0]
NoSwitch == [pc |-> "idle", to |-> Home, from |-> 0]
NoAct    == [pc |-> "idle", at |-> 0]

(* since: first epoch whose jobs count as the user's present ones. *)
Init ==
    /\ epochs = <<[dest |-> Home, bound |-> TRUE, since |-> 1]>>
    /\ user = [dest |-> Home, active |-> 1, copy |-> "ACTIVE", acct |-> TRUE, since |-> 1]
    /\ jobs = <<>> /\ ledger = 0 /\ pos = [d \in Dests |-> 0]
    /\ wk = NoWork /\ fan = NoFan /\ sw = NoSwitch /\ act = NoAct
    /\ late = 0 /\ requests = 0

Request == requests < MaxRequests /\ requests' = requests + 1

(* The user row is free of FOR UPDATE. *)
RowFree == sw.pc = "idle"

-----------------------------------------------------------------------------
(* Jobs *)

NewJob(origin, target, dest, born) ==
    [origin |-> origin, target |-> target, dest |-> dest, born |-> born, epoch |-> 0,
     st |-> "QUEUED", row |-> "NONE", ord |-> "NONE", delta |-> 0]

(* The eligible followers are read first; created_at is the transaction's    *)
(* start.                                                                    *)
FanRead ==
    /\ fan.pc = "idle" /\ user.copy \in {"ACTIVE", "SHADOW"} /\ user.acct
    /\ Len(jobs) < MaxJobs
    /\ fan' = [pc |-> "insert", dest |-> user.dest, born |-> Len(epochs)]
    /\ UNCHANGED <<user, epochs, jobs, ledger, pos, wk, sw, act, late, requests>>

FanInsert ==
    /\ fan.pc = "insert" /\ RowFree
    /\ IF Len(jobs) < MaxJobs
       THEN \E t \in {0, 1} : jobs' = Append(jobs, NewJob("STRATEGY", t, fan.dest, fan.born))
       ELSE UNCHANGED jobs
    /\ fan' = NoFan
    /\ UNCHANGED <<user, epochs, ledger, pos, wk, sw, act, late, requests>>

(* bind_job_to_active_destination for an unbound job: its origin in the      *)
(* active epoch must be provable. The provider is never inferred.            *)
Bindable(job) ==
    /\ user.active # 0
    /\ job.born >= epochs[user.active].since
    /\ job.dest = user.dest
    /\ user.dest # "risex"

(* Mutant: nothing is published for a paused follower. *)
Publish_Active(j) ==
    /\ jobs[j].st = "QUEUED" /\ jobs[j].epoch = 0 /\ user.copy # "PAUSED"
    /\ jobs' = [jobs EXCEPT ![j] = IF Bindable(@) THEN [@ EXCEPT !.epoch = user.active]
                                   ELSE [@ EXCEPT !.st = "SKIPPED"]]
    /\ UNCHANGED <<user, epochs, ledger, pos, wk, fan, sw, act, late, requests>>

(* publish_job and repair_stream. *)
Publish(j) ==
    /\ jobs[j].st = "QUEUED" /\ jobs[j].epoch = 0
    /\ jobs' = [jobs EXCEPT ![j] = IF Bindable(@) THEN [@ EXCEPT !.epoch = user.active]
                                   ELSE [@ EXCEPT !.st = "SKIPPED"]]
    /\ UNCHANGED <<user, epochs, ledger, pos, wk, fan, sw, act, late, requests>>

(* A stale job is skipped when its publication is repaired. *)
RepairStale(j) ==
    /\ jobs[j].st = "QUEUED" /\ jobs[j].epoch \notin {0, user.active}
    /\ jobs' = [jobs EXCEPT ![j].st = "SKIPPED"]
    /\ UNCHANGED <<user, epochs, ledger, pos, wk, fan, sw, act, late, requests>>

-----------------------------------------------------------------------------
(* The worker *)

Cur  == jobs[wk.j]
Busy == UNCHANGED <<user, epochs, fan, sw, act, requests>>

Finish(st) == jobs' = [jobs EXCEPT ![wk.j].st = st] /\ wk' = NoWork

Claim(j) ==
    /\ wk.pc = "idle" /\ jobs[j].st = "QUEUED" /\ jobs[j].epoch # 0
    /\ jobs' = [jobs EXCEPT ![j].st = "PROCESSING"]
    /\ wk' = [pc |-> "check", j |-> j]
    /\ UNCHANGED <<ledger, pos, late>> /\ Busy

Matches(job) == job.epoch = user.active /\ epochs[job.epoch].dest = user.dest

Increases(d) == Abs(ledger + d) > Abs(ledger)

(* Mutant: the copy state is not part of the decision. *)
Permitted_Unpaused(job, d) == user.acct

(* SHADOW suppresses every order but an explicit close; PAUSED denies an     *)
(* increase and lets a reduction pass.                                       *)
Permitted(job, d) ==
    /\ user.acct
    /\ user.copy = "SHADOW" => job.origin = "CLOSE_ALL"
    /\ user.copy = "PAUSED" => ~Increases(d)

(* Binding, account, copy state and size under the user lock. SKIPPED stands *)
(* for every end without an order (a shadow job ends DONE).                  *)
Plan ==
    /\ wk.pc = "check" /\ Cur.row = "NONE"
    /\ LET d == Cur.target - ledger
       IN IF ~Matches(Cur) \/ d = 0 \/ ~Permitted(Cur, d) THEN Finish("SKIPPED")
          ELSE /\ wk' = [wk EXCEPT !.pc = "insert"]
               /\ jobs' = [jobs EXCEPT ![wk.j].delta = d]
    /\ UNCHANGED <<ledger, pos, late>> /\ Busy

(* A retried job looks for its order first; the binding still comes before.  *)
(* An attempt that finds nothing changes nothing, except the last one.       *)
Recover ==
    /\ wk.pc = "check" /\ Cur.row # "NONE"
    /\ IF ~Matches(Cur) THEN Finish("SKIPPED") /\ UNCHANGED ledger
       ELSE IF Cur.row = "FINAL" THEN Finish("DONE") /\ UNCHANGED ledger
       ELSE IF Cur.ord \in {"DONE", "REJECTED"}
       THEN /\ jobs' = [jobs EXCEPT ![wk.j].row = "FINAL", ![wk.j].st = "DONE"]
            /\ ledger' = IF Cur.ord = "DONE" THEN ledger + Cur.delta ELSE ledger
            /\ wk' = NoWork
       ELSE Finish("DEAD") /\ UNCHANGED ledger
    /\ UNCHANGED <<pos, late>> /\ Busy

InsertRow ==
    /\ wk.pc = "insert" /\ RowFree
    /\ jobs' = [jobs EXCEPT ![wk.j].row = "SUBMITTING"]
    /\ wk' = [wk EXCEPT !.pc = "authorize"]
    /\ UNCHANGED <<ledger, pos, late>> /\ Busy

(* current_strategy_intent_for_cloid: a stale binding cancels the order. *)
Authorize ==
    /\ wk.pc = "authorize"
    /\ IF Matches(Cur) THEN wk' = [wk EXCEPT !.pc = "post"] /\ UNCHANGED jobs
       ELSE jobs' = [jobs EXCEPT ![wk.j].row = "FINAL", ![wk.j].st = "SKIPPED"] /\ wk' = NoWork
    /\ UNCHANGED <<ledger, pos, late>> /\ Busy

Post ==
    /\ wk.pc = "post"
    /\ jobs' = [jobs EXCEPT ![wk.j].ord = "SENT"]
    /\ wk' = [wk EXCEPT !.pc = "await"]
    /\ late' = IF user.copy = "PAUSED" /\ Increases(Cur.delta) THEN late + 1 ELSE late
    /\ UNCHANGED <<ledger, pos>> /\ Busy

Answer ==
    /\ wk.pc = "await" /\ Cur.ord \in {"DONE", "REJECTED"}
    /\ jobs' = [jobs EXCEPT ![wk.j].row = "FINAL", ![wk.j].st = "DONE"]
    /\ ledger' = IF Cur.ord = "DONE" THEN ledger + Cur.delta ELSE ledger
    /\ wk' = NoWork
    /\ UNCHANGED <<pos, late>> /\ Busy

(* The job is retried, or dead after its last attempt. *)
AnswerLost ==
    /\ wk.pc = "await" /\ Request
    /\ \E st \in {"QUEUED", "DEAD"} :
          jobs' = [jobs EXCEPT ![wk.j].row = "UNKNOWN", ![wk.j].st = st]
    /\ wk' = NoWork
    /\ UNCHANGED <<user, epochs, ledger, pos, fan, sw, act, late>>

(* A dead worker's lease runs out and its job is queued again, or dead. *)
WorkerCrash ==
    /\ wk.pc # "idle" /\ Request
    /\ \E st \in {"QUEUED", "DEAD"} : jobs' = [jobs EXCEPT ![wk.j].st = st]
    /\ wk' = NoWork
    /\ UNCHANGED <<user, epochs, ledger, pos, fan, sw, act, late>>

(* The exchange handles an IOC order at any later time. *)
Land(j) ==
    /\ jobs[j].ord = "SENT"
    /\ \/ /\ pos' = [pos EXCEPT ![epochs[jobs[j].epoch].dest] = @ + jobs[j].delta]
          /\ jobs' = [jobs EXCEPT ![j].ord = "DONE"]
       \/ jobs' = [jobs EXCEPT ![j].ord = "REJECTED"] /\ UNCHANGED pos
    /\ UNCHANGED <<user, epochs, ledger, wk, fan, sw, act, late, requests>>

(* resolve_ambiguous_executions: settled from the exchange, by its epoch. *)
Resolve(j) ==
    /\ wk.pc = "idle" /\ jobs[j].row \in Unresolved /\ jobs[j].ord \in {"DONE", "REJECTED"}
    /\ Matches(jobs[j]) /\ user.acct
    /\ jobs' = [jobs EXCEPT ![j].row = "FINAL"]
    /\ ledger' = pos[user.dest]
    /\ UNCHANGED <<user, epochs, pos, wk, fan, sw, act, late, requests>>

-----------------------------------------------------------------------------
(* Copy controls *)

OthersIdle == UNCHANGED <<pos, wk, fan, sw>>

Pause ==
    /\ RowFree /\ Request /\ user.copy # "PAUSED"
    /\ user' = [user EXCEPT !.copy = "PAUSED"]
    /\ late' = 0
    /\ UNCHANGED <<epochs, jobs, ledger, act>> /\ OthersIdle

Shadow ==
    /\ RowFree /\ Request /\ user.acct
    /\ user' = [user EXCEPT !.copy = "SHADOW"]
    /\ UNCHANGED <<epochs, jobs, ledger, act, late>> /\ OthersIdle

(* close_positions: pause, and one job unless one is pending since the       *)
(* destination began.                                                        *)
ClosePositions ==
    /\ RowFree /\ Request /\ user.active # 0 /\ Len(jobs) < MaxJobs
    /\ user' = [user EXCEPT !.copy = "PAUSED"]
    /\ late' = IF user.copy = "PAUSED" THEN late ELSE 0
    /\ jobs' = IF \/ ledger = 0
                  \/ \E j \in DOMAIN jobs : /\ jobs[j].origin = "CLOSE_ALL"
                                            /\ jobs[j].born >= epochs[user.active].since
                                            /\ jobs[j].st \in Pending
               THEN jobs
               ELSE Append(jobs, NewJob("CLOSE_ALL", 0, user.dest, Len(epochs)))
    /\ UNCHANGED <<epochs, ledger, act>> /\ OthersIdle

(* resume: no pending job, then ACTIVE is committed; the reconciliation      *)
(* makes a job or everything since is taken back.                            *)
Resume ==
    /\ RowFree /\ Request /\ act.pc = "idle" /\ user.acct /\ user.dest # "risex"
    /\ user.active # 0
    /\ \A j \in DOMAIN jobs : jobs[j].st \notin Pending
    /\ user' = [user EXCEPT !.copy = "ACTIVE"]
    /\ act' = [pc |-> "align", at |-> Len(jobs)]
    /\ UNCHANGED <<epochs, jobs, ledger, late>> /\ OthersIdle

Align ==
    /\ act.pc = "align" /\ RowFree /\ wk.pc = "idle"
    /\ ledger' = pos[user.dest]
    /\ jobs' = IF Len(jobs) < MaxJobs /\ user.copy = "ACTIVE"
               THEN Append(jobs, NewJob("STRATEGY", 1, user.dest, Len(epochs))) ELSE jobs
    /\ act' = [act EXCEPT !.pc = "publish"]
    /\ UNCHANGED <<user, epochs, late, requests>> /\ OthersIdle

ResumeDone ==
    /\ act.pc = "publish"
    /\ act' = NoAct
    /\ UNCHANGED <<user, epochs, jobs, ledger, late, requests>> /\ OthersIdle

(* _rollback_activation skips the jobs made since, running ones too. *)
ResumeRollback ==
    /\ act.pc \in {"align", "publish"} /\ RowFree /\ Request
    /\ jobs' = [j \in DOMAIN jobs |->
                  IF j > act.at /\ jobs[j].st \in Pending THEN [jobs[j] EXCEPT !.st = "SKIPPED"]
                  ELSE jobs[j]]
    /\ user' = [user EXCEPT !.copy = "PAUSED"]
    /\ late' = IF user.copy = "PAUSED" THEN late ELSE 0
    /\ act' = NoAct
    /\ UNCHANGED <<epochs, ledger>> /\ OthersIdle

-----------------------------------------------------------------------------
(* Account and destination *)

Open(dest, bound, since) == Append(epochs, [dest |-> dest, bound |-> bound, since |-> since])

(* link_trading_account: the same destination, a new epoch, no questions     *)
(* about orders under way.                                                   *)
Link ==
    /\ RowFree /\ Request /\ Len(epochs) < MaxEpochs /\ user.dest # "risex"
    /\ epochs' = Open(user.dest, TRUE, Len(epochs) + 1)
    /\ user' = [user EXCEPT !.active = Len(epochs) + 1, !.acct = TRUE, !.since = Len(epochs) + 1]
    /\ UNCHANGED <<jobs, ledger, act, late>> /\ OthersIdle

Unlink ==
    /\ RowFree /\ Request /\ ledger = 0
    /\ user' = [user EXCEPT !.active = 0, !.acct = FALSE, !.copy = "PAUSED"]
    /\ late' = IF user.copy = "PAUSED" THEN late ELSE 0
    /\ UNCHANGED <<epochs, jobs, ledger, act>> /\ OthersIdle

(* Any reader of the user's network opens an epoch where there is none; it   *)
(* starts when the last chosen destination did.                              *)
Bootstrap ==
    /\ RowFree /\ user.active = 0 /\ Len(epochs) < MaxEpochs
    /\ epochs' = Open(user.dest, user.acct, user.since)
    /\ user' = [user EXCEPT !.active = Len(epochs) + 1]
    /\ UNCHANGED <<jobs, ledger, act, late, requests>> /\ OthersIdle

(* Mutant: an execution whose answer was lost does not block the switch. *)
Blocked_Settled(e) ==
    \/ user.copy # "PAUSED" \/ ledger # 0
    \/ \E j \in DOMAIN jobs : jobs[j].epoch = e /\ jobs[j].st \in Pending

(* destination_switch_blockers of the source epoch. *)
Blocked(e) ==
    \/ user.copy # "PAUSED" \/ ledger # 0
    \/ \E j \in DOMAIN jobs : jobs[j].epoch = e /\ (jobs[j].st \in Pending \/ jobs[j].row \in Unresolved)

SourceEpoch == IF user.active # 0 THEN user.active ELSE Len(epochs)

Idle == UNCHANGED <<jobs, pos, wk, fan, act, late>>

(* assess_destination_switch: the source can be read at its provider. A user *)
(* that was never activated would skip the read; this one has been.          *)
Verifiable(e) == epochs[e].dest = user.dest /\ epochs[e].bound /\ user.acct /\ user.dest # "risex"

(* trading_provider, trading_network: up to the provider read. *)
SwitchBegin ==
    /\ RowFree /\ Request /\ Len(epochs) < MaxEpochs
    /\ \E to \in Dests \ {user.dest} :
          LET e == SourceEpoch
          IN /\ ~Blocked(e) /\ Verifiable(e)
             /\ sw' = [pc |-> "read", to |-> to, from |-> e]
    /\ UNCHANGED <<user, epochs, ledger>> /\ Idle

(* Positions and open orders of the account; unreadable is an abort. *)
SwitchRead ==
    /\ sw.pc = "read" /\ pos[user.dest] = 0
    /\ sw' = [sw EXCEPT !.pc = "commit"]
    /\ UNCHANGED <<user, epochs, ledger, requests>> /\ Idle

SwitchAbort ==
    /\ sw.pc \in {"read", "commit"}
    /\ sw' = NoSwitch
    /\ UNCHANGED <<user, epochs, ledger, requests>> /\ Idle

(* The local blockers again, then the new epoch; account and ledger go. *)
SwitchCommit ==
    /\ sw.pc = "commit" /\ ~Blocked(sw.from)
    /\ epochs' = Open(sw.to, sw.to = "risex", Len(epochs) + 1)
    /\ user' = [user EXCEPT !.dest = sw.to, !.active = Len(epochs) + 1, !.acct = FALSE,
                            !.since = Len(epochs) + 1]
    /\ ledger' = 0
    /\ sw' = NoSwitch
    /\ UNCHANGED requests /\ Idle

-----------------------------------------------------------------------------
WorkerStep ==
    \/ \E j \in DOMAIN jobs : Claim(j)
    \/ Plan \/ Recover \/ InsertRow \/ Authorize \/ Post \/ Answer

Next ==
    \/ FanRead \/ FanInsert
    \/ \E j \in DOMAIN jobs : Publish(j) \/ RepairStale(j) \/ Land(j) \/ Resolve(j)
    \/ WorkerStep \/ AnswerLost \/ WorkerCrash
    \/ Pause \/ Shadow \/ ClosePositions
    \/ Resume \/ Align \/ ResumeDone \/ ResumeRollback
    \/ Link \/ Unlink \/ Bootstrap
    \/ SwitchBegin \/ SwitchRead \/ SwitchAbort \/ SwitchCommit

(* Worker and stream repair run for ever, the exchange handles what it gets, *)
(* the switch ends (its reads have a timeout) and its lock is fair (SF).     *)
Fairness ==
    /\ SF_vars(WorkerStep)
    /\ WF_vars(\E j \in DOMAIN jobs : Publish(j))
    /\ WF_vars(\E j \in DOMAIN jobs : Land(j))
    /\ WF_vars(SwitchAbort)

Spec == Init /\ [][Next]_vars /\ Fairness

-----------------------------------------------------------------------------
(* Properties *)

(* Types of the user, its epochs, jobs and tasks. *)
TypeOK ==
    /\ user \in [dest : Dests, active : 0..MaxEpochs, copy : {"ACTIVE", "PAUSED", "SHADOW"},
                 acct : BOOLEAN, since : 1..MaxEpochs]
    /\ epochs \in Seq([dest : Dests, bound : BOOLEAN, since : 1..MaxEpochs])
    /\ jobs \in Seq([origin : {"STRATEGY", "CLOSE_ALL"}, target : {0, 1}, dest : Dests,
                     born : 1..MaxEpochs, epoch : 0..MaxEpochs,
                     st : Pending \cup {"DONE", "SKIPPED", "DEAD"},
                     row : {"NONE", "FINAL"} \cup Unresolved,
                     ord : {"NONE", "SENT", "DONE", "REJECTED"}, delta : Int])
    /\ ledger \in Int /\ pos \in [Dests -> Int] /\ late \in Nat
    /\ wk.j \in 0..Len(jobs) /\ user.active <= Len(epochs)

(* The order's epoch was closed by linking the account again, which no       *)
(* blocker of a later switch looks behind.                                   *)
Relinked(e) == e < Len(epochs) /\ epochs[e + 1].dest = epochs[e].dest

(* No order reaches a destination the user has left, and no position stays   *)
(* behind there: pause, blockers, provider read and re-check leave no gap    *)
(* between them, whatever the worker and the exchange have under way; and a  *)
(* job executes on its own destination only, in no epoch younger than it.    *)
(* The exception is an order of an epoch closed by linking the account       *)
(* again.                                                                    *)
NothingLeftBehind ==
    /\ \A j \in DOMAIN jobs :
          /\ jobs[j].ord = "SENT" =>
                epochs[jobs[j].epoch].dest = user.dest \/ Relinked(jobs[j].epoch)
          /\ jobs[j].row # "NONE" => /\ epochs[jobs[j].epoch].dest = jobs[j].dest
                                     /\ epochs[jobs[j].epoch].since <= jobs[j].born
    /\ \A d \in Dests \ {user.dest} :
          pos[d] = 0 \/ \E j \in DOMAIN jobs : jobs[j].ord = "DONE" /\ Relinked(jobs[j].epoch)

(* Pausing stops copying up to the one order the worker has already decided  *)
(* on: no second increase is sent until copying is resumed, also when the    *)
(* pause is an activation rolled back, a close-all or an unlink.             *)
PauseStops == user.copy = "PAUSED" => late <= 1

CloseAsked(j) == j \in DOMAIN jobs /\ jobs[j].origin = "CLOSE_ALL"
CloseEnded(j) == j \in DOMAIN jobs /\ jobs[j].st \notin Pending

(* Every close request is executed or refused, whatever was under way when   *)
(* it was made.                                                              *)
CloseAllEnds == \A j \in 1..MaxJobs : CloseAsked(j) ~> CloseEnded(j)
=============================================================================
