------------------------------ MODULE ProfitExit ------------------------------
(***************************************************************************)
(* AI profit exit for one Hyperliquid follower, one market and one         *)
(* execution epoch: the evaluator commits CLOSE_PROFIT decisions with      *)
(* their job, the execution worker closes the position through the normal  *)
(* execution row, and the durable decision is the memory that keeps EVENT  *)
(* and RECONCILE jobs from reopening the same master cycle.                *)
(*                                                                         *)
(* A cycle is named by the master event that opened it and is proved from  *)
(* the events persisted before a snapshot, in their causal order; 0 is an  *)
(* unproven cycle. The order of a strategy job is one step here (module    *)
(* CopyExecution has its detail), the exit order is not. SHADOW mode       *)
(* leaves no operational state and counts as OFF.                          *)
(***************************************************************************)
EXTENDS Integers, Sequences, FiniteSets, FiniteSetsExt

CONSTANTS
    Positions,      \* positions of the master, in follower units; contains 0
    MaxMoves,       \* bound: moves of the master
    MaxDecisions,   \* bound: CLOSE_PROFIT decisions
    MaxAttempts,    \* MAX_JOB_RETRIES
    MaxEvents       \* bound: crashes, mode and copy-state changes

VARIABLES
    moves,          \* master position changes, oldest first
    log,            \* indices of the moves persisted as MasterEvent, by causal_order
    mode, copy,     \* ai_profit_exit_mode, User.copy_state
    fpos, ledger,   \* follower position on the exchange, PositionLedger.size
    dec,            \* AIProfitExitDecision, its CopyJob, Execution and order
    ev,             \* evaluate_profit_exit_portfolio
    rc,             \* reconcile_active_users and the job it made
    wk,             \* _process_ai_profit_exit_locked; holds the user lock unless idle
    intent,         \* newest event a strategy job was made for or covers
    entry,          \* history: cycle and executed exits when exposure last grew
    events

vars == <<moves, log, mode, copy, fpos, ledger, dec, ev, rc, wk, intent, entry, events>>

Abs(n)  == IF n < 0 THEN -n ELSE n
Sign(n) == IF n < 0 THEN -1 ELSE IF n > 0 THEN 1 ELSE 0

Operational == {"PENDING", "PARTIAL", "COMPLETED", "AMBIGUOUS"}
Unresolved  == {"SUBMITTING", "UNKNOWN"}

NoEval == [pc |-> "idle", cycle |-> 0, pos |-> 0]
NoRun  == [pc |-> "idle", bound |-> 0, at |-> 0]
NoWork == [pc |-> "idle", d |-> 0]

Init ==
    /\ moves = <<>> /\ log = <<>> /\ mode = "ON" /\ copy = "ACTIVE"
    /\ fpos = 0 /\ ledger = 0 /\ dec = <<>>
    /\ ev = NoEval /\ rc = NoRun /\ wk = NoWork
    /\ intent = 0 /\ entry = [cycle |-> 0, proven |-> TRUE, exits |-> {}] /\ events = 0

Disturb == events < MaxEvents /\ events' = events + 1

-----------------------------------------------------------------------------
(* The source cycle *)

PositionAt(i)  == IF i = 0 THEN 0 ELSE moves[i].after
MasterPosition == PositionAt(Len(moves))

(* OPEN or REVERSE starts a cycle, CONTINUE stays in it. *)
Starts(m)    == m.after # 0 /\ Sign(m.start) # Sign(m.after)
Continues(m) == m.start # 0 /\ Sign(m.start) = Sign(m.after)

(* The cycle the master was really in after move i. *)
TrueCycle(i) == LET starts == {k \in 1..i : Starts(moves[k])}
                IN IF PositionAt(i) = 0 THEN 0 ELSE Max(starts)

(* resolve_current_source_cycle on the first bound events. *)
SourceCycle(bound, pos) ==
    LET m(k)   == moves[log[k]]
        starts == {k \in 1..bound : Starts(m(k))}
    IN IF pos = 0 \/ starts = {} THEN 0
       ELSE IF m(bound).after # pos THEN 0
       ELSE IF \A k \in Max(starts)..(bound - 1) :
                  m(k).after = m(k + 1).start /\ Continues(m(k + 1)) /\ log[k] < log[k + 1]
       THEN log[Max(starts)]
       ELSE 0

(* Mutant: an ambiguous exit is forgotten. *)
Remembers_Settled(c) ==
    \E d \in DOMAIN dec : dec[d].st \in Operational \ {"AMBIGUOUS"}
                          /\ (c # 0 => dec[d].cycle = c)

(* read_operational_profit_exit_memory: of this cycle, or of any if unproven. *)
Remembers(c) ==
    \E d \in DOMAIN dec : dec[d].st \in Operational /\ (c # 0 => dec[d].cycle = c)

-----------------------------------------------------------------------------
(* The master and its watcher *)

MasterMove ==
    /\ Len(moves) < MaxMoves
    /\ \E p \in Positions \ {MasterPosition} :
          moves' = Append(moves, [start |-> MasterPosition, after |-> p])
    /\ UNCHANGED <<log, mode, copy, fpos, ledger, dec, ev, rc, wk, intent, entry, events>>

(* The watcher persists fills in their order and may skip one (module        *)
(* MasterWatcher); causal_order is the order of persistence.                 *)
PersistMove ==
    /\ \E i \in DOMAIN moves : (\A k \in DOMAIN log : log[k] < i) /\ log' = Append(log, i)
    /\ UNCHANGED <<moves, mode, copy, fpos, ledger, dec, ev, rc, wk, intent, entry, events>>

-----------------------------------------------------------------------------
(* Strategy jobs *)

Executed(d) == dec[d].fill > 0 /\ dec[d].row # "CANCELED"

(* Reduce-only orders move a position towards zero and not past it. *)
Reduced(p, n) == IF n >= Abs(p) THEN 0 ELSE p - n * Sign(p)

(* Position after the order from the ledger to the target: a reduction is    *)
(* reduce-only, a reversal opens only after its close leg has flattened.     *)
Traded(target) ==
    IF Sign(target) = -Sign(ledger) /\ target # 0 THEN (IF fpos = ledger THEN target ELSE fpos)
    ELSE IF Abs(target) < Abs(ledger)
         THEN (IF Sign(fpos) = Sign(ledger) THEN Reduced(fpos, Abs(ledger) - Abs(target)) ELSE fpos)
    ELSE fpos + target - ledger

Grows(p) == Abs(p) > Abs(fpos) \/ (p # 0 /\ Sign(p) = -Sign(fpos))

(* The fence at the action boundary, then the order towards the position     *)
(* after move i, whose cycle the first bound events prove or not.            *)
Retarget(bound, i) ==
    LET target == PositionAt(i)
        c == SourceCycle(bound, target)
        p == Traded(target)
    IN IF target # 0 /\ Remembers(c)
       THEN UNCHANGED <<fpos, ledger, entry>>
       ELSE /\ fpos' = p
            /\ ledger' = ledger + p - fpos
            /\ entry' = IF Grows(p)
                        THEN [cycle |-> TrueCycle(i), proven |-> c # 0,
                              exits |-> {d \in DOMAIN dec : Executed(d)}]
                        ELSE entry

(* The job of the newest event; every older intent is superseded. *)
EventJob ==
    /\ wk.pc = "idle" /\ copy = "ACTIVE" /\ intent < Len(log)
    /\ Retarget(Len(log), log[Len(log)])
    /\ intent' = Len(log)
    /\ UNCHANGED <<moves, log, mode, copy, dec, ev, rc, wk, events>>

Synced(d) == [d EXCEPT !.applied = (d.row = "FILLED") \/ @]

(* Snapshots of master and follower. The ledger is set to the exchange; a    *)
(* job is made unless an execution is unresolved, copying is paused or the   *)
(* memory holds the position.                                                *)
RcCommit ==
    /\ rc.pc = "idle" /\ wk.pc = "idle"
    /\ ledger' = fpos
    /\ dec' = [d \in DOMAIN dec |-> Synced(dec[d])]
    /\ IF /\ copy = "ACTIVE" /\ fpos # MasterPosition
          /\ \A d \in DOMAIN dec : dec[d].row \notin Unresolved
          /\ ~(MasterPosition # 0 /\ Remembers(SourceCycle(Len(log), MasterPosition)))
       THEN /\ rc' = [pc |-> "job", bound |-> Len(log), at |-> Len(moves)]
            /\ intent' = Len(log)
       ELSE UNCHANGED <<rc, intent>>
    /\ UNCHANGED <<moves, log, mode, copy, fpos, ev, wk, entry, events>>

(* The job carries the snapshot's boundary; a newer intent supersedes it. *)
RcJob ==
    /\ rc.pc = "job" /\ wk.pc = "idle" /\ copy = "ACTIVE"
    /\ IF rc.bound < Len(log) THEN UNCHANGED <<fpos, ledger, entry>>
       ELSE Retarget(rc.bound, rc.at)
    /\ rc' = NoRun
    /\ UNCHANGED <<moves, log, mode, copy, dec, ev, wk, intent, events>>

-----------------------------------------------------------------------------
(* The evaluator: one replica at a time, mode read once *)

(* Mutant: only a pending exit stands in the way of the next one. *)
MayEvaluate_Ambiguous(c) ==
    \A d \in DOMAIN dec : dec[d].cycle = c => dec[d].st # "PENDING"

MayEvaluate(c) ==
    \A d \in DOMAIN dec : dec[d].cycle = c =>
        dec[d].st \notin {"PENDING", "AMBIGUOUS", "COMPLETED"}

(* Snapshot, cycle, memory and economics, before the language model is asked *)
(* about the follower's position.                                            *)
EvRead ==
    /\ ev.pc = "idle" /\ mode = "ON" /\ Len(dec) < MaxDecisions
    /\ copy = "ACTIVE" /\ fpos # 0 /\ ledger = fpos
    /\ LET c == SourceCycle(Len(log), MasterPosition)
       IN c # 0 /\ MayEvaluate(c) /\ ev' = [pc |-> "decide", cycle |-> c, pos |-> fpos]
    /\ UNCHANGED <<moves, log, mode, copy, fpos, ledger, dec, rc, wk, intent, entry, events>>

(* HOLD, ABSTAIN, unprofitable or incomplete economics, or a crash. *)
EvAbstain ==
    /\ ev.pc = "decide"
    /\ ev' = NoEval
    /\ UNCHANGED <<moves, log, mode, copy, fpos, ledger, dec, rc, wk, intent, entry, events>>

(* CLOSE_PROFIT: the decision and its job in one commit. *)
EvCommit ==
    /\ ev.pc = "decide"
    /\ dec' = Append(dec, [cycle |-> ev.cycle, side |-> Sign(ev.pos), st |-> "PENDING",
                           job |-> "READY", att |-> 0, row |-> "NONE",
                           size |-> 0, base |-> 0, applied |-> FALSE, ord |-> "NONE", fill |-> 0])
    /\ ev' = NoEval
    /\ UNCHANGED <<moves, log, mode, copy, fpos, ledger, rc, wk, intent, entry, events>>

-----------------------------------------------------------------------------
(* The worker *)

Cur  == dec[wk.d]
Busy == UNCHANGED <<moves, log, mode, copy, fpos, ev, rc, intent, entry, events>>

EndJob(job, st)  == dec' = [dec EXCEPT ![wk.d].job = job, ![wk.d].st = st] /\ wk' = NoWork
RetryOrDead(row) ==
    /\ dec' = [dec EXCEPT ![wk.d].st = "AMBIGUOUS", ![wk.d].row = row,
                          ![wk.d].job = IF Cur.att >= MaxAttempts THEN "DEAD" ELSE "READY"]
    /\ wk' = NoWork

Claim(d) ==
    /\ wk.pc = "idle" /\ dec[d].job = "READY"
    /\ dec' = [dec EXCEPT ![d].job = "PROCESSING", ![d].att = @ + 1]
    /\ wk' = [pc |-> "claimed", d |-> d]
    /\ ledger' = ledger /\ Busy

(* Copy state, mode, side and ledger; expiry or economics may always refuse. *)
Admissible ==
    /\ Cur.st = "PENDING" /\ copy = "ACTIVE" /\ mode = "ON"
    /\ fpos # 0 /\ Sign(fpos) = Cur.side /\ ledger = fpos

Refuse ==
    /\ wk.pc = "claimed" /\ Cur.row = "NONE"
    /\ EndJob("SKIPPED", "FAILED")
    /\ ledger' = ledger /\ Busy

InsertRow ==
    /\ wk.pc = "claimed" /\ Cur.row = "NONE" /\ Admissible
    /\ dec' = [dec EXCEPT ![wk.d].row = "SUBMITTING", ![wk.d].size = Abs(fpos),
                          ![wk.d].base = ledger]
    /\ wk' = [wk EXCEPT !.pc = "revalidate"]
    /\ ledger' = ledger /\ Busy

StillValid ==
    /\ mode = "ON" /\ Cur.st = "PENDING"
    /\ SourceCycle(Len(log), MasterPosition) = Cur.cycle
    /\ Sign(fpos) = Cur.side /\ Abs(fpos) = Cur.size

(* The outcome is durable before anything is concluded from it. *)
Conclude(row, st) ==
    /\ dec' = [dec EXCEPT ![wk.d].row = row, ![wk.d].st = st]
    /\ wk' = [wk EXCEPT !.pc = IF row = "FILLED" THEN "apply" ELSE "failed"]
    /\ ledger' = ledger /\ Busy

(* _revalidate_profit_exit raises, for a check above, for economics or price *)
(* or because a read failed: place_ioc reports a local cancellation of an    *)
(* order that was never sent.                                                *)
RevalidateFails ==
    /\ wk.pc = "revalidate"
    /\ Conclude("CANCELED", Cur.st)

(* The writer fence, checked after it, is a local cancellation as well.      *)
WriterFenced ==
    /\ wk.pc = "post"
    /\ Conclude("CANCELED", Cur.st)

(* Any other exception before the request is out (market data, signer lock,  *)
(* budget, signing) is taken for a lost answer.                              *)
SubmitFails ==
    /\ wk.pc \in {"revalidate", "post"}
    /\ RetryOrDead("UNKNOWN")
    /\ ledger' = ledger /\ Busy

Revalidate ==
    /\ wk.pc = "revalidate" /\ StillValid
    /\ wk' = [wk EXCEPT !.pc = "post"]
    /\ UNCHANGED <<dec, ledger>> /\ Busy

Post ==
    /\ wk.pc = "post"
    /\ dec' = [dec EXCEPT ![wk.d].ord = "SENT"]
    /\ wk' = [wk EXCEPT !.pc = "await"]
    /\ ledger' = ledger /\ Busy

AnswerLost ==
    /\ wk.pc = "await"
    /\ RetryOrDead("UNKNOWN")
    /\ ledger' = ledger /\ Busy

Answer ==
    /\ wk.pc = "await" /\ Cur.ord = "DONE"
    /\ Conclude(IF Cur.fill > 0 THEN "FILLED" ELSE "CANCELED", Cur.st)

(* Mutant: an order the exchange does not know is taken for canceled. *)
Queried_Unknown(e) == IF e.ord = "DONE" /\ e.fill = e.size THEN {"FILLED"} ELSE {"CANCELED"}

(* _resolve_cloid, besides UNKNOWN: a partly filled IOC is a terminal cancel. *)
Queried(e) ==
    IF e.ord # "DONE" THEN {} ELSE {IF e.fill = e.size THEN "FILLED" ELSE "CANCELED"}

(* Recovery of an existing row comes before every other check. *)
RecoverUnknown ==
    /\ wk.pc = "claimed" /\ Cur.row \in Unresolved
    /\ RetryOrDead(Cur.row)
    /\ ledger' = ledger /\ Busy

(* The decision is ambiguous until what the query found is acted upon. *)
RecoverQueried ==
    /\ wk.pc = "claimed" /\ Cur.row \in Unresolved
    /\ \E row \in Queried(Cur) : Conclude(row, "AMBIGUOUS")

RecoverStored ==
    /\ wk.pc = "claimed" /\ Cur.row \in {"FILLED", "CANCELED"}
    /\ Conclude(Cur.row, Cur.st)

NotFilled ==
    /\ wk.pc = "failed"
    /\ EndJob("SKIPPED", "FAILED")
    /\ ledger' = ledger /\ Busy

(* _apply_fill_to_ledger: once, and only onto the ledger of the submission. *)
Apply ==
    /\ wk.pc = "apply" /\ (Cur.applied \/ ledger = Cur.base)
    /\ ledger' = IF Cur.applied THEN ledger ELSE ledger - Cur.side * Cur.fill
    /\ dec' = [dec EXCEPT ![wk.d].applied = TRUE]
    /\ wk' = [wk EXCEPT !.pc = "finish"]
    /\ Busy

ApplyDeferred ==
    /\ wk.pc = "apply" /\ ~Cur.applied /\ ledger # Cur.base
    /\ RetryOrDead(Cur.row)
    /\ ledger' = ledger /\ Busy

FinishExit ==
    /\ wk.pc = "finish"
    /\ EndJob("DONE", IF Cur.fill < Cur.size \/ ledger # 0 THEN "PARTIAL" ELSE "COMPLETED")
    /\ ledger' = ledger /\ Busy

-----------------------------------------------------------------------------
(* Resolver, leases and the environment *)

(* resolve_ambiguous_executions settles the row and the ledger, never the    *)
(* decision.                                                                 *)
Resolve(d) ==
    /\ wk.pc = "idle" /\ dec[d].row \in Unresolved
    /\ \E row \in Queried(dec[d]) :
          /\ dec' = [dec EXCEPT ![d].row = row, ![d].applied = (row = "FILLED")]
          /\ ledger' = IF row = "FILLED" THEN fpos ELSE ledger
    /\ UNCHANGED <<moves, log, mode, copy, fpos, ev, rc, wk, intent, entry, events>>

(* Mutant: only jobs that reached their execution row are released. *)
ReleaseStale_Started(d) ==
    /\ wk.d # d /\ dec[d].job = "PROCESSING" /\ dec[d].row # "NONE"
    /\ dec' = [dec EXCEPT ![d].job = IF dec[d].att < MaxAttempts THEN "READY" ELSE "DEAD"]
    /\ UNCHANGED <<moves, log, mode, copy, fpos, ledger, ev, rc, wk, intent, entry, events>>

ReleaseStale(d) ==
    /\ wk.d # d /\ dec[d].job = "PROCESSING"
    /\ dec' = [dec EXCEPT ![d].job = IF dec[d].att < MaxAttempts THEN "READY" ELSE "DEAD"]
    /\ UNCHANGED <<moves, log, mode, copy, fpos, ledger, ev, rc, wk, intent, entry, events>>

(* The exchange handles the reduce-only IOC, in full, in part or not at all. *)
Land(d) ==
    /\ dec[d].ord = "SENT"
    /\ \E n \in 0..dec[d].size :
          /\ n > 0 => Sign(fpos) = dec[d].side /\ n <= Abs(fpos)
          /\ dec' = [dec EXCEPT ![d].ord = "DONE", ![d].fill = n]
          /\ fpos' = fpos - dec[d].side * n
    /\ UNCHANGED <<moves, log, mode, copy, ledger, ev, rc, wk, intent, entry, events>>

SetMode ==
    /\ Disturb
    /\ mode' = IF mode = "ON" THEN "OFF" ELSE "ON"
    /\ UNCHANGED <<moves, log, copy, fpos, ledger, dec, ev, rc, wk, intent, entry>>

SetCopyState ==
    /\ Disturb
    /\ copy' = IF copy = "ACTIVE" THEN "PAUSED" ELSE "ACTIVE"
    /\ UNCHANGED <<moves, log, mode, fpos, ledger, dec, ev, rc, wk, intent, entry>>

WorkerCrash ==
    /\ wk.pc # "idle" /\ Disturb
    /\ wk' = NoWork
    /\ UNCHANGED <<moves, log, mode, copy, fpos, ledger, dec, ev, rc, intent, entry>>

-----------------------------------------------------------------------------
WorkerStep ==
    \/ \E d \in DOMAIN dec : Claim(d)
    \/ Refuse \/ InsertRow \/ RevalidateFails \/ WriterFenced \/ SubmitFails
    \/ Revalidate \/ Post \/ AnswerLost \/ Answer
    \/ RecoverUnknown \/ RecoverQueried \/ RecoverStored \/ NotFilled
    \/ Apply \/ ApplyDeferred \/ FinishExit

Release == \E d \in DOMAIN dec : ReleaseStale(d)

Next ==
    \/ MasterMove \/ PersistMove
    \/ EventJob \/ RcCommit \/ RcJob
    \/ EvRead \/ EvAbstain \/ EvCommit
    \/ WorkerStep \/ Release
    \/ \E d \in DOMAIN dec : Resolve(d) \/ Land(d)
    \/ SetMode \/ SetCopyState \/ WorkerCrash

(* The worker consumes for ever and expired leases are released. *)
Fairness == WF_vars(WorkerStep) /\ WF_vars(Release)

Spec == Init /\ [][Next]_vars /\ Fairness

-----------------------------------------------------------------------------
(* Properties *)

(* Types of the master log, the decisions and the tasks. *)
TypeOK ==
    /\ moves \in Seq([start : Positions, after : Positions])
    /\ log \in Seq(1..MaxMoves) /\ intent \in 0..MaxMoves
    /\ mode \in {"ON", "OFF"} /\ copy \in {"ACTIVE", "PAUSED"}
    /\ fpos \in Int /\ ledger \in Int
    /\ dec \in Seq([cycle : 1..MaxMoves, side : {-1, 1},
                    st : {"PENDING", "PARTIAL", "COMPLETED", "FAILED", "AMBIGUOUS"},
                    job : {"READY", "PROCESSING", "DONE", "SKIPPED", "DEAD"},
                    att : 0..MaxAttempts, row : {"NONE", "FILLED", "CANCELED"} \cup Unresolved,
                    size : Nat, base : Int, applied : BOOLEAN,
                    ord : {"NONE", "SENT", "DONE"}, fill : Nat])
    /\ wk.d \in 0..Len(dec)

(* Exposure never grows in the master cycle that an executed exit has left,  *)
(* nor in an unproven cycle once an exit has executed, whatever events were  *)
(* missed or persisted late and whatever was crashed, ambiguous, retried,    *)
(* paused or switched off in between. An exit whose partial fill the         *)
(* exchange reports as a cancel is not known.                                *)
NoReopen ==
    \A d \in entry.exits : entry.proven /\ dec[d].cycle # entry.cycle

(* One exit of a cycle at a time: a second decision never joins one whose    *)
(* order is pending or may still fill.                                       *)
OneLiveExit ==
    \A c, d \in DOMAIN dec :
        c # d /\ dec[c].cycle = dec[d].cycle =>
            ~(dec[c].st \in {"PENDING", "AMBIGUOUS"} /\ dec[d].st \in {"PENDING", "AMBIGUOUS"})

(* A decision is declared failed, and forgotten, only when its order was     *)
(* never sent or the exchange is done with it and reports no fill.           *)
FailedIsOver ==
    \A d \in DOMAIN dec :
        dec[d].st = "FAILED" =>
            dec[d].ord = "NONE" \/ (dec[d].ord = "DONE" /\ dec[d].fill < dec[d].size)

Taken(d)   == d \in DOMAIN dec
Decided(d) == Taken(d) /\ (dec[d].st # "PENDING" \/ dec[d].job = "DEAD")

(* No decision stays pending: it is executed, refused or marked ambiguous,   *)
(* unless its job dies of crashes.                                           *)
DecisionSettles == \A d \in 1..MaxDecisions : Taken(d) ~> Decided(d)
=============================================================================
