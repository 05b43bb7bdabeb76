------------------------ MODULE CopyExecutionProofs ------------------------
(***************************************************************************)
(* Theorems about CopyExecution for every number of workers and attempts   *)
(* and every set of positions.                                             *)
(*                                                                         *)
(* Typing and the single submission hold without further assumptions. What *)
(* the user lock protects (outcomes, the ledger, verdicts) is proved for   *)
(* behaviours in which no lock connection drops, MaxLockLoss = 0; that the *)
(* ledger is explained by the fills, also for a follower who does not      *)
(* trade by hand, MaxManual = 0. How the legs of a job follow one another  *)
(* is proved for one job, with or without the lock, and that its fills are *)
(* counted exactly once for one job under the lock. That exposure stays    *)
(* bounded is proved for any number of jobs of the reconciler.             *)
(***************************************************************************)
EXTENDS CopyExecution, FiniteSetTheorems, WellFoundedInduction, TLAPS

USE DEF JobStates, ClaimableStates, ActiveJobStates, TerminalJobStates,
        UnresolvedStates, TerminalExecStates, ExecStates, PCs, Results, Kinds,
        AllOrigins, OrderStates

-----------------------------------------------------------------------------
(* Typing *)

(* A busy worker is at one of the executions of its job.                     *)
LEMMA ExecOfTyped ==
    ASSUME NEW w \in Workers, WorkersOK, pc[w] # "idle"
    PROVE  ExecOf(w) \in Execs /\ wk[w].job \in Jobs /\ wk[w].kind \in Kinds
BY DEF WorkersOK, ExecOf, Execs, Works

(* The constant records have their types.                                    *)
LEMMA RecordsTyped ==
    /\ NoLeg \in Legs /\ NoIntent \in Intents /\ NoWork \in Works
    /\ ResIdle \in Resolutions /\ RecIdle \in Reconciliations
BY DEF NoLeg, Legs, NoIntent, Intents, NoWork, Works, Ledgers, ResIdle, Resolutions,
       RecIdle, Reconciliations

(* A part of the state that a step leaves alone keeps its type.              *)
LEMMA Stutter ==
    /\ JobsOK /\ UNCHANGED jobVars => JobsOK'
    /\ ExecsOK /\ UNCHANGED execVars => ExecsOK'
    /\ LedgerOK /\ UNCHANGED <<ledger, lock, counted>> => LedgerOK'
    /\ WorkersOK /\ UNCHANGED <<pc, wk>> => WorkersOK'
    /\ MaintenanceOK /\ UNCHANGED <<res, rec>> => MaintenanceOK'
    /\ ExchangeOK /\ UNCHANGED exchVars => ExchangeOK'
    /\ SourcesOK /\ UNCHANGED <<srcVars, ghosts>> => SourcesOK'
BY DEF JobsOK, jobVars, ExecsOK, execVars, LedgerOK, WorkersOK, MaintenanceOK,
       ExchangeOK, exchVars, SourcesOK, srcVars, ghosts

(* One worker moving to a typed program counter and record keeps the type.   *)
LEMMA WorkerMoves ==
    ASSUME WorkersOK, NEW w \in Workers, NEW s \in PCs, NEW r \in Works,
           s # "idle" => r.job \in Jobs,
           pc' = [pc EXCEPT ![w] = s], wk' = [wk EXCEPT ![w] = r]
    PROVE  WorkersOK'
BY DEF WorkersOK

(* GoFinish, Dispatch: the worker moves on with the same job.                *)
LEMMA FinishTyped ==
    ASSUME WorkersOK, NEW w \in Workers, pc[w] # "idle", NEW r \in Results, GoFinish(w, r)
    PROVE  WorkersOK'
<1>1. [wk[w] EXCEPT !.result = r] \in Works BY DEF WorkersOK, Works
<1>2. [wk[w] EXCEPT !.result = r].job \in Jobs BY ExecOfTyped DEF WorkersOK, Works
<1>3. wk' = [wk EXCEPT ![w] = [wk[w] EXCEPT !.result = r]] BY DEF GoFinish, WorkersOK
<1>4. pc' = [pc EXCEPT ![w] = "finish"] BY DEF GoFinish
<1> QED BY <1>1, <1>2, <1>3, <1>4, WorkerMoves

(* Dispatch: the worker goes on with its job, to the fill or to the end.     *)
LEMMA DispatchTyped ==
    ASSUME WorkersOK, NEW w \in Workers, pc[w] # "idle", NEW out, Dispatch(w, out)
    PROVE  WorkersOK'
<1>1. CASE out = "FILLED" BY <1>1, ExecOfTyped DEF Dispatch, WorkersOK
<1>2. CASE out # "FILLED"
  <2>1. PICK r \in Results : GoFinish(w, r) BY <1>2 DEF Dispatch
  <2> QED BY <2>1, FinishTyped
<1> QED BY <1>1, <1>2

(* _persist_outcome: an outcome of its type keeps the execution rows typed.  *)
LEMMA PersistTyped ==
    ASSUME ExecsOK, NEW e \in Execs, NEW out \in ExecStates, NEW filled \in Int,
           PersistOutcome(e, out, filled)
    PROVE  ExecsOK'
BY DEF ExecsOK, PersistOutcome

(* Unlock: releasing a lock, held or lost, leaves a lock owner or nobody.    *)
LEMMA UnlockTyped ==
    ASSUME LedgerOK, NEW a, lock' = Unlock(a), UNCHANGED <<ledger, counted>>
    PROVE  LedgerOK'
BY DEF LedgerOK, Unlock

(* SyncLedger: a snapshot taken over gives a typed ledger row.               *)
LEMMA SyncTyped ==
    ASSUME LedgerOK, NEW size \in Int, NEW last \in Execs \cup {NoExec}, NEW seen,
           NEW a, SyncLedger(size, last, seen), lock' = Unlock(a)
    PROVE  LedgerOK'
BY DEF LedgerOK, Ledgers, SyncLedger, TerminalExecs, Unlock

(* The initial database, workers and exchange have their types.              *)
LEMMA InitTyped == Init => TypeOK
<1> SUFFICES ASSUME Init PROVE TypeOK OBVIOUS
<1>0. pos \in Int BY PositionsAssumption DEF Init
<1>1. JobsOK BY RecordsTyped DEF Init, JobsOK
<1>2. ExecsOK BY RecordsTyped DEF Init, ExecsOK
<1>3. LedgerOK BY <1>0 DEF Init, LedgerOK, Ledgers
<1>4. WorkersOK BY RecordsTyped DEF Init, WorkersOK
<1>5. MaintenanceOK BY RecordsTyped DEF Init, MaintenanceOK, ResIdle
<1>6. ExchangeOK BY <1>0 DEF Init, ExchangeOK
<1>7. SourcesOK BY <1>0 DEF Init, SourcesOK
<1> QED BY <1>1, <1>2, <1>3, <1>4, <1>5, <1>6, <1>7 DEF TypeOK

(* The sources of jobs and the queue maintenance.                            *)
LEMMA JobStepTyped == ASSUME TypeOK, NEW j \in Jobs, JobStep(j) PROVE TypeOK'
<1> USE DEF TypeOK
<1>0. \A it \in Intents : CreateJob(j, it) /\ UNCHANGED <<jobOwner, jobAttempts, hinted>>
                          => JobsOK'
  BY DEF JobsOK, CreateJob
<1>1. CASE MasterFill(j)
  <2> DEFINE it == [origin |-> "EVENT", order |-> causal + 1, target |-> master,
                    safe |-> FALSE]
  <2>1. it \in Intents BY DEF Intents, SourcesOK
  <2>a. CreateJob(j, it) /\ UNCHANGED <<jobOwner, jobAttempts, hinted>> BY <1>1 DEF MasterFill
  <2> HIDE DEF it
  <2>2. JobsOK' BY <1>0, <2>a, <2>1
  <2>b. causal' = causal + 1 /\ moved' = FALSE /\ UNCHANGED <<master, moves, paused, ghosts>>
    BY <1>1 DEF MasterFill
  <2>c. causal' \in Nat BY <2>b DEF SourcesOK
  <2>d. moved' \in BOOLEAN BY <2>b
  <2>3. SourcesOK' BY Zenon, <2>b, <2>c, <2>d DEF SourcesOK, ghosts
  <2> QED BY <1>1, <2>2, <2>3, Stutter DEF MasterFill
<1>2. CASE ClosePositions(j)
  <2>1. [origin |-> "CLOSE_ALL", order |-> 0, target |-> 0, safe |-> FALSE] \in Intents
    BY DEF Intents
  <2>2. JobsOK' BY <1>0, <1>2, <2>1 DEF ClosePositions
  <2>3. SourcesOK' BY <1>2 DEF ClosePositions, SourcesOK, ghosts
  <2> QED BY <1>2, <2>2, <2>3, Stutter DEF ClosePositions
<1>3. CASE Publish(j)
  <2>1. JobsOK' BY <1>3 DEF Publish, JobsOK
  <2> QED BY <1>3, <2>1, Stutter DEF Publish
<1>4. CASE ExpireStrategyJob(j)
  <2>1. JobsOK' BY <1>4 DEF ExpireStrategyJob, JobsOK
  <2> QED BY <1>4, <2>1, Stutter DEF ExpireStrategyJob
<1>5. CASE ReleaseStale(j)
  <2>1. JobsOK' BY <1>5 DEF ReleaseStale, Released, JobsOK
  <2> QED BY <1>5, <2>1, Stutter DEF ReleaseStale
<1> QED BY <1>1, <1>2, <1>3, <1>4, <1>5 DEF JobStep

(* The execution worker.                                                     *)
LEMMA WorkerStepTyped == ASSUME TypeOK, NEW w \in Workers, WorkerStep(w) PROVE TypeOK'
<1> USE DEF TypeOK
<1> DEFINE e == ExecOf(w)
<1>0. wk[w] \in Works /\ (pc[w] # "idle" => e \in Execs /\ wk[w].job \in Jobs)
  BY ExecOfTyped DEF WorkersOK
<1>1. ASSUME NEW j \in Jobs, Claim(w, j) PROVE TypeOK'
  <2>1. JobsOK' BY <1>1 DEF Claim, JobsOK
  <2>2. [NoWork EXCEPT !.job = j] \in Works /\ [NoWork EXCEPT !.job = j].job \in Jobs
    BY RecordsTyped DEF Works
  <2>3. WorkersOK' BY <1>1, <2>2, WorkerMoves DEF Claim
  <2> QED BY <1>1, <2>1, <2>3, Stutter DEF Claim
<1>2. CASE AcquireLock(w)
  <2> DEFINE r == [wk[w] EXCEPT !.att = jobAttempts[wk[w].job]]
  <2>1. wk[w].job \in Jobs /\ jobAttempts[wk[w].job] \in Nat
    BY <1>0, <1>2 DEF AcquireLock, JobsOK
  <2>2. r \in Works /\ r.job \in Jobs BY <1>0, <2>1 DEF Works
  <2>3. wk' = [wk EXCEPT ![w] = r] BY <1>2 DEF AcquireLock, WorkersOK
  <2>4. pc' = [pc EXCEPT ![w] = "plan"] BY <1>2 DEF AcquireLock
  <2> HIDE DEF r
  <2>5. WorkersOK' BY <2>2, <2>3, <2>4, WorkerMoves
  <2>6. LedgerOK' BY <1>2 DEF AcquireLock, LedgerOK
  <2> QED BY <1>2, <2>5, <2>6, Stutter DEF AcquireLock
<1>3. CASE ClaimLost(w)
  <2>1. WorkersOK' BY <1>3, RecordsTyped, WorkerMoves DEF ClaimLost
  <2> QED BY <1>3, <2>1, Stutter DEF ClaimLost
<1>4. CASE Decline(w)
  <2>1. WorkersOK' BY <1>4, FinishTyped DEF Decline
  <2> QED BY <1>4, <2>1, Stutter DEF Decline
<1>5. CASE Plan(w)
  <2> DEFINE cur == ledger.size
             tgt == intent[wk[w].job].target
  <2>1. cur \in Int /\ tgt \in Int /\ ledger \in Ledgers /\ ledger.last \in Execs \cup {NoExec}
    BY <1>0, <1>5 DEF JobsOK, LedgerOK, Plan, Ledgers, Intents
  <2>2. PICK d \in PrimaryDeltas(cur, tgt), more \in BOOLEAN :
           wk' = [wk EXCEPT ![w].led = ledger,
                            ![w].kind = IF Reversing(cur, tgt) THEN "c" ELSE "o",
                            ![w].leg = [delta |-> d, reduceOnly |-> ReduceOnly(cur, tgt),
                                        before |-> cur, last |-> ledger.last],
                            ![w].more = more]
    BY <1>5 DEF Plan
  <2>3. d \in Int BY <2>1 DEF PrimaryDeltas, Trimmed
  <2> DEFINE leg == [delta |-> d, reduceOnly |-> ReduceOnly(cur, tgt), before |-> cur,
                     last |-> ledger.last]
             kind == IF Reversing(cur, tgt) THEN "c" ELSE "o"
             r == [wk[w] EXCEPT !.led = ledger, !.kind = kind, !.leg = leg, !.more = more]
  <2>4. leg \in Legs BY <2>1, <2>3 DEF Legs, ReduceOnly
  <2>5. wk' = [wk EXCEPT ![w] = r] BY <1>0, <2>2 DEF WorkersOK, Works
  <2>6. kind \in Kinds OBVIOUS
  <2> HIDE DEF leg, kind
  <2>7. r \in Works /\ r.job \in Jobs BY <1>0, <1>5, <2>1, <2>4, <2>6 DEF Works, Plan
  <2>8. pc' = [pc EXCEPT ![w] = "leg"] BY <1>5 DEF Plan
  <2> HIDE DEF r
  <2>9. WorkersOK' BY <2>5, <2>7, <2>8, WorkerMoves
  <2> QED BY <1>5, <2>9, Stutter DEF Plan
<1>6. CASE LegFresh(w)
  <2>1. WorkersOK' BY <1>0, <1>6 DEF LegFresh, WorkersOK
  <2> QED BY <1>6, <2>1, Stutter DEF LegFresh
<1>7. CASE LegStored(w)
  <2>1. WorkersOK' BY <1>7, DispatchTyped DEF LegStored
  <2> QED BY <1>7, <2>1, Stutter DEF LegStored
<1>8. CASE LegResolve(w)
  <2>1. PICK out \in QueryOutcomes(e) :
           /\ IF out = "UNKNOWN" THEN UNCHANGED execVars
              ELSE PersistOutcome(e, out, IF out = "FILLED" THEN execLeg[e].delta ELSE 0)
           /\ Dispatch(w, out)
    BY <1>8 DEF LegResolve
  <2>2. e \in Execs /\ pc[w] # "idle" BY <1>0, <1>8 DEF LegResolve
  <2>3. out \in ExecStates BY DEF QueryOutcomes
  <2>4. execLeg[e].delta \in Int BY <2>2 DEF ExecsOK, Legs
  <2>5. ExecsOK' BY <2>1, <2>2, <2>3, <2>4, PersistTyped, Stutter
  <2>6. WorkersOK' BY <2>1, <2>2, DispatchTyped
  <2> QED BY <1>8, <2>5, <2>6, Stutter DEF LegResolve
<1>9. CASE InsertExecution(w)
  <2>1. ExecsOK' BY <1>0, <1>9 DEF InsertExecution, ExecsOK, Works
  <2>2. WorkersOK' BY <1>0, <1>9 DEF InsertExecution, WorkersOK
  <2> QED BY <1>9, <2>1, <2>2, Stutter DEF InsertExecution
<1>10. CASE InsertConflict(w)
  <2>1. WorkersOK' BY <1>10, RecordsTyped, WorkerMoves DEF InsertConflict
  <2>2. LedgerOK' BY <1>10, UnlockTyped DEF InsertConflict
  <2> QED BY <1>10, <2>1, <2>2, Stutter DEF InsertConflict
<1>11. CASE Authorize(w)
  <2>1. WorkersOK' BY <1>0, <1>11 DEF Authorize, WorkersOK
  <2> QED BY <1>11, <2>1, Stutter DEF Authorize
<1>12. CASE PreSubmitCancel(w)
  <2>1. e \in Execs /\ pc[w] # "idle" BY <1>0, <1>12 DEF PreSubmitCancel
  <2>2. ExecsOK' BY <1>12, <2>1, PersistTyped DEF PreSubmitCancel
  <2>3. WorkersOK' BY <1>12, <2>1, DispatchTyped DEF PreSubmitCancel
  <2> QED BY <1>12, <2>2, <2>3, Stutter DEF PreSubmitCancel
<1>13. CASE Submit(w)
  <2>1. WorkersOK' BY <1>0, <1>13 DEF Submit, WorkersOK
  <2>2. ExchangeOK' BY <1>0, <1>13 DEF Submit, ExchangeOK
  <2> QED BY <1>13, <2>1, <2>2, Stutter DEF Submit
<1>14. CASE SubmitAmbiguous(w)
  <2>1. e \in Execs /\ pc[w] # "idle" BY <1>0, <1>14 DEF SubmitAmbiguous
  <2>2. ExecsOK' BY <1>14, <2>1, PersistTyped DEF SubmitAmbiguous
  <2>3. WorkersOK' BY <1>14, <2>1, DispatchTyped DEF SubmitAmbiguous
  <2> QED BY <1>14, <2>2, <2>3, Stutter DEF SubmitAmbiguous
<1>15. CASE Response(w)
  <2> DEFINE out == IF order[e] = "filled" THEN "FILLED" ELSE "REJECTED"
  <2>1. e \in Execs /\ pc[w] # "idle" BY <1>0, <1>15 DEF Response
  <2>2. PersistOutcome(e, out, TotalSz(e)) /\ Dispatch(w, out) BY <1>15 DEF Response
  <2>3. TotalSz(e) \in Int /\ out \in ExecStates BY <2>1 DEF TotalSz, ExchangeOK
  <2> HIDE DEF out
  <2>4. ExecsOK' BY <2>1, <2>2, <2>3, PersistTyped
  <2>5. WorkersOK' BY <2>1, <2>2, DispatchTyped
  <2> QED BY <1>15, <2>4, <2>5, Stutter DEF Response
<1>16. CASE ApplyFill(w)
  <2> DEFINE led  == wk[w].led
             mode == ApplyMode(e, led)
             size == IF mode = "applied" THEN execLeg[e].before + execFill[e] ELSE led.size
             new  == IF mode = "done" THEN led ELSE [led EXCEPT !.size = size, !.last = e]
             flat == Flattened(execFill[e], wk[w].leg.delta, size)
             tgt  == intent[wk[w].job].target
  <2>1. e \in Execs /\ pc[w] # "idle" /\ wk[w].job \in Jobs BY <1>0, <1>16 DEF ApplyFill
  <2>2. led \in Ledgers /\ tgt \in Int BY <1>0, <2>1 DEF Works, JobsOK, Intents
  <2>3. size \in Int BY <2>1, <2>2 DEF ExecsOK, Legs, Ledgers
  <2>4. new \in Ledgers BY <2>1, <2>2, <2>3 DEF Ledgers
  <2>5. /\ IF mode = "done" THEN UNCHANGED <<ledger, execApplied, counted>>
           ELSE /\ ledger' = [ledger EXCEPT !.size = IF mode = "applied" THEN size ELSE @,
                                            !.last = e]
                /\ execApplied' = execApplied \cup {e}
                /\ counted' = [counted EXCEPT ![e] = IF mode = "applied" THEN @ + 1 ELSE @]
        /\ UNCHANGED <<jobVars, execState, execLeg, execFill, lock, res, rec, exchVars,
                       srcVars, ghosts>>
    BY <1>16 DEF ApplyFill
  <2>6. /\ wk[w].more /\ wk[w].kind = "c" /\ flat =>
             /\ \E d \in Trimmed(tgt) :
                    wk' = [wk EXCEPT ![w].led = new, ![w].kind = "o",
                                     ![w].leg = [delta |-> d, reduceOnly |-> FALSE,
                                                 before |-> 0, last |-> new.last]]
             /\ pc' = [pc EXCEPT ![w] = "leg"]
        /\ ~(wk[w].more /\ wk[w].kind = "c" /\ flat) =>
             GoFinish(w, "SKIPPED") \/ GoFinish(w, "DONE")
    BY <1>16 DEF ApplyFill
  <2> HIDE DEF mode, size, new, flat, tgt
  <2>7. ExecsOK' BY <2>1, <2>5 DEF ExecsOK, execVars
  <2>8. LedgerOK'
    <3>1. ledger' \in Ledgers
      <4>1. CASE mode = "done" BY <2>5, <4>1 DEF LedgerOK
      <4>2. CASE mode # "done"
        <5> DEFINE n == IF mode = "applied" THEN size ELSE ledger.size
        <5>1. n \in Int BY <2>3 DEF LedgerOK, Ledgers
        <5>2. ledger' = [ledger EXCEPT !.size = n, !.last = e]
          BY <2>5, <4>2 DEF LedgerOK, Ledgers
        <5> HIDE DEF n
        <5> QED BY <2>1, <5>1, <5>2 DEF LedgerOK, Ledgers
      <4> QED BY <4>1, <4>2
    <3>2. counted' \in [Execs -> Nat] BY <2>1, <2>5 DEF LedgerOK
    <3> QED BY <2>5, <3>1, <3>2 DEF LedgerOK
  <2>9. WorkersOK'
    <3>1. CASE wk[w].more /\ wk[w].kind = "c" /\ flat
      <4>1. PICK d \in Trimmed(tgt) :
               wk' = [wk EXCEPT ![w].led = new, ![w].kind = "o",
                                ![w].leg = [delta |-> d, reduceOnly |-> FALSE,
                                            before |-> 0, last |-> new.last]]
        BY <2>6, <3>1
      <4> DEFINE leg == [delta |-> d, reduceOnly |-> FALSE, before |-> 0, last |-> new.last]
                 r   == [wk[w] EXCEPT !.led = new, !.kind = "o", !.leg = leg]
      <4>2. leg \in Legs BY <2>2, <2>4 DEF Legs, Ledgers, Trimmed
      <4>3. wk' = [wk EXCEPT ![w] = r] BY <1>0, <4>1 DEF WorkersOK, Works
      <4> HIDE DEF leg
      <4>4. r \in Works /\ r.job \in Jobs BY <1>0, <2>1, <2>4, <4>2 DEF Works
      <4>5. pc' = [pc EXCEPT ![w] = "leg"] BY <2>6, <3>1
      <4> HIDE DEF r
      <4> QED BY <4>3, <4>4, <4>5, WorkerMoves
    <3>2. CASE ~(wk[w].more /\ wk[w].kind = "c" /\ flat) BY <2>1, <2>6, <3>2, FinishTyped
    <3> QED BY <3>1, <3>2
  <2> QED BY <2>5, <2>7, <2>8, <2>9, Stutter
<1>17. CASE ApplyDeferred(w)
  <2>1. WorkersOK' BY <1>17, FinishTyped DEF ApplyDeferred
  <2> QED BY <1>17, <2>1, Stutter DEF ApplyDeferred
<1>18. CASE Finish(w)
  <2>1. JobsOK' BY <1>0, <1>18 DEF Finish, JobsOK, Works
  <2>2. WorkersOK' BY <1>18, RecordsTyped, WorkerMoves DEF Finish
  <2>3. LedgerOK' BY <1>18, UnlockTyped DEF Finish
  <2> QED BY <1>18, <2>1, <2>2, <2>3, Stutter DEF Finish
<1> QED
  BY <1>1, <1>2, <1>3, <1>4, <1>5, <1>6, <1>7, <1>8, <1>9, <1>10, <1>11, <1>12, <1>13,
     <1>14, <1>15, <1>16, <1>17, <1>18 DEF WorkerStep

(* The resolver of ambiguous executions.                                     *)
LEMMA ResolverStepTyped == ASSUME TypeOK, ResolverStep PROVE TypeOK'
<1> USE DEF TypeOK
<1>0. res \in Resolutions /\ rec \in Reconciliations BY DEF MaintenanceOK
<1>1. ASSUME NEW e \in Execs, ResolveQuery(e) PROVE TypeOK'
  <2>1. jobState[e[1]] \in JobStates BY DEF JobsOK, Execs
  <2>2. PICK out \in QueryOutcomes(e) :
           res' = [ResIdle EXCEPT !.pc = "queried", !.exec = e, !.out = out,
                                  !.job = jobState[e[1]]]
    BY <1>1 DEF ResolveQuery
  <2>3. out \in {"UNKNOWN", "FILLED", "CANCELED", "REJECTED"} BY DEF QueryOutcomes
  <2>4. MaintenanceOK'
    <3> DEFINE s == jobState[e[1]]
    <3>1. [ResIdle EXCEPT !.pc = "queried", !.exec = e, !.out = out, !.job = s] \in Resolutions
      <4> HIDE DEF s
      <4> QED BY <2>1, <2>3, RecordsTyped DEF Resolutions, s
    <3>2. res'.exec = e BY <2>2 DEF ResIdle
    <3> QED BY <1>0, <1>1, <2>2, <3>1, <3>2 DEF MaintenanceOK, ResolveQuery
  <2>5. LedgerOK' BY <1>1 DEF ResolveQuery, LedgerOK
  <2> QED BY <1>1, <2>4, <2>5, Stutter DEF ResolveQuery
<1>2. CASE ResolveSnapshot
  <2>1. MaintenanceOK' BY <1>0, <1>2 DEF ResolveSnapshot, MaintenanceOK, Resolutions,
                                         ExchangeOK, Landed
  <2> QED BY <1>2, <2>1, Stutter DEF ResolveSnapshot
<1>3. CASE ResolveNotFilled
  <2>1. ExecsOK' BY <1>3, PersistTyped DEF ResolveNotFilled, MaintenanceOK
  <2>2. LedgerOK' BY <1>3, UnlockTyped DEF ResolveNotFilled
  <2>3. MaintenanceOK' BY <1>0, <1>3, RecordsTyped DEF ResolveNotFilled, MaintenanceOK, ResIdle
  <2> QED BY <1>3, <2>1, <2>2, <2>3, Stutter DEF ResolveNotFilled
<1>4. CASE ResolveFilled
  <2>1. res.exec \in Execs /\ res.snap \in Int /\ xfill[res.exec] \in Int
    BY <1>4 DEF ResolveFilled, MaintenanceOK, Resolutions, ExchangeOK
  <2>2. ExecsOK' BY <1>4, <2>1, PersistTyped DEF ResolveFilled
  <2>3. LedgerOK' BY <1>4, <2>1, SyncTyped DEF ResolveFilled
  <2>4. MaintenanceOK' BY <1>0, <1>4, RecordsTyped DEF ResolveFilled, MaintenanceOK, ResIdle
  <2> QED BY <1>4, <2>2, <2>3, <2>4, Stutter DEF ResolveFilled
<1>5. CASE Quarantine
  <2>1. res.exec \in Execs /\ res.snap \in Int
    BY <1>5 DEF Quarantine, MaintenanceOK, Resolutions
  <2>2. ExecsOK' BY <1>5, <2>1 DEF Quarantine, ExecsOK
  <2>3. LedgerOK' BY <1>5, <2>1, SyncTyped DEF Quarantine
  <2>4. MaintenanceOK' BY <1>0, <1>5, RecordsTyped DEF Quarantine, MaintenanceOK, ResIdle
  <2> QED BY <1>5, <2>2, <2>3, <2>4, Stutter DEF Quarantine
<1>6. CASE ResolveSkip
  <2>1. LedgerOK' BY <1>6, UnlockTyped DEF ResolveSkip
  <2>2. MaintenanceOK' BY <1>0, <1>6, RecordsTyped DEF ResolveSkip, MaintenanceOK, ResIdle
  <2> QED BY <1>6, <2>1, <2>2, Stutter DEF ResolveSkip
<1>7. CASE ResolveUnverified
  <2>1. MaintenanceOK' BY <1>0, <1>7 DEF ResolveUnverified, MaintenanceOK, Resolutions
  <2> QED BY <1>7, <2>1, Stutter DEF ResolveUnverified
<1> QED BY <1>1, <1>2, <1>3, <1>4, <1>5, <1>6, <1>7 DEF ResolverStep

(* The reconciler.                                                           *)
LEMMA ReconcilerStepTyped == ASSUME TypeOK, ReconcilerStep PROVE TypeOK'
<1> USE DEF TypeOK
<1>0. rec \in Reconciliations BY DEF MaintenanceOK
<1>1. CASE ReconcileStart
  <2>a. causal + 1 \in Nat BY DEF SourcesOK
  <2>b. [RecIdle EXCEPT !.pc = "started"] \in Reconciliations
        /\ [RecIdle EXCEPT !.pc = "started", !.order = causal + 1] \in Reconciliations
    BY <2>a, RecordsTyped DEF Reconciliations
  <2>1. MaintenanceOK' BY <1>1, <2>b DEF ReconcileStart, MaintenanceOK
  <2>2. SourcesOK' BY <1>1 DEF ReconcileStart, SourcesOK, ghosts
  <2> QED BY <1>1, <2>1, <2>2, Stutter DEF ReconcileStart
<1>2. CASE ReconcileMaster
  <2> DEFINE m == IF rec.order > 0 THEN master ELSE 0
  <2>a. m \in Int BY DEF SourcesOK
  <2>b. rec' = [rec EXCEPT !.pc = "master", !.mpos = m] /\ UNCHANGED res
    BY <1>2 DEF ReconcileMaster
  <2> HIDE DEF m
  <2>c. rec' \in Reconciliations BY <1>0, <2>a, <2>b DEF Reconciliations
  <2>1. MaintenanceOK' BY <2>b, <2>c DEF MaintenanceOK
  <2> QED BY <1>2, <2>1, Stutter DEF ReconcileMaster
<1>3. CASE ReconcileSnapshot
  <2>1. MaintenanceOK' BY <1>0, <1>3 DEF ReconcileSnapshot, MaintenanceOK, Reconciliations,
                                         ExchangeOK, Landed
  <2>2. LedgerOK' BY <1>3 DEF ReconcileSnapshot, LedgerOK
  <2> QED BY <1>3, <2>1, <2>2, Stutter DEF ReconcileSnapshot
<1>4. CASE ReconcileCommit
  <2>1. rec.snap \in Int /\ rec.order \in Nat /\ rec.mpos \in Int
        /\ ledger.last \in Execs \cup {NoExec}
    BY <1>0 DEF Reconciliations, LedgerOK, Ledgers
  <2>2. LedgerOK' BY <1>4, <2>1, SyncTyped DEF ReconcileCommit
  <2>3. MaintenanceOK' BY <1>4, RecordsTyped DEF ReconcileCommit, MaintenanceOK
  <2> DEFINE it == [origin |-> "RECONCILE", order |-> rec.order, target |-> rec.mpos,
                    safe |-> AmbiguousWith(TerminalJobStates)]
  <2>4. it \in Intents BY <2>1 DEF Intents, AmbiguousWith
  <2>5. UNCHANGED <<jobState, intent>> \/ \E j \in Jobs : CreateJob(j, it)
    BY <1>4 DEF ReconcileCommit
  <2> HIDE DEF it
  <2>6. JobsOK' BY <1>4, <2>4, <2>5 DEF ReconcileCommit, JobsOK, CreateJob
  <2> QED BY <1>4, <2>2, <2>3, <2>6, Stutter DEF ReconcileCommit
<1>5. CASE ReconcileAbort
  <2>1. LedgerOK' BY <1>5, UnlockTyped DEF ReconcileAbort
  <2>2. MaintenanceOK' BY <1>5, RecordsTyped DEF ReconcileAbort, MaintenanceOK
  <2> QED BY <1>5, <2>1, <2>2, Stutter DEF ReconcileAbort
<1> QED BY <1>1, <1>2, <1>3, <1>4, <1>5 DEF ReconcilerStep

(* The exchange, the faults and the master.                                  *)
LEMMA OtherStepTyped ==
    ASSUME TypeOK,
           \/ \E p \in Positions : MasterMove(p)
           \/ CloseNothing
           \/ \E w \in Workers : Crash(w)
           \/ LoseLock
           \/ ExchangeStep
    PROVE  TypeOK'
<1> USE DEF TypeOK
<1>1. ASSUME NEW p \in Positions, MasterMove(p) PROVE TypeOK'
  <2>1. SourcesOK' BY <1>1, PositionsAssumption DEF MasterMove, SourcesOK, ghosts
  <2> QED BY <1>1, <2>1, Stutter DEF MasterMove
<1>2. ASSUME NEW w \in Workers, Crash(w) PROVE TypeOK'
  <2>1. WorkersOK' BY <1>2, RecordsTyped, WorkerMoves DEF Crash
  <2>2. LedgerOK' BY <1>2, UnlockTyped DEF Crash
  <2> QED BY <1>2, <2>1, <2>2, Stutter DEF Crash
<1>3. CASE LoseLock
  <2>1. LedgerOK' BY <1>3 DEF LoseLock, LedgerOK
  <2>2. SourcesOK' BY <1>3 DEF LoseLock, SourcesOK, srcVars
  <2> QED BY <1>3, <2>1, <2>2, Stutter DEF LoseLock
<1>4. ASSUME NEW e \in Execs, Fill(e) PROVE TypeOK'
  <2>1. execLeg[e].delta \in Int BY DEF ExecsOK, Legs
  <2>2. FillSizes(e) \subseteq Int BY <2>1 DEF FillSizes, Trimmed
  <2>3. ExchangeOK' BY <1>4, <2>2 DEF Fill, ExchangeOK
  <2> QED BY <1>4, <2>3, Stutter DEF Fill
<1>5. ASSUME NEW e \in Execs, NotFilled(e) PROVE TypeOK'
  <2>1. ExchangeOK' BY <1>5 DEF NotFilled, ExchangeOK
  <2> QED BY <1>5, <2>1, Stutter DEF NotFilled
<1>6. CASE ManualTrade
  <2>1. ExchangeOK' BY <1>6 DEF ManualTrade, ExchangeOK
  <2>2. SourcesOK' BY <1>6 DEF ManualTrade, SourcesOK, srcVars
  <2> QED BY <1>6, <2>1, <2>2, Stutter DEF ManualTrade
<1>7. CASE CloseNothing
  <2>1. SourcesOK' BY <1>7 DEF CloseNothing, SourcesOK, ghosts
  <2> QED BY <1>7, <2>1, Stutter DEF CloseNothing
<1> QED BY <1>1, <1>2, <1>3, <1>4, <1>5, <1>6, <1>7 DEF ExchangeStep

(* Every step keeps the types.                                               *)
LEMMA NextTyped == TypeOK /\ [Next]_vars => TypeOK'
<1> SUFFICES ASSUME TypeOK, [Next]_vars PROVE TypeOK' OBVIOUS
<1>1. CASE UNCHANGED vars BY <1>1, Stutter DEF vars, TypeOK
<1>2. CASE Next
  BY <1>2, JobStepTyped, WorkerStepTyped, ResolverStepTyped, ReconcilerStepTyped,
     OtherStepTyped DEF Next
<1> QED BY <1>1, <1>2

(* Type correctness: job, execution, ledger, worker and exchange state keep  *)
(* their types; every busy worker has a job and every busy resolver an       *)
(* execution, so no handler ever addresses a row that does not exist.        *)
THEOREM TypeCorrect == Spec => []TypeOK
BY InitTyped, NextTyped, PTL DEF Spec

-----------------------------------------------------------------------------
(* At most one submission.                                                   *)
(* AtMostOneSubmission alone is not inductive: a worker past its INSERT is   *)
(* about to send without looking at the row again.  What protects it is that *)
(* the row of a sending worker exists, was never sent, and is being sent by  *)
(* nobody else, which the unique (copy_job_id, attempt_kind) row gives with  *)
(* or without the advisory lock.                                             *)

Sending(w) == pc[w] \in {"send", "authorized"}

SubmissionInv ==
    /\ \A e \in Execs : sent[e] <= 1
    /\ \A e \in Execs : execState[e] = "none" => sent[e] = 0
    /\ \A w \in Workers : Sending(w) => /\ sent[ExecOf(w)] = 0
                                        /\ execState[ExecOf(w)] # "none"
    /\ \A v, w \in Workers : Sending(v) /\ Sending(w) /\ v # w => ExecOf(v) # ExecOf(w)

(* Rows are never deleted. *)
RowsStay == \A e \in Execs : execState'[e] = "none" => execState[e] = "none"

(* A step that sends nothing, deletes no row and lets nobody start sending.  *)
LEMMA NobodyStarts ==
    ASSUME TypeOK, SubmissionInv, UNCHANGED sent, RowsStay,
           \A w \in Workers : Sending(w)' => Sending(w) /\ UNCHANGED ExecOf(w)
    PROVE  SubmissionInv'
<1>1. \A w \in Workers : Sending(w) => ExecOf(w) \in Execs
  BY ExecOfTyped DEF Sending, TypeOK
<1>2. (\A e \in Execs : sent[e] <= 1)' BY DEF SubmissionInv
<1>3. (\A e \in Execs : execState[e] = "none" => sent[e] = 0)' BY DEF SubmissionInv, RowsStay
<1>4. (\A w \in Workers : Sending(w) => sent[ExecOf(w)] = 0 /\ execState[ExecOf(w)] # "none")'
  BY <1>1 DEF SubmissionInv, RowsStay
<1>5. (\A v, w \in Workers : Sending(v) /\ Sending(w) /\ v # w => ExecOf(v) # ExecOf(w))'
  BY DEF SubmissionInv
<1> QED BY <1>2, <1>3, <1>4, <1>5 DEF SubmissionInv

(* One worker moves to a place where it does not send.                       *)
LEMMA WorkerLeaves ==
    ASSUME TypeOK, SubmissionInv, UNCHANGED sent, RowsStay, NEW w \in Workers,
           pc' = [pc EXCEPT ![w] = pc'[w]], pc'[w] \notin {"send", "authorized"},
           \A v \in Workers \ {w} : wk'[v] = wk[v]
    PROVE  SubmissionInv'
<1>1. \A v \in Workers : Sending(v)' => Sending(v) /\ UNCHANGED ExecOf(v)
  BY DEF Sending, ExecOf, TypeOK, WorkersOK
<1> QED BY <1>1, NobodyStarts

(* GoFinish: a worker on its way to _finish is no longer sending.            *)
LEMMA FinishLeaves ==
    ASSUME TypeOK, NEW w \in Workers, NEW r, GoFinish(w, r)
    PROVE  /\ pc' = [pc EXCEPT ![w] = pc'[w]] /\ pc'[w] \notin {"send", "authorized"}
           /\ \A v \in Workers \ {w} : wk'[v] = wk[v]
BY DEF GoFinish, TypeOK, WorkersOK

(* Dispatch: a worker with an outcome is no longer sending.                  *)
LEMMA DispatchLeaves ==
    ASSUME TypeOK, NEW w \in Workers, NEW out, Dispatch(w, out)
    PROVE  /\ pc' = [pc EXCEPT ![w] = pc'[w]] /\ pc'[w] \notin {"send", "authorized"}
           /\ \A v \in Workers \ {w} : wk'[v] = wk[v]
<1>1. CASE out = "FILLED" BY <1>1 DEF Dispatch, TypeOK, WorkersOK
<1>2. CASE out # "FILLED"
  <2>1. PICK r \in Results : GoFinish(w, r) BY <1>2 DEF Dispatch
  <2> QED BY <2>1, FinishLeaves
<1> QED BY <1>1, <1>2

(* _persist_outcome: an outcome never deletes an execution row.              *)
LEMMA PersistKeepsRows ==
    ASSUME TypeOK, NEW e \in Execs, NEW out, out # "none", NEW filled,
           PersistOutcome(e, out, filled)
    PROVE  RowsStay
BY DEF PersistOutcome, RowsStay, TypeOK, ExecsOK

(* Initially nothing was sent and nobody is sending.                         *)
LEMMA InitSubmission == Init => SubmissionInv
BY DEF Init, SubmissionInv, Sending

(* A worker starts to send only by inserting the row, and sends only once.   *)
LEMMA WorkerSubmission ==
    ASSUME TypeOK, SubmissionInv, NEW w \in Workers, WorkerStep(w)
    PROVE  SubmissionInv'
<1> DEFINE e == ExecOf(w)
<1>0. pc[w] # "idle" => e \in Execs BY ExecOfTyped DEF TypeOK
<1>t. WorkersOK /\ ExecsOK /\ ExchangeOK BY DEF TypeOK
<1>r. UNCHANGED execState => RowsStay BY DEF RowsStay
<1>1. ASSUME NEW j \in Jobs, Claim(w, j) PROVE SubmissionInv'
  BY <1>1, <1>r, <1>t, WorkerLeaves DEF Claim, WorkersOK, execVars, exchVars
<1>2. CASE AcquireLock(w)
  BY <1>2, <1>r, <1>t, WorkerLeaves DEF AcquireLock, WorkersOK, execVars, exchVars
<1>3. CASE ClaimLost(w)
  BY <1>3, <1>r, <1>t, WorkerLeaves DEF ClaimLost, WorkersOK, execVars, exchVars
<1>4. CASE Decline(w)
  BY <1>4, <1>r, <1>t, WorkerLeaves, FinishLeaves DEF Decline, execVars, exchVars
<1>5. CASE Plan(w)
  <2>1. \A v \in Workers \ {w} : wk'[v] = wk[v] BY <1>5, <1>t DEF Plan, WorkersOK
  <2> QED BY <1>5, <1>r, <1>t, <2>1, WorkerLeaves DEF Plan, WorkersOK, execVars, exchVars
<1>6. CASE LegFresh(w)
  BY <1>6, <1>r, <1>t, WorkerLeaves DEF LegFresh, WorkersOK, execVars, exchVars
<1>7. CASE LegStored(w)
  BY <1>7, <1>r, <1>t, WorkerLeaves, DispatchLeaves DEF LegStored, execVars, exchVars
<1>8. CASE LegResolve(w)
  <2>1. PICK out \in QueryOutcomes(e) :
           /\ IF out = "UNKNOWN" THEN UNCHANGED execVars
              ELSE PersistOutcome(e, out, IF out = "FILLED" THEN execLeg[e].delta ELSE 0)
           /\ Dispatch(w, out)
    BY <1>8 DEF LegResolve
  <2>2. out # "none" BY DEF QueryOutcomes
  <2>3. RowsStay BY <1>0, <1>8, <1>r, <2>1, <2>2, PersistKeepsRows DEF LegResolve, execVars
  <2> QED BY <1>8, <2>1, <2>3, DispatchLeaves, WorkerLeaves DEF LegResolve, exchVars
<1>9. CASE InsertExecution(w)
  <2>1. e \in Execs /\ execState[e] = "none" /\ sent[e] = 0
    BY <1>0, <1>9 DEF InsertExecution, NoRow, SubmissionInv
  <2>2. \A v \in Workers : Sending(v) => ExecOf(v) # e BY <2>1 DEF SubmissionInv
  <2>3. UNCHANGED <<sent, wk>> BY <1>9 DEF InsertExecution, exchVars
  <2>4. \A v \in Workers : UNCHANGED ExecOf(v) BY <2>3 DEF ExecOf
  <2>5. \A v \in Workers \ {w} : Sending(v)' => Sending(v)
    BY <1>9, <1>t DEF InsertExecution, Sending, WorkersOK
  <2>6. execState' = [execState EXCEPT ![e] = "SUBMITTING"] BY <1>9 DEF InsertExecution
  <2>7. (\A x \in Execs : sent[x] <= 1)' BY <2>3 DEF SubmissionInv
  <2>8. (\A x \in Execs : execState[x] = "none" => sent[x] = 0)'
    BY <1>t, <2>3, <2>6 DEF SubmissionInv, ExecsOK
  <2>9. (\A v \in Workers : Sending(v) => sent[ExecOf(v)] = 0 /\ execState[ExecOf(v)] # "none")'
    <3>1. \A v \in Workers : Sending(v) => ExecOf(v) \in Execs BY <1>t, ExecOfTyped DEF Sending
    <3> QED BY <1>t, <2>1, <2>3, <2>4, <2>5, <2>6, <3>1 DEF SubmissionInv, ExecsOK
  <2>10. (\A u, v \in Workers : Sending(u) /\ Sending(v) /\ u # v => ExecOf(u) # ExecOf(v))'
    BY <2>2, <2>4, <2>5 DEF SubmissionInv
  <2> QED BY <2>7, <2>8, <2>9, <2>10 DEF SubmissionInv
<1>10. CASE InsertConflict(w)
  BY <1>10, <1>r, <1>t, WorkerLeaves DEF InsertConflict, WorkersOK, execVars, exchVars
<1>11. CASE Authorize(w)
  <2>1. \A v \in Workers : Sending(v)' => Sending(v) /\ UNCHANGED ExecOf(v)
    BY <1>11, <1>t DEF Authorize, Sending, ExecOf, WorkersOK
  <2> QED BY <1>11, <1>r, <2>1, NobodyStarts DEF Authorize, execVars, exchVars
<1>12. CASE PreSubmitCancel(w)
  <2>1. RowsStay BY <1>0, <1>12, PersistKeepsRows DEF PreSubmitCancel
  <2> QED BY <1>12, <2>1, DispatchLeaves, WorkerLeaves DEF PreSubmitCancel, exchVars
<1>13. CASE Submit(w)
  <2>1. e \in Execs /\ Sending(w) /\ sent[e] = 0 /\ execState[e] # "none"
    BY <1>0, <1>13 DEF Submit, Sending, SubmissionInv
  <2>2. sent' = [sent EXCEPT ![e] = 1] BY <1>13, <2>1, <1>t DEF Submit, ExchangeOK
  <2>3. UNCHANGED <<execState, wk>> BY <1>13 DEF Submit, execVars
  <2>4. \A v \in Workers : UNCHANGED ExecOf(v) BY <2>3 DEF ExecOf
  <2>5. \A v \in Workers : Sending(v)' => Sending(v) /\ v # w
    BY <1>13, <1>t DEF Submit, Sending, WorkersOK
  <2>6. (\A x \in Execs : sent[x] <= 1)' BY <1>t, <2>1, <2>2 DEF SubmissionInv, ExchangeOK
  <2>7. (\A x \in Execs : execState[x] = "none" => sent[x] = 0)'
    BY <1>t, <2>1, <2>2, <2>3 DEF SubmissionInv, ExchangeOK
  <2>8. (\A v \in Workers : Sending(v) => sent[ExecOf(v)] = 0 /\ execState[ExecOf(v)] # "none")'
    <3>1. \A v \in Workers : Sending(v) => ExecOf(v) \in Execs BY <1>t, ExecOfTyped DEF Sending
    <3>2. \A v \in Workers : Sending(v)' => ExecOf(v) # e BY <2>1, <2>5 DEF SubmissionInv
    <3> QED BY <1>t, <2>2, <2>3, <2>4, <2>5, <3>1, <3>2 DEF SubmissionInv, ExchangeOK
  <2>9. (\A u, v \in Workers : Sending(u) /\ Sending(v) /\ u # v => ExecOf(u) # ExecOf(v))'
    BY <2>4, <2>5 DEF SubmissionInv
  <2> QED BY <2>6, <2>7, <2>8, <2>9 DEF SubmissionInv
<1>14. CASE SubmitAmbiguous(w)
  <2>1. RowsStay BY <1>0, <1>14, PersistKeepsRows DEF SubmitAmbiguous
  <2> QED BY <1>14, <2>1, DispatchLeaves, WorkerLeaves DEF SubmitAmbiguous, exchVars
<1>15. CASE Response(w)
  <2>1. PICK out \in {"FILLED", "REJECTED"} :
           PersistOutcome(e, out, TotalSz(e)) /\ Dispatch(w, out)
    BY <1>15 DEF Response
  <2>2. RowsStay BY <1>0, <1>15, <2>1, PersistKeepsRows DEF Response
  <2> QED BY <1>15, <2>1, <2>2, DispatchLeaves, WorkerLeaves DEF Response, exchVars
<1>16. CASE ApplyFill(w)
  <2>1. UNCHANGED <<execState, sent>> BY <1>16 DEF ApplyFill, exchVars
  <2>2. /\ \/ pc' = [pc EXCEPT ![w] = "leg"] \/ pc' = [pc EXCEPT ![w] = "finish"]
        /\ \A v \in Workers \ {w} : wk'[v] = wk[v]
    BY <1>16, <1>t DEF ApplyFill, GoFinish, WorkersOK
  <2> QED BY <1>r, <1>t, <2>1, <2>2, WorkerLeaves DEF WorkersOK
<1>17. CASE ApplyDeferred(w)
  BY <1>17, <1>r, <1>t, WorkerLeaves, FinishLeaves DEF ApplyDeferred, execVars, exchVars
<1>18. CASE Finish(w)
  BY <1>18, <1>r, <1>t, WorkerLeaves DEF Finish, WorkersOK, execVars, exchVars
<1> QED
  BY <1>1, <1>2, <1>3, <1>4, <1>5, <1>6, <1>7, <1>8, <1>9, <1>10, <1>11, <1>12, <1>13,
     <1>14, <1>15, <1>16, <1>17, <1>18 DEF WorkerStep

(* Everything else moves no worker, except a crash, which ends its work.     *)
LEMMA OtherSubmission ==
    ASSUME TypeOK, SubmissionInv,
           \/ (\E p \in Positions : MasterMove(p)) \/ CloseNothing
           \/ \E j \in Jobs : JobStep(j)
           \/ \E w \in Workers : Crash(w)
           \/ LoseLock \/ ResolverStep \/ ReconcilerStep \/ ExchangeStep
    PROVE  SubmissionInv'
<1>0. ASSUME UNCHANGED <<sent, pc, wk>>, RowsStay PROVE SubmissionInv'
  <2>1. \A w \in Workers : Sending(w)' => Sending(w) /\ UNCHANGED ExecOf(w)
    BY <1>0 DEF Sending, ExecOf
  <2> QED BY <1>0, <2>1, NobodyStarts
<1>r. UNCHANGED execState => RowsStay BY DEF RowsStay
<1>1. CASE (\E p \in Positions : MasterMove(p)) \/ CloseNothing
  BY <1>0, <1>1, <1>r DEF MasterMove, CloseNothing, execVars, exchVars
<1>2. CASE \E j \in Jobs : JobStep(j)
  BY <1>0, <1>2, <1>r DEF JobStep, MasterFill, ClosePositions, Publish, ExpireStrategyJob,
                          ReleaseStale, execVars, exchVars
<1>3. ASSUME NEW w \in Workers, Crash(w) PROVE SubmissionInv'
  BY <1>3, <1>r, WorkerLeaves DEF Crash, TypeOK, WorkersOK, execVars, exchVars
<1>4. CASE LoseLock BY <1>0, <1>4, <1>r DEF LoseLock, execVars, exchVars
<1>5. CASE ResolverStep
  <2>1. CASE \/ \E e \in Execs : ResolveQuery(e)
             \/ ResolveSnapshot \/ ResolveUnverified \/ ResolveSkip
    BY <1>0, <1>r, <2>1 DEF ResolveQuery, ResolveSnapshot, ResolveUnverified, ResolveSkip,
                            execVars, exchVars
  <2>2. CASE ResolveNotFilled
    <3>1. RowsStay BY <2>2, PersistKeepsRows DEF ResolveNotFilled, TypeOK, MaintenanceOK
    <3> QED BY <1>0, <2>2, <3>1 DEF ResolveNotFilled, exchVars
  <2>3. CASE ResolveFilled
    <3>1. RowsStay BY <2>3, PersistKeepsRows DEF ResolveFilled, TypeOK, MaintenanceOK
    <3> QED BY <1>0, <2>3, <3>1 DEF ResolveFilled, exchVars
  <2>4. CASE Quarantine
    <3>1. RowsStay BY <2>4 DEF Quarantine, TypeOK, ExecsOK, RowsStay
    <3> QED BY <1>0, <2>4, <3>1 DEF Quarantine, exchVars
  <2> QED BY <1>5, <2>1, <2>2, <2>3, <2>4 DEF ResolverStep
<1>6. CASE ReconcilerStep
  BY <1>0, <1>6, <1>r DEF ReconcilerStep, ReconcileStart, ReconcileMaster, ReconcileSnapshot,
                          ReconcileCommit, ReconcileAbort, execVars, exchVars
<1>7. CASE ExchangeStep
  BY <1>0, <1>7, <1>r DEF ExchangeStep, Fill, NotFilled, ManualTrade, execVars
<1> QED BY <1>1, <1>2, <1>3, <1>4, <1>5, <1>6, <1>7

(* Every step keeps SubmissionInv.                                           *)
LEMMA NextSubmission == TypeOK /\ SubmissionInv /\ [Next]_vars => SubmissionInv'
<1> SUFFICES ASSUME TypeOK, SubmissionInv, [Next]_vars PROVE SubmissionInv' OBVIOUS
<1>1. CASE UNCHANGED vars
  BY <1>1 DEF vars, execVars, exchVars, SubmissionInv, Sending, ExecOf
<1>2. CASE Next BY <1>2, WorkerSubmission, OtherSubmission DEF Next
<1> QED BY <1>1, <1>2

(* For any number of workers, retries, crashes, expired leases and lost      *)
(* advisory locks, the order of one Execution row is submitted at most once, *)
(* and only after the row is durable (_execute_leg).                         *)
THEOREM SubmittedOnce == Spec => []AtMostOneSubmission
<1>1. TypeOK /\ SubmissionInv => AtMostOneSubmission
  BY DEF SubmissionInv, AtMostOneSubmission
<1> QED BY <1>1, InitSubmission, NextSubmission, TypeCorrect, PTL DEF Spec

-----------------------------------------------------------------------------
(* What the user lock protects.                                              *)
(* A step under the lock may rely on nobody else writing execution rows, the *)
(* ledger or the outcome of a job. As long as no lock connection drops, the  *)
(* lock has one holder; a worker that is sending has the row it inserted     *)
(* still unsettled; the job a resolver found terminal stays so; and a        *)
(* snapshot read under the lock contains all the ledger contains.            *)

Critical(w) == pc[w] \notin {"idle", "lockwait"}
AtRow(w)    == pc[w] \in {"send", "authorized", "await"}

(* Whoever is past the lock holds it.                                        *)
LockInv ==
    /\ \A w \in Workers : Critical(w) => lock = w
    /\ res.pc # "idle" => lock = Resolver
    /\ rec.pc = "held" => lock = Reconciler

(* The row a worker or the resolver is about to settle is not settled.       *)
OutcomeInv ==
    /\ \A w \in Workers : AtRow(w) => execState[ExecOf(w)] = "SUBMITTING"
    /\ res.pc # "idle" => Unresolved(res.exec)

(* A job the resolver read as terminal is terminal, and only of such a job   *)
(* is an execution about to be quarantined.                                  *)
VerdictInv ==
    /\ res.pc # "idle" /\ res.job \in TerminalJobStates =>
           jobState[res.exec[1]] \in TerminalJobStates
    /\ res.pc = "snapped" /\ res.out = "UNKNOWN" => res.job \in TerminalJobStates

(* Only what the exchange filled is recorded as filled, counted or seen.     *)
FilledInv ==
    /\ \A e \in Execs : sent[e] = 0 => order[e] = "none"
    /\ \A e \in Execs : execState[e] = "FILLED" => e \in Landed
    /\ \A w \in Workers : pc[w] = "apply" => ExecOf(w) \in Landed
    /\ res.out = "FILLED" => res.exec \in Landed
    /\ \A e \in Execs : counted[e] > 0 => e \in Landed
    /\ res.seen \subseteq Landed /\ rec.seen \subseteq Landed

(* A snapshot that is about to replace the ledger contains what it contains. *)
SnapshotInv ==
    /\ res.pc = "snapped" => \A e \in Execs : counted[e] > 0 => e \in res.seen
    /\ rec.pc = "held"    => \A e \in Execs : counted[e] > 0 => e \in rec.seen

LockedInv == LockInv /\ OutcomeInv /\ VerdictInv /\ FilledInv /\ SnapshotInv

(* What a step of one worker, or its crash, may do to the state others see.  *)
OthersStay(w) == /\ \A v \in Workers \ {w} : pc'[v] = pc[v] /\ wk'[v] = wk[v]
                 /\ UNCHANGED <<res, rec>>

LockMoves(w) ==
    \/ UNCHANGED lock /\ (Critical(w)' => Critical(w))
    \/ LockFree /\ lock' = w
    \/ lock' = Unlock(w) /\ ~Critical(w)'

RowMoves(w) ==
    \A e \in Execs : execState'[e] # execState[e] =>
        /\ e = ExecOf(w) /\ Critical(w)
        /\ AtRow(w) \/ execState[e] \notin TerminalExecStates
        /\ execState'[e] = "FILLED" => e \in Landed

PlaceMoves(w) ==
    /\ AtRow(w)' => execState'[ExecOf(w)'] = "SUBMITTING"
    /\ pc'[w] = "apply" => ExecOf(w)' \in Landed

CountMoves(w) ==
    \A e \in Execs : counted'[e] # counted[e] => Critical(w) /\ e \in Landed /\ counted'[e] > 0

JobMoves(w) ==
    Critical(w) \/ \A j \in Jobs : jobState[j] \in TerminalJobStates => jobState'[j] = jobState[j]

(* GoFinish, Dispatch: only the worker itself moves on.                      *)
LEMMA DispatchMoves ==
    ASSUME TypeOK, NEW w \in Workers,
           (\E r \in Results : GoFinish(w, r)) \/ \E out \in ExecStates : Dispatch(w, out)
    PROVE  /\ \A v \in Workers \ {w} : pc'[v] = pc[v] /\ wk'[v] = wk[v]
           /\ pc'[w] \in {"finish", "apply"}
<1>1. ASSUME NEW r, GoFinish(w, r)
      PROVE  /\ \A v \in Workers \ {w} : pc'[v] = pc[v] /\ wk'[v] = wk[v]
             /\ pc'[w] = "finish"
  BY <1>1 DEF GoFinish, TypeOK, WorkersOK
<1>2. ASSUME NEW out, Dispatch(w, out)
      PROVE  /\ \A v \in Workers \ {w} : pc'[v] = pc[v] /\ wk'[v] = wk[v]
             /\ pc'[w] \in {"finish", "apply"}
  <2>1. CASE out = "FILLED" BY <1>2, <2>1 DEF Dispatch, TypeOK, WorkersOK
  <2>2. CASE out # "FILLED"
    <3>1. PICK r \in Results : GoFinish(w, r) BY <1>2, <2>2 DEF Dispatch
    <3> QED BY <1>1, <3>1
  <2> QED BY <2>1, <2>2
<1> QED BY <1>1, <1>2

(* Only an outcome of a fill leads to its application.                       *)
LEMMA DispatchPlaces ==
    ASSUME TypeOK, NEW w \in Workers, NEW out, Dispatch(w, out)
    PROVE  pc'[w] = "apply" => out = "FILLED" /\ ExecOf(w)' = ExecOf(w)
<1>1. CASE out = "FILLED" BY <1>1 DEF Dispatch, ExecOf
<1>2. CASE out # "FILLED"
  <2>1. PICK r \in Results : GoFinish(w, r) BY <1>2 DEF Dispatch
  <2> QED BY <2>1 DEF GoFinish, TypeOK, WorkersOK
<1> QED BY <1>1, <1>2

(* Where a worker goes, nobody follows.                                      *)
LEMMA WorkerAlone ==
    ASSUME TypeOK, NEW w \in Workers, WorkerStep(w) \/ Crash(w)
    PROVE  OthersStay(w) /\ LockMoves(w)
<1> USE DEF OthersStay, LockMoves, Critical
<1>t. pc \in [Workers -> PCs] /\ wk \in [Workers -> Works] BY DEF TypeOK, WorkersOK
<1>1. ASSUME NEW j \in Jobs, Claim(w, j) PROVE OthersStay(w) /\ LockMoves(w)
  BY <1>1, <1>t DEF Claim
<1>2. CASE AcquireLock(w) BY <1>2, <1>t DEF AcquireLock
<1>3. CASE ClaimLost(w) BY <1>3, <1>t DEF ClaimLost
<1>4. CASE Decline(w) BY <1>4, <1>t, DispatchMoves DEF Decline
<1>5. CASE Plan(w)
  <2>1. \A v \in Workers \ {w} : pc'[v] = pc[v] /\ wk'[v] = wk[v] BY <1>5, <1>t DEF Plan
  <2>2. pc[w] = "plan" /\ UNCHANGED <<lock, res, rec>> BY <1>5 DEF Plan
  <2> QED BY <2>1, <2>2
<1>6. CASE LegFresh(w) BY <1>6, <1>t DEF LegFresh
<1>7. CASE LegStored(w)
  <2>1. execState[ExecOf(w)] \in ExecStates BY <1>7 DEF LegStored
  <2> QED BY <1>7, <2>1, DispatchMoves DEF LegStored
<1>8. CASE LegResolve(w)
  <2>1. PICK out \in QueryOutcomes(ExecOf(w)) : Dispatch(w, out) BY <1>8 DEF LegResolve
  <2>2. out \in ExecStates BY DEF QueryOutcomes
  <2> QED BY <1>8, <2>1, <2>2, DispatchMoves DEF LegResolve
<1>9. CASE InsertExecution(w) BY <1>9, <1>t DEF InsertExecution
<1>10. CASE InsertConflict(w) BY <1>10, <1>t DEF InsertConflict
<1>11. CASE Authorize(w) BY <1>11, <1>t DEF Authorize
<1>12. CASE PreSubmitCancel(w) BY <1>12, DispatchMoves DEF PreSubmitCancel
<1>13. CASE Submit(w) BY <1>13, <1>t DEF Submit
<1>14. CASE SubmitAmbiguous(w) BY <1>14, DispatchMoves DEF SubmitAmbiguous
<1>15. CASE Response(w)
  <2>1. PICK out \in {"FILLED", "REJECTED"} : Dispatch(w, out) BY <1>15 DEF Response
  <2> QED BY <1>15, <2>1, DispatchMoves DEF Response
<1>16. CASE ApplyFill(w)
  <2>1. \/ /\ pc' = [pc EXCEPT ![w] = "leg"]
           /\ \A v \in Workers \ {w} : wk'[v] = wk[v]
        \/ \E r \in Results : GoFinish(w, r)
    BY <1>16, <1>t DEF ApplyFill
  <2>2. \A v \in Workers \ {w} : pc'[v] = pc[v] /\ wk'[v] = wk[v] BY <1>t, <2>1, DispatchMoves
  <2>3. pc[w] = "apply" /\ UNCHANGED <<lock, res, rec>> BY <1>16 DEF ApplyFill
  <2> QED BY <2>2, <2>3
<1>17. CASE ApplyDeferred(w) BY <1>17, DispatchMoves DEF ApplyDeferred
<1>18. CASE Finish(w) BY <1>18, <1>t DEF Finish
<1>19. CASE Crash(w) BY <1>19, <1>t DEF Crash
<1> QED
  BY <1>1, <1>2, <1>3, <1>4, <1>5, <1>6, <1>7, <1>8, <1>9, <1>10, <1>11, <1>12, <1>13,
     <1>14, <1>15, <1>16, <1>17, <1>18, <1>19 DEF WorkerStep

(* A worker settles its own execution only, and only one that is not settled *)
(* or that it inserted itself.                                               *)
LEMMA WorkerRows ==
    ASSUME TypeOK, FilledInv, NEW w \in Workers, WorkerStep(w) \/ Crash(w)
    PROVE  RowMoves(w)
<1> DEFINE e == ExecOf(w)
<1>0. pc[w] # "idle" => e \in Execs BY ExecOfTyped DEF TypeOK
<1>t. execState \in [Execs -> ExecStates] BY DEF TypeOK, ExecsOK
<1>1. CASE UNCHANGED execState BY <1>1 DEF RowMoves
<1>2. CASE LegResolve(w)
  <2>1. PICK out \in QueryOutcomes(e) :
           \/ UNCHANGED execState
           \/ execState' = [execState EXCEPT ![e] = out]
    BY <1>2 DEF LegResolve, PersistOutcome, execVars
  <2>2. e \in Execs /\ pc[w] = "leg" /\ execState[e] \in UnresolvedStates
    BY <1>0, <1>2 DEF LegResolve, Unresolved
  <2>3. out = "FILLED" => e \in Landed BY <2>2 DEF QueryOutcomes, FullyFilled, Landed
  <2> HIDE DEF e
  <2>4. e = ExecOf(w) BY DEF e
  <2> QED BY <1>t, <2>1, <2>2, <2>3, <2>4 DEF RowMoves, Critical
<1>3. CASE InsertExecution(w)
  <2>1. e \in Execs /\ pc[w] = "insert" /\ execState[e] = "none"
        /\ execState' = [execState EXCEPT ![e] = "SUBMITTING"]
    BY <1>0, <1>3 DEF InsertExecution, NoRow
  <2> HIDE DEF e
  <2>4. e = ExecOf(w) BY DEF e
  <2> QED BY <1>t, <2>1, <2>4 DEF RowMoves, Critical
<1>4. CASE PreSubmitCancel(w) \/ SubmitAmbiguous(w) \/ Response(w)
  <2>1. PICK out \in ExecStates : /\ execState' = [execState EXCEPT ![e] = out]
                                  /\ out = "FILLED" => order[e] = "filled"
    BY <1>4 DEF PreSubmitCancel, SubmitAmbiguous, Response, PersistOutcome
  <2>2. e \in Execs /\ AtRow(w) /\ Critical(w)
    BY <1>0, <1>4 DEF PreSubmitCancel, SubmitAmbiguous, Response, AtRow, Critical
  <2> HIDE DEF e
  <2>4. e = ExecOf(w) BY DEF e
  <2> QED BY <1>t, <2>1, <2>2, <2>4 DEF RowMoves, Landed
<1>5. CASE \/ \E j \in Jobs : Claim(w, j)
           \/ AcquireLock(w) \/ ClaimLost(w) \/ Decline(w) \/ Plan(w) \/ LegFresh(w)
           \/ LegStored(w) \/ InsertConflict(w) \/ Authorize(w) \/ Submit(w)
           \/ ApplyFill(w) \/ ApplyDeferred(w) \/ Finish(w) \/ Crash(w)
  <2>1. UNCHANGED execState
    BY <1>5 DEF Claim, AcquireLock, ClaimLost, Decline, Plan, LegFresh, LegStored,
                InsertConflict, Authorize, Submit, ApplyFill, ApplyDeferred, Finish, Crash,
                execVars
  <2> QED BY <1>1, <2>1
<1> QED BY <1>2, <1>3, <1>4, <1>5 DEF WorkerStep

(* A worker is at a row it inserted, and applies what was filled.            *)
LEMMA WorkerPlaces ==
    ASSUME TypeOK, OutcomeInv, FilledInv, NEW w \in Workers, WorkerStep(w) \/ Crash(w)
    PROVE  PlaceMoves(w)
<1> DEFINE e == ExecOf(w)
<1>0. pc[w] # "idle" => e \in Execs BY ExecOfTyped DEF TypeOK
<1>t. execState \in [Execs -> ExecStates] /\ pc \in [Workers -> PCs]
  BY DEF TypeOK, ExecsOK, WorkersOK
<1>1. CASE pc'[w] \notin {"send", "authorized", "await", "apply"} BY <1>1 DEF PlaceMoves, AtRow
<1>2. CASE LegStored(w)
  <2>1. Dispatch(w, execState[e]) /\ e \in Execs BY <1>0, <1>2 DEF LegStored
  <2>2. pc'[w] = "apply" => execState[e] = "FILLED" /\ ExecOf(w)' = e BY <2>1, DispatchPlaces
  <2>3. execState[e] = "FILLED" => e \in Landed BY <2>1 DEF FilledInv
  <2>4. pc'[w] \in {"finish", "apply"} BY <1>t, <2>1, DispatchMoves
  <2> QED BY <2>2, <2>3, <2>4 DEF PlaceMoves, AtRow
<1>3. CASE LegResolve(w)
  <2>1. PICK out \in QueryOutcomes(e) : Dispatch(w, out) BY <1>3 DEF LegResolve
  <2>2. out \in ExecStates /\ (out = "FILLED" => order[e] = "filled")
    BY DEF QueryOutcomes, FullyFilled
  <2>3. e \in Execs BY <1>0, <1>3 DEF LegResolve
  <2>4. pc'[w] = "apply" => out = "FILLED" /\ ExecOf(w)' = e BY <2>1, DispatchPlaces
  <2>5. pc'[w] \in {"finish", "apply"} BY <2>1, <2>2, DispatchMoves
  <2> QED BY <2>2, <2>3, <2>4, <2>5 DEF PlaceMoves, AtRow, Landed
<1>4. CASE Response(w)
  <2>1. PICK out \in ExecStates : Dispatch(w, out) /\ (out = "FILLED" => order[e] = "filled")
    BY <1>4 DEF Response
  <2>3. e \in Execs BY <1>0, <1>4 DEF Response
  <2>4. pc'[w] = "apply" => out = "FILLED" /\ ExecOf(w)' = e BY <2>1, DispatchPlaces
  <2>5. pc'[w] \in {"finish", "apply"} BY <2>1, DispatchMoves
  <2> QED BY <2>1, <2>3, <2>4, <2>5 DEF PlaceMoves, AtRow, Landed
<1>5. CASE PreSubmitCancel(w) \/ SubmitAmbiguous(w)
  <2>1. PICK out \in {"CANCELED", "UNKNOWN"} : Dispatch(w, out)
    BY <1>5 DEF PreSubmitCancel, SubmitAmbiguous
  <2>2. pc'[w] \in {"finish", "apply"} BY <2>1, DispatchMoves
  <2>3. pc'[w] # "apply" BY <2>1, DispatchPlaces
  <2> QED BY <1>1, <2>2, <2>3
<1>6. CASE InsertExecution(w)
  <2>1. e \in Execs /\ execState' = [execState EXCEPT ![e] = "SUBMITTING"]
        /\ pc'[w] = "send" /\ UNCHANGED wk
    BY <1>0, <1>6, <1>t DEF InsertExecution
  <2>2. ExecOf(w)' = e BY <2>1 DEF ExecOf
  <2>3. execState'[e] = "SUBMITTING" BY <1>t, <2>1
  <2> QED BY <2>1, <2>2, <2>3 DEF PlaceMoves, AtRow
<1>7. CASE Authorize(w) \/ Submit(w)
  <2>1. AtRow(w) /\ pc'[w] \in {"authorized", "await"} /\ UNCHANGED <<execState, wk>>
    BY <1>7, <1>t DEF Authorize, Submit, AtRow, execVars
  <2>2. ExecOf(w)' = e BY <2>1 DEF ExecOf
  <2>3. execState[e] = "SUBMITTING" BY <2>1 DEF OutcomeInv
  <2> QED BY <2>1, <2>2, <2>3 DEF PlaceMoves, AtRow
<1>8. CASE ApplyFill(w)
  <2>1. pc'[w] \in {"leg", "finish"} BY <1>8, <1>t DEF ApplyFill, GoFinish
  <2> QED BY <1>1, <2>1
<1>9. CASE Decline(w) \/ ApplyDeferred(w)
  <2>1. pc'[w] = "finish" BY <1>9, <1>t DEF Decline, ApplyDeferred, GoFinish
  <2> QED BY <1>1, <2>1
<1>10. CASE \/ \E j \in Jobs : Claim(w, j)
            \/ AcquireLock(w) \/ ClaimLost(w) \/ Plan(w) \/ LegFresh(w)
            \/ InsertConflict(w) \/ Finish(w) \/ Crash(w)
  <2>1. pc'[w] \in {"idle", "lockwait", "plan", "leg", "insert"}
    BY <1>10, <1>t DEF Claim, AcquireLock, ClaimLost, Plan, LegFresh, InsertConflict, Finish,
                       Crash
  <2> QED BY <1>1, <2>1
<1> QED
  BY <1>2, <1>3, <1>4, <1>5, <1>6, <1>7, <1>8, <1>9, <1>10 DEF WorkerStep

(* Only ApplyFill adds to the ledger, and only Finish ends or revives a job  *)
(* that may have ended.                                                      *)
LEMMA WorkerWrites ==
    ASSUME TypeOK, FilledInv, NEW w \in Workers, WorkerStep(w) \/ Crash(w)
    PROVE  CountMoves(w) /\ JobMoves(w)
<1> DEFINE e == ExecOf(w)
<1>0. pc[w] # "idle" => e \in Execs BY ExecOfTyped DEF TypeOK
<1>t. counted \in [Execs -> Nat] /\ jobState \in [Jobs -> JobStates]
  BY DEF TypeOK, LedgerOK, JobsOK
<1>1. CASE ApplyFill(w)
  <2>1. e \in Execs /\ pc[w] = "apply" /\ UNCHANGED jobState
    BY <1>0, <1>1 DEF ApplyFill, jobVars
  <2>2. e \in Landed BY <2>1 DEF FilledInv
  <2>3. \/ UNCHANGED counted
        \/ counted' = [counted EXCEPT ![e] = counted[e] + 1]
        \/ counted' = [counted EXCEPT ![e] = counted[e]]
    BY <1>1 DEF ApplyFill
  <2> HIDE DEF e
  <2>4. ASSUME NEW x \in Execs, counted'[x] # counted[x] PROVE x = e /\ counted'[x] > 0
    BY <1>t, <2>1, <2>3, <2>4
  <2> QED BY <2>1, <2>2, <2>4 DEF CountMoves, JobMoves, Critical
<1>2. CASE Finish(w)
  <2>1. pc[w] = "finish" /\ UNCHANGED counted BY <1>2 DEF Finish
  <2> QED BY <2>1 DEF CountMoves, JobMoves, Critical
<1>3. ASSUME NEW j \in Jobs, Claim(w, j) PROVE CountMoves(w) /\ JobMoves(w)
  <2>1. UNCHANGED counted /\ jobState[j] \in ClaimableStates
        /\ jobState' = [jobState EXCEPT ![j] = "PROCESSING"]
    BY <1>3 DEF Claim
  <2> QED BY <1>t, <2>1 DEF CountMoves, JobMoves
<1>4. CASE \/ AcquireLock(w) \/ ClaimLost(w) \/ Decline(w) \/ Plan(w) \/ LegFresh(w)
           \/ LegStored(w) \/ LegResolve(w) \/ InsertExecution(w) \/ InsertConflict(w)
           \/ Authorize(w) \/ PreSubmitCancel(w) \/ Submit(w) \/ SubmitAmbiguous(w)
           \/ Response(w) \/ ApplyDeferred(w) \/ Crash(w)
  <2>1. UNCHANGED <<counted, jobState>>
    BY <1>4 DEF AcquireLock, ClaimLost, Decline, Plan, LegFresh, LegStored, LegResolve,
                InsertExecution, InsertConflict, Authorize, PreSubmitCancel, Submit,
                SubmitAmbiguous, Response, ApplyDeferred, Crash, jobVars
  <2> QED BY <2>1 DEF CountMoves, JobMoves
<1> QED BY <1>1, <1>2, <1>3, <1>4 DEF WorkerStep

(* What the exchange filled stays filled, and an order goes out only once.   *)
LEMMA LandedStays ==
    ASSUME TypeOK, SubmissionInv, FilledInv, [Next]_vars
    PROVE  /\ \A e \in Execs : e \in Landed => e \in Landed'
           /\ \A e \in Execs : sent'[e] = 0 => order'[e] = "none"
<1>t. order \in [Execs -> OrderStates] /\ sent \in [Execs -> Nat] BY DEF TypeOK, ExchangeOK
<1>1. CASE UNCHANGED <<order, sent>> BY <1>1 DEF Landed, FilledInv
<1>2. ASSUME NEW w \in Workers, Submit(w)
      PROVE  /\ \A e \in Execs : e \in Landed => e \in Landed'
             /\ \A e \in Execs : sent'[e] = 0 => order'[e] = "none"
  <2>1. PICK e \in Execs : e = ExecOf(w)
    BY <1>2, ExecOfTyped DEF Submit, TypeOK
  <2>2. sent[e] = 0 /\ order[e] = "none"
    BY <1>2, <2>1 DEF Submit, SubmissionInv, Sending, FilledInv
  <2>3. order' = [order EXCEPT ![e] = "wire"] /\ sent' = [sent EXCEPT ![e] = 1]
    BY <1>2, <1>t, <2>1, <2>2 DEF Submit
  <2> QED BY <1>t, <2>2, <2>3 DEF Landed, FilledInv
<1>3. ASSUME NEW e \in Execs, Fill(e) \/ NotFilled(e)
      PROVE  /\ \A x \in Execs : x \in Landed => x \in Landed'
             /\ \A x \in Execs : sent'[x] = 0 => order'[x] = "none"
  <2>1. order[e] = "wire" /\ UNCHANGED sent
        /\ \E s \in {"filled", "rejected", "lost"} : order' = [order EXCEPT ![e] = s]
    BY <1>3 DEF Fill, NotFilled
  <2>2. sent[e] # 0 BY <2>1 DEF FilledInv
  <2> QED BY <1>t, <2>1, <2>2 DEF Landed, FilledInv
<1>4. ASSUME NEW w \in Workers, WorkerStep(w) \/ Crash(w), ~Submit(w)
      PROVE  UNCHANGED <<order, sent>>
  BY <1>4 DEF WorkerStep, Claim, AcquireLock, ClaimLost, Decline, Plan, LegFresh, LegStored,
              LegResolve, InsertExecution, InsertConflict, Authorize, PreSubmitCancel,
              SubmitAmbiguous, Response, ApplyFill, ApplyDeferred, Finish, Crash, exchVars
<1>5. ASSUME \/ (\E p \in Positions : MasterMove(p)) \/ CloseNothing
             \/ (\E j \in Jobs : JobStep(j)) \/ LoseLock \/ ResolverStep \/ ReconcilerStep
             \/ ManualTrade
      PROVE  UNCHANGED <<order, sent>>
  BY <1>5 DEF MasterMove, CloseNothing, JobStep, MasterFill, ClosePositions, Publish,
              ExpireStrategyJob, ReleaseStale, LoseLock, ResolverStep, ResolveQuery,
              ResolveSnapshot, ResolveUnverified, ResolveNotFilled, ResolveFilled, Quarantine,
              ResolveSkip, ReconcilerStep, ReconcileStart, ReconcileMaster,
              ReconcileSnapshot, ReconcileCommit, ReconcileAbort, ManualTrade, exchVars
<1>6. CASE UNCHANGED vars BY <1>1, <1>6 DEF vars, exchVars
<1> QED BY <1>1, <1>2, <1>3, <1>4, <1>5, <1>6 DEF Next, ExchangeStep

(* Only the resolver quarantines.                                            *)
LEMMA WorkerNeverQuarantines ==
    ASSUME TypeOK, NEW w \in Workers, WorkerStep(w) \/ Crash(w), NEW e \in Execs
    PROVE  execState'[e] = "QUARANTINED" => execState[e] = "QUARANTINED"
<1>t. execState \in [Execs -> ExecStates] BY DEF TypeOK, ExecsOK
<1>1. CASE UNCHANGED execState BY <1>1
<1>2. ASSUME NEW x, NEW out, out # "QUARANTINED", execState' = [execState EXCEPT ![x] = out]
      PROVE  execState'[e] = "QUARANTINED" => execState[e] = "QUARANTINED"
  BY <1>2, <1>t
<1>3. CASE LegResolve(w)
  <2>1. PICK out \in QueryOutcomes(ExecOf(w)) :
           \/ UNCHANGED execState
           \/ execState' = [execState EXCEPT ![ExecOf(w)] = out]
    BY <1>3 DEF LegResolve, PersistOutcome, execVars
  <2>2. out # "QUARANTINED" BY DEF QueryOutcomes
  <2> QED BY <1>1, <1>2, <2>1, <2>2
<1>4. CASE InsertExecution(w) \/ PreSubmitCancel(w) \/ SubmitAmbiguous(w) \/ Response(w)
  <2>1. PICK out \in {"SUBMITTING", "CANCELED", "UNKNOWN", "FILLED", "REJECTED"} :
           execState' = [execState EXCEPT ![ExecOf(w)] = out]
    BY <1>4 DEF InsertExecution, PreSubmitCancel, SubmitAmbiguous, Response, PersistOutcome
  <2> QED BY <1>2, <2>1
<1>5. CASE \/ \E j \in Jobs : Claim(w, j)
           \/ AcquireLock(w) \/ ClaimLost(w) \/ Decline(w) \/ Plan(w) \/ LegFresh(w)
           \/ LegStored(w) \/ InsertConflict(w) \/ Authorize(w) \/ Submit(w)
           \/ ApplyFill(w) \/ ApplyDeferred(w) \/ Finish(w) \/ Crash(w)
  BY <1>1, <1>5 DEF Claim, AcquireLock, ClaimLost, Decline, Plan, LegFresh, LegStored,
                    InsertConflict, Authorize, Submit, ApplyFill, ApplyDeferred, Finish, Crash,
                    execVars
<1> QED BY <1>3, <1>4, <1>5 DEF WorkerStep

(* What no step under the lock may do: reopen a settled execution, drop a    *)
(* fill from the ledger, quarantine an execution of a live job.              *)
OutcomeStays  == \A e \in Execs : execState[e] \in TerminalExecStates =>
                                      execState'[e] = execState[e]
FillsStay     == \A e \in Execs : counted[e] > 0 => counted'[e] > 0
VerdictsAreOf == \A e \in Execs :
    execState'[e] = "QUARANTINED" /\ execState[e] # "QUARANTINED" =>
        jobState[e[1]] \in TerminalJobStates

Protected == LockedInv' /\ OutcomeStays /\ FillsStay /\ VerdictsAreOf

(* A worker past the lock is alone, and before it touches nothing.           *)
LEMMA WorkerProtected ==
    ASSUME TypeOK, SubmissionInv, LockedInv, NEW w \in Workers, WorkerStep(w) \/ Crash(w)
    PROVE  Protected
<1>a. OthersStay(w) /\ LockMoves(w) BY WorkerAlone
<1>b. RowMoves(w) /\ PlaceMoves(w) /\ CountMoves(w) /\ JobMoves(w)
  BY WorkerRows, WorkerPlaces, WorkerWrites DEF LockedInv
<1>c. LockInv /\ OutcomeInv /\ VerdictInv /\ FilledInv /\ SnapshotInv BY DEF LockedInv
<1>d. /\ \A e \in Execs : e \in Landed => e \in Landed'
      /\ \A e \in Execs : sent'[e] = 0 => order'[e] = "none"
  <2>1. Next BY DEF Next
  <2> QED BY <1>c, <2>1, LandedStays
<1>e. /\ pc \in [Workers -> PCs] /\ execState \in [Execs -> ExecStates]
      /\ counted \in [Execs -> Nat]
      /\ res.pc # "idle" => res.exec \in Execs /\ res.exec[1] \in Jobs
      /\ \A v \in Workers : AtRow(v) => Critical(v) /\ ExecOf(v) \in Execs
  BY ExecOfTyped DEF TypeOK, WorkersOK, ExecsOK, LedgerOK, MaintenanceOK, Execs, AtRow, Critical
<1>f. Critical(w) => /\ res.pc = "idle" /\ rec.pc # "held"
                     /\ \A v \in Workers \ {w} : ~Critical(v)
  BY <1>c, ActorsAssumption DEF LockInv
<1>g. \A v \in Workers \ {w} : /\ ExecOf(v)' = ExecOf(v) /\ (AtRow(v)' <=> AtRow(v))
                               /\ (Critical(v)' <=> Critical(v))
  BY <1>a DEF OthersStay, ExecOf, AtRow, Critical
<1>1. LockInv'
  <2>1. CASE UNCHANGED lock /\ (Critical(w)' => Critical(w))
    BY <1>a, <1>c, <1>g, <2>1 DEF LockInv, OthersStay
  <2>2. CASE LockFree /\ lock' = w
    <3>1. lock = NoOne BY <2>2 DEF LockFree
    <3> QED BY <1>a, <1>c, <1>g, <2>2, <3>1, ActorsAssumption DEF LockInv, OthersStay
  <2>3. CASE lock' = Unlock(w) /\ ~Critical(w)'
    BY <1>a, <1>c, <1>g, <2>3, ActorsAssumption DEF LockInv, OthersStay, Unlock
  <2> QED BY <1>a, <2>1, <2>2, <2>3 DEF LockMoves
<1>2. OutcomeInv'
  <2>1. ASSUME NEW v \in Workers, AtRow(v)' PROVE execState'[ExecOf(v)'] = "SUBMITTING"
    <3>1. CASE v = w BY <1>b, <2>1, <3>1 DEF PlaceMoves
    <3>2. CASE v # w
      <4>1. AtRow(v) /\ Critical(v) /\ ExecOf(v)' = ExecOf(v) /\ ExecOf(v) \in Execs
        BY <1>e, <1>g, <2>1, <3>2
      <4>2. ~Critical(w) BY <1>f, <3>2, <4>1
      <4>3. execState'[ExecOf(v)] = execState[ExecOf(v)] BY <1>b, <4>1, <4>2 DEF RowMoves
      <4> QED BY <1>c, <4>1, <4>3 DEF OutcomeInv
    <3> QED BY <3>1, <3>2
  <2>2. ASSUME res.pc # "idle" PROVE Unresolved(res.exec)'
    <3>1. ~Critical(w) /\ res.exec \in Execs BY <1>e, <1>f, <2>2
    <3>2. execState'[res.exec] = execState[res.exec] BY <1>b, <3>1 DEF RowMoves
    <3>3. UNCHANGED res BY <1>a DEF OthersStay
    <3> QED BY <1>c, <2>2, <3>2, <3>3 DEF OutcomeInv, Unresolved
  <2>3. UNCHANGED res BY <1>a DEF OthersStay
  <2> QED BY <2>1, <2>2, <2>3 DEF OutcomeInv
<1>3. VerdictInv'
  <2>1. UNCHANGED res BY <1>a DEF OthersStay
  <2>2. CASE res.pc = "idle" BY <2>1, <2>2 DEF VerdictInv
  <2>3. CASE res.pc # "idle"
    <3>1. ~Critical(w) /\ res.exec[1] \in Jobs BY <1>e, <1>f, <2>3
    <3>2. \A j \in Jobs : jobState[j] \in TerminalJobStates => jobState'[j] = jobState[j]
      BY <1>b, <3>1 DEF JobMoves
    <3> QED BY <1>c, <2>1, <2>3, <3>1, <3>2 DEF VerdictInv
  <2> QED BY <2>2, <2>3
<1>4. FilledInv'
  <2>1. \A e \in Execs : execState'[e] = "FILLED" => e \in Landed
    BY <1>b, <1>c DEF RowMoves, FilledInv
  <2>2. ASSUME NEW v \in Workers, pc'[v] = "apply" PROVE ExecOf(v)' \in Landed
    <3>1. CASE v = w BY <1>b, <2>2, <3>1 DEF PlaceMoves
    <3>2. CASE v # w BY <1>a, <1>c, <1>g, <2>2, <3>2 DEF OthersStay, FilledInv
    <3> QED BY <3>1, <3>2
  <2>3. \A e \in Execs : counted'[e] > 0 => e \in Landed
    BY <1>b, <1>c DEF CountMoves, FilledInv
  <2>4. UNCHANGED <<res, rec>> BY <1>a DEF OthersStay
  <2>5. Landed \subseteq Execs BY DEF Landed
  <2>6. Landed \subseteq Landed' BY <1>d, <2>5
  <2> QED BY <1>c, <1>d, <2>1, <2>2, <2>3, <2>4, <2>6 DEF FilledInv
<1>5. SnapshotInv'
  <2>1. UNCHANGED <<res, rec>> BY <1>a DEF OthersStay
  <2>2. CASE Critical(w) BY <1>f, <2>1, <2>2 DEF SnapshotInv
  <2>3. CASE ~Critical(w)
    <3>1. \A e \in Execs : counted'[e] = counted[e] BY <1>b, <2>3 DEF CountMoves
    <3> QED BY <1>c, <2>1, <3>1 DEF SnapshotInv
  <2> QED BY <2>2, <2>3
<1>6. OutcomeStays
  <2> SUFFICES ASSUME NEW e \in Execs, execState[e] \in TerminalExecStates,
                      execState'[e] # execState[e]
               PROVE  FALSE
    BY DEF OutcomeStays
  <2>1. e = ExecOf(w) /\ AtRow(w) BY <1>b DEF RowMoves
  <2> QED BY <1>c, <2>1 DEF OutcomeInv
<1>7. FillsStay BY <1>b, <1>e DEF CountMoves, FillsStay
<1>8. VerdictsAreOf BY <1>b, WorkerNeverQuarantines DEF VerdictsAreOf
<1>9. LockedInv' BY <1>1, <1>2, <1>3, <1>4, <1>5 DEF LockedInv
<1> QED BY <1>6, <1>7, <1>8, <1>9 DEF Protected

(* A step that moves no worker and leaves rows, fills, the ledger's count,   *)
(* the lock and the other two owners alone.                                  *)
LEMMA QuietProtected ==
    ASSUME TypeOK, SubmissionInv, LockedInv, [Next]_vars,
           UNCHANGED <<execState, counted, lock, pc, wk, res, rec>>,
           \A j \in Jobs : jobState[j] \in TerminalJobStates => jobState'[j] = jobState[j]
    PROVE  Protected
<1>1. LockInv /\ OutcomeInv /\ VerdictInv /\ FilledInv /\ SnapshotInv BY DEF LockedInv
<1>2. /\ \A e \in Execs : e \in Landed => e \in Landed'
      /\ \A e \in Execs : sent'[e] = 0 => order'[e] = "none"
  BY <1>1, LandedStays
<1>3. \A w \in Workers : ExecOf(w)' = ExecOf(w) BY DEF ExecOf
<1>4. Landed \subseteq Execs BY DEF Landed
<1>5. Landed \subseteq Landed' BY <1>2, <1>4
<1>6. LockInv' BY <1>1 DEF LockInv, Critical
<1>7. OutcomeInv' BY <1>1, <1>3 DEF OutcomeInv, AtRow, Unresolved
<1>8. VerdictInv'
  <2>1. res.pc # "idle" => res.exec[1] \in Jobs BY DEF TypeOK, MaintenanceOK, Execs
  <2> QED BY <1>1, <2>1 DEF VerdictInv
<1>9. FilledInv' BY <1>1, <1>2, <1>3, <1>5 DEF FilledInv
<1>10. SnapshotInv' BY <1>1 DEF SnapshotInv
<1>11. OutcomeStays /\ FillsStay /\ VerdictsAreOf BY DEF OutcomeStays, FillsStay, VerdictsAreOf
<1> QED BY <1>6, <1>7, <1>8, <1>9, <1>10, <1>11 DEF Protected, LockedInv

(* The sources of jobs, the queue and the exchange.                          *)
LEMMA OthersProtected ==
    ASSUME TypeOK, SubmissionInv, LockedInv, [Next]_vars,
           \/ (\E p \in Positions : MasterMove(p)) \/ CloseNothing
           \/ (\E j \in Jobs : JobStep(j)) \/ ExchangeStep \/ UNCHANGED vars
    PROVE  Protected
<1>t. jobState \in [Jobs -> JobStates] BY DEF TypeOK, JobsOK
<1>1. CASE \/ (\E p \in Positions : MasterMove(p)) \/ CloseNothing \/ ExchangeStep
           \/ UNCHANGED vars
  <2>1. UNCHANGED <<jobState, execState, counted, lock, pc, wk, res, rec>>
    BY <1>1 DEF MasterMove, CloseNothing, ExchangeStep, Fill, NotFilled, ManualTrade, vars,
                jobVars, execVars
  <2> QED BY <2>1, QuietProtected
<1>2. ASSUME NEW j \in Jobs, JobStep(j) PROVE Protected
  <2>1. UNCHANGED <<execState, counted, lock, pc, wk, res, rec>>
    BY <1>2 DEF JobStep, MasterFill, ClosePositions, Publish, ExpireStrategyJob, ReleaseStale,
                execVars
  <2>2. CASE MasterFill(j) \/ ClosePositions(j)
    <3>1. jobState[j] = "none" /\ jobState' = [jobState EXCEPT ![j] = "QUEUED"]
      BY <2>2 DEF MasterFill, ClosePositions, CreateJob, NextJob, Created
    <3>2. \A k \in Jobs : jobState[k] \in TerminalJobStates => jobState'[k] = jobState[k]
      BY <1>t, <3>1
    <3> QED BY <2>1, <3>2, QuietProtected
  <2>3. CASE Publish(j)
    <3>1. jobState[j] \in ClaimableStates
          /\ \/ jobState' = [jobState EXCEPT ![j] = "SKIPPED"]
             \/ jobState' = [k \in Jobs |->
                    IF /\ Strategy(j) /\ Strategy(k) /\ jobState[k] \in ClaimableStates
                       /\ intent[k].order < intent[j].order
                    THEN "SKIPPED" ELSE jobState[k]]
      BY <2>3 DEF Publish
    <3>2. \A k \in Jobs : jobState[k] \in TerminalJobStates => jobState'[k] = jobState[k]
      BY <1>t, <3>1
    <3> QED BY <2>1, <3>2, QuietProtected
  <2>4. CASE ExpireStrategyJob(j) \/ ReleaseStale(j)
    <3>1. jobState[j] \in ClaimableStates \cup {"PROCESSING"}
          /\ \E s \in JobStates : jobState' = [jobState EXCEPT ![j] = s]
      BY <2>4 DEF ExpireStrategyJob, ReleaseStale, Released
    <3>2. \A k \in Jobs : jobState[k] \in TerminalJobStates => jobState'[k] = jobState[k]
      BY <1>t, <3>1
    <3> QED BY <2>1, <3>2, QuietProtected
  <2> QED BY <1>2, <2>2, <2>3, <2>4 DEF JobStep
<1> QED BY <1>1, <1>2

(* The resolver, under the lock from the query to the settlement.            *)
LEMMA ResolverProtected ==
    ASSUME TypeOK, SubmissionInv, LockedInv, ResolverStep
    PROVE  Protected
<1>1. LockInv /\ OutcomeInv /\ VerdictInv /\ FilledInv /\ SnapshotInv BY DEF LockedInv
<1>2. /\ \A e \in Execs : e \in Landed => e \in Landed'
      /\ \A e \in Execs : sent'[e] = 0 => order'[e] = "none"
  BY <1>1, LandedStays DEF Next
<1>3. UNCHANGED <<jobState, order, sent, pc, wk, rec>>
  BY DEF ResolverStep, ResolveQuery, ResolveSnapshot, ResolveUnverified, ResolveNotFilled,
         ResolveFilled, Quarantine, ResolveSkip, jobVars, exchVars
<1>4. /\ UNCHANGED Landed /\ \A w \in Workers : ExecOf(w)' = ExecOf(w)
      /\ \A w \in Workers : (Critical(w)' <=> Critical(w)) /\ (AtRow(w)' <=> AtRow(w))
  BY <1>3 DEF Landed, ExecOf, Critical, AtRow
<1>t. /\ execState \in [Execs -> ExecStates] /\ counted \in [Execs -> Nat]
      /\ res \in Resolutions /\ (res.pc # "idle" => res.exec \in Execs)
      /\ jobState \in [Jobs -> JobStates] /\ rec \in Reconciliations
  BY DEF TypeOK, ExecsOK, LedgerOK, MaintenanceOK, JobsOK
(* Under the lock nobody else is at a row.                                   *)
<1>5. res.pc # "idle" => /\ \A w \in Workers : ~Critical(w) /\ ~AtRow(w)
                         /\ rec.pc # "held"
  BY <1>1, ActorsAssumption DEF LockInv, AtRow, Critical
<1>6. ResIdle.pc = "idle" /\ ResIdle.out = "UNKNOWN" /\ ResIdle.seen = {} BY DEF ResIdle
(* The step that gives the lock back.                                        *)
<1>7. ASSUME res.pc # "idle", res' = ResIdle, lock' = Unlock(Resolver),
             \A e \in Execs : execState'[e] = "FILLED" => e \in Landed,
             \A e \in Execs : counted'[e] > 0 => e \in Landed
      PROVE  LockedInv'
  <2>1. LockInv' BY <1>1, <1>3, <1>4, <1>5, <1>6, <1>7, ActorsAssumption DEF LockInv, Unlock
  <2>2. OutcomeInv' BY <1>4, <1>5, <1>6, <1>7 DEF OutcomeInv
  <2>3. VerdictInv' BY <1>6, <1>7 DEF VerdictInv
  <2>4. FilledInv' BY <1>1, <1>2, <1>3, <1>4, <1>6, <1>7 DEF FilledInv
  <2>5. SnapshotInv' BY <1>3, <1>5, <1>6, <1>7 DEF SnapshotInv
  <2> QED BY <2>1, <2>2, <2>3, <2>4, <2>5 DEF LockedInv
<1>8. ASSUME NEW e \in Execs, ResolveQuery(e) PROVE Protected
  <2>1. lock = NoOne /\ res.pc = "idle" /\ Unresolved(e) /\ lock' = Resolver
        /\ UNCHANGED <<execState, counted>>
    BY <1>8 DEF ResolveQuery, LockFree, execVars
  <2>2. PICK out \in QueryOutcomes(e) :
           res' = [ResIdle EXCEPT !.pc = "queried", !.exec = e, !.out = out,
                                  !.job = jobState[e[1]]]
    BY <1>8 DEF ResolveQuery
  <2>3. res'.pc = "queried" /\ res'.exec = e /\ res'.out = out /\ res'.job = jobState[e[1]]
        /\ res'.seen = {}
    BY <2>2 DEF ResIdle
  <2>4. out = "FILLED" => e \in Landed BY DEF QueryOutcomes, FullyFilled, Landed
  <2>5. LockInv' BY <1>1, <1>3, <1>4, <2>1, <2>3, ActorsAssumption DEF LockInv
  <2>6. OutcomeInv'
    BY <1>1, <1>4, <2>1, <2>3 DEF OutcomeInv, Unresolved
  <2>7. VerdictInv' BY <1>3, <2>3 DEF VerdictInv
  <2>8. FilledInv' BY <1>1, <1>2, <1>3, <1>4, <2>1, <2>3, <2>4 DEF FilledInv
  <2>9. SnapshotInv' BY <1>1, <1>3, <2>1, <2>3 DEF SnapshotInv
  <2>10. OutcomeStays /\ FillsStay /\ VerdictsAreOf
    BY <2>1 DEF OutcomeStays, FillsStay, VerdictsAreOf
  <2> QED BY <2>5, <2>6, <2>7, <2>8, <2>9, <2>10 DEF Protected, LockedInv
<1>9. CASE ResolveSnapshot \/ ResolveUnverified
  <2>1. res.pc = "queried" /\ UNCHANGED <<execState, counted, lock>>
    BY <1>9 DEF ResolveSnapshot, ResolveUnverified, execVars
  <2>2. res'.exec = res.exec /\ res'.job = res.job /\ res'.pc \in {"queried", "snapped"}
        /\ res'.out \in {"FILLED", "UNKNOWN"} /\ (res'.out = "FILLED" => res.out = "FILLED")
    BY <1>9, <1>t DEF ResolveSnapshot, ResolveUnverified, Resolutions
  <2>3. res'.pc = "snapped" => /\ res'.seen = Landed
                               /\ res'.out = "UNKNOWN" => res.job \in TerminalJobStates
    BY <1>9, <1>t, <2>1 DEF ResolveSnapshot, ResolveUnverified, Resolutions, MayQuarantine
  <2>4. res'.seen \subseteq Landed
    BY <1>1, <1>9, <1>t DEF ResolveSnapshot, ResolveUnverified, Resolutions, FilledInv
  <2>5. LockInv' BY <1>1, <1>3, <1>4, <2>1, <2>2 DEF LockInv
  <2>6. OutcomeInv' BY <1>1, <1>4, <2>1, <2>2 DEF OutcomeInv, Unresolved
  <2>7. VerdictInv' BY <1>1, <1>3, <2>1, <2>2, <2>3 DEF VerdictInv
  <2>8. FilledInv' BY <1>1, <1>2, <1>3, <1>4, <2>1, <2>2, <2>4 DEF FilledInv
  <2>9. SnapshotInv' BY <1>1, <1>3, <2>1, <2>3 DEF SnapshotInv, FilledInv
  <2>10. OutcomeStays /\ FillsStay /\ VerdictsAreOf
    BY <2>1 DEF OutcomeStays, FillsStay, VerdictsAreOf
  <2> QED BY <2>5, <2>6, <2>7, <2>8, <2>9, <2>10 DEF Protected, LockedInv
<1>10. CASE ResolveSkip
  <2>1. res.pc # "idle" /\ res' = ResIdle /\ lock' = Unlock(Resolver)
        /\ UNCHANGED <<execState, counted>>
    BY <1>10 DEF ResolveSkip, execVars
  <2>2. LockedInv' BY <1>1, <1>7, <2>1 DEF FilledInv
  <2> QED BY <2>1, <2>2 DEF Protected, OutcomeStays, FillsStay, VerdictsAreOf
<1>11. CASE ResolveNotFilled \/ ResolveFilled \/ Quarantine
  <2>1. PICK e \in Execs : e = res.exec
    BY <1>11, <1>t DEF ResolveNotFilled, ResolveFilled, Quarantine
  <2>2. res.pc # "idle" /\ res' = ResIdle /\ lock' = Unlock(Resolver) /\ Unresolved(e)
    BY <1>1, <1>11, <2>1 DEF ResolveNotFilled, ResolveFilled, Quarantine, OutcomeInv
  <2>3. PICK out \in ExecStates :
           /\ execState' = [execState EXCEPT ![e] = out]
           /\ out = "FILLED" => res.out = "FILLED"
           /\ out = "QUARANTINED" => res.pc = "snapped" /\ res.out = "UNKNOWN"
    BY <1>11, <2>1 DEF ResolveNotFilled, ResolveFilled, Quarantine, PersistOutcome
  <2>4. \/ UNCHANGED counted
        \/ /\ res.pc = "snapped"
           /\ counted' = [x \in Execs |-> IF x \in res.seen THEN 1 ELSE 0]
    BY <1>11 DEF ResolveNotFilled, ResolveFilled, Quarantine, SyncLedger
  <2>5. \A x \in Execs : execState'[x] = "FILLED" => x \in Landed
    BY <1>1, <1>t, <2>1, <2>3 DEF FilledInv
  <2>6. \A x \in Execs : counted'[x] > 0 => x \in Landed BY <1>1, <2>4 DEF FilledInv
  <2>7. LockedInv' BY <1>7, <2>2, <2>5, <2>6
  <2>8. OutcomeStays BY <1>t, <2>2, <2>3 DEF OutcomeStays, Unresolved
  <2>9. FillsStay BY <1>1, <2>4 DEF FillsStay, SnapshotInv
  <2>10. VerdictsAreOf
    <3> SUFFICES ASSUME NEW x \in Execs, execState'[x] = "QUARANTINED",
                        execState[x] # "QUARANTINED"
                 PROVE  jobState[x[1]] \in TerminalJobStates
      BY DEF VerdictsAreOf
    <3>1. x = e /\ out = "QUARANTINED" BY <1>t, <2>3
    <3> QED BY <1>1, <2>1, <2>2, <2>3, <3>1 DEF VerdictInv
  <2> QED BY <2>7, <2>8, <2>9, <2>10 DEF Protected
<1> QED BY <1>8, <1>9, <1>10, <1>11 DEF ResolverStep

(* The reconciler, under the lock from the snapshot to the commit.           *)
LEMMA ReconcilerProtected ==
    ASSUME TypeOK, SubmissionInv, LockedInv, ReconcilerStep
    PROVE  Protected
<1>1. LockInv /\ OutcomeInv /\ VerdictInv /\ FilledInv /\ SnapshotInv BY DEF LockedInv
<1>2. /\ \A e \in Execs : e \in Landed => e \in Landed'
      /\ \A e \in Execs : sent'[e] = 0 => order'[e] = "none"
  BY <1>1, LandedStays DEF Next
<1>3. UNCHANGED <<execState, order, sent, pc, wk, res>>
  BY DEF ReconcilerStep, ReconcileStart, ReconcileMaster, ReconcileSnapshot, ReconcileCommit,
         ReconcileAbort, execVars, exchVars
<1>4. /\ UNCHANGED Landed /\ \A w \in Workers : ExecOf(w)' = ExecOf(w)
      /\ \A w \in Workers : (Critical(w)' <=> Critical(w)) /\ (AtRow(w)' <=> AtRow(w))
  BY <1>3 DEF Landed, ExecOf, Critical, AtRow
<1>t. /\ counted \in [Execs -> Nat] /\ jobState \in [Jobs -> JobStates]
      /\ rec \in Reconciliations /\ (res.pc # "idle" => res.exec[1] \in Jobs)
  BY DEF TypeOK, LedgerOK, JobsOK, MaintenanceOK, Execs
<1>5. rec.pc = "held" => res.pc = "idle" /\ \A w \in Workers : ~Critical(w)
  BY <1>1, ActorsAssumption DEF LockInv
<1>6. RecIdle.pc = "idle" /\ RecIdle.seen = {} BY DEF RecIdle
<1>7. OutcomeInv' BY <1>1, <1>3, <1>4 DEF OutcomeInv, Unresolved
<1>8. OutcomeStays /\ VerdictsAreOf BY <1>3 DEF OutcomeStays, VerdictsAreOf
<1>9. \A j \in Jobs : jobState[j] \in TerminalJobStates => jobState'[j] = jobState[j]
  <2>1. \/ UNCHANGED jobState
        \/ \E j \in Jobs : jobState[j] = "none" /\ jobState' = [jobState EXCEPT ![j] = "QUEUED"]
    BY DEF ReconcilerStep, ReconcileStart, ReconcileMaster, ReconcileSnapshot,
           ReconcileCommit, ReconcileAbort, CreateJob, NextJob, Created, jobVars
  <2> QED BY <1>t, <2>1
<1>10. VerdictInv' BY <1>1, <1>3, <1>9, <1>t DEF VerdictInv
<1>11. rec'.seen \subseteq Landed /\ \A e \in Execs : counted'[e] > 0 => e \in Landed
  <2>1. CASE ReconcileStart \/ ReconcileMaster \/ ReconcileSnapshot \/ ReconcileAbort
    <3>1. UNCHANGED counted
      BY <2>1 DEF ReconcileStart, ReconcileMaster, ReconcileSnapshot, ReconcileAbort
    <3>2. rec'.seen \in {{}, rec.seen, Landed}
      BY <1>6, <1>t, <2>1 DEF ReconcileStart, ReconcileMaster, ReconcileSnapshot,
                              ReconcileAbort, Reconciliations, RecIdle
    <3> QED BY <1>1, <3>1, <3>2 DEF FilledInv
  <2>2. CASE ReconcileCommit
    <3>1. rec' = RecIdle /\ counted' = [e \in Execs |-> IF e \in rec.seen THEN 1 ELSE 0]
      BY <2>2 DEF ReconcileCommit, SyncLedger
    <3> QED BY <1>1, <1>6, <3>1 DEF FilledInv
  <2> QED BY <2>1, <2>2 DEF ReconcilerStep
<1>12. FilledInv' BY <1>1, <1>2, <1>3, <1>4, <1>11 DEF FilledInv
<1>13. CASE ReconcileStart \/ ReconcileMaster
  <2>1. rec.pc # "held" /\ rec'.pc # "held" /\ UNCHANGED <<lock, counted>>
    BY <1>13, <1>t DEF ReconcileStart, ReconcileMaster, RecIdle, Reconciliations
  <2>2. LockInv' BY <1>1, <1>3, <1>4, <2>1 DEF LockInv
  <2>3. SnapshotInv' /\ FillsStay BY <1>1, <1>3, <2>1 DEF SnapshotInv, FillsStay
  <2> QED BY <1>7, <1>8, <1>10, <1>12, <2>2, <2>3 DEF Protected, LockedInv
<1>14. CASE ReconcileSnapshot
  <2>1. lock = NoOne /\ lock' = Reconciler /\ UNCHANGED counted /\ rec'.seen = Landed
    BY <1>14, <1>t DEF ReconcileSnapshot, LockFree, Reconciliations
  <2>2. LockInv' BY <1>1, <1>3, <1>4, <2>1, ActorsAssumption DEF LockInv
  <2>3. SnapshotInv' /\ FillsStay BY <1>1, <1>3, <2>1 DEF SnapshotInv, FilledInv, FillsStay
  <2> QED BY <1>7, <1>8, <1>10, <1>12, <2>2, <2>3 DEF Protected, LockedInv
<1>15. CASE ReconcileCommit \/ ReconcileAbort
  <2>1. rec' = RecIdle /\ lock' = Unlock(Reconciler)
    BY <1>15 DEF ReconcileCommit, ReconcileAbort
  <2>2. \/ UNCHANGED counted
        \/ /\ rec.pc = "held"
           /\ counted' = [e \in Execs |-> IF e \in rec.seen THEN 1 ELSE 0]
    BY <1>15 DEF ReconcileCommit, ReconcileAbort, SyncLedger
  <2>3. LockInv' BY <1>1, <1>3, <1>4, <1>6, <2>1, ActorsAssumption DEF LockInv, Unlock
  <2>4. SnapshotInv' BY <1>1, <1>3, <1>5, <1>6, <2>1, <2>2 DEF SnapshotInv
  <2>5. FillsStay BY <1>1, <2>2 DEF SnapshotInv, FillsStay
  <2> QED BY <1>7, <1>8, <1>10, <1>12, <2>3, <2>4, <2>5 DEF Protected, LockedInv
<1> QED BY <1>13, <1>14, <1>15 DEF ReconcilerStep

(* While no lock connection drops, every step keeps what the lock protects.  *)
LEMMA NextProtected ==
    ASSUME MaxLockLoss = 0, TypeOK, SubmissionInv, LockedInv, [Next]_vars
    PROVE  Protected
<1>1. ~LoseLock BY DEF LoseLock, TypeOK, SourcesOK
<1> QED BY <1>1, WorkerProtected, OthersProtected, ResolverProtected, ReconcilerProtected DEF Next

(* At first nobody holds the lock and nothing is filled.                     *)
LEMMA InitLocked == Init => LockedInv
<1> SUFFICES ASSUME Init PROVE LockedInv OBVIOUS
<1>1. LockInv BY DEF Init, LockInv, Critical, ResIdle, RecIdle
<1>2. OutcomeInv BY DEF Init, OutcomeInv, AtRow, ResIdle
<1>3. VerdictInv BY DEF Init, VerdictInv, ResIdle
<1>4. FilledInv BY DEF Init, FilledInv, ResIdle, RecIdle
<1>5. SnapshotInv BY DEF Init, SnapshotInv, ResIdle, RecIdle
<1> QED BY <1>1, <1>2, <1>3, <1>4, <1>5 DEF LockedInv

(* The user lock does what it is for, as long as its connections hold.       *)
LEMMA LockedInvariance == ASSUME MaxLockLoss = 0 PROVE Spec => [](TypeOK /\ SubmissionInv /\ LockedInv)
<1>1. TypeOK /\ SubmissionInv /\ LockedInv /\ [Next]_vars => LockedInv'
  BY NextProtected DEF Protected
<1> QED BY <1>1, InitTyped, NextTyped, InitSubmission, NextSubmission, InitLocked, PTL DEF Spec

(* EXECUTION_TRANSITIONS, _execute_leg, resolve_ambiguous_executions: a      *)
(* terminal execution never changes again, whoever races for it.             *)
THEOREM OutcomeIsFinal == ASSUME MaxLockLoss = 0 PROVE Spec => ExecutionOutcomeFinal
<1>1. TypeOK /\ SubmissionInv /\ LockedInv /\ [Next]_vars =>
        [\A e \in Execs : execState[e] \in TerminalExecStates => execState'[e] = execState[e]]_vars
  BY NextProtected DEF Protected, OutcomeStays
<1> QED BY <1>1, LockedInvariance, PTL DEF Spec, ExecutionOutcomeFinal

(* reconcile_user, resolve_ambiguous_executions: a fill in the ledger is     *)
(* never lost to a snapshot that is older than the fill.                     *)
THEOREM LedgerRemembers == ASSUME MaxLockLoss = 0 PROVE Spec => LedgerNeverForgets
<1>1. TypeOK /\ SubmissionInv /\ LockedInv /\ [Next]_vars =>
        [\A e \in Execs : counted[e] > 0 => counted'[e] > 0]_vars
  BY NextProtected DEF Protected, FillsStay
<1> QED BY <1>1, LockedInvariance, PTL DEF Spec, LedgerNeverForgets

(* resolve_ambiguous_executions: "only an already-terminal CopyJob may be    *)
(* moved to QUARANTINED", at the commit as at the read.                      *)
THEOREM QuarantineIsTerminal == ASSUME MaxLockLoss = 0 PROVE Spec => QuarantineOnlyTerminal
<1>1. TypeOK /\ SubmissionInv /\ LockedInv /\ [Next]_vars =>
        [\A e \in Execs : execState'[e] = "QUARANTINED" /\ execState[e] # "QUARANTINED" =>
            jobState[e[1]] \in TerminalJobStates]_vars
  BY NextProtected DEF Protected, VerdictsAreOf
<1> QED BY <1>1, LockedInvariance, PTL DEF Spec, QuarantineOnlyTerminal

-----------------------------------------------------------------------------
(* Sums over executions.                                                     *)
(* SumFunction is a fold of the community modules: a function defined by     *)
(* recursion over the subsets of its domain. That it exists, and what it     *)
(* gives, is shown layer by layer, the sets of at most n elements after      *)
(* those of at most n - 1, with induction as a fact about sets of numbers.   *)

(* A set of natural numbers with 0 and all successors is all of them.        *)
LEMMA AllNaturals ==
    ASSUME NEW P \in SUBSET Nat, 0 \in P, \A n \in P : n + 1 \in P
    PROVE  P = Nat
<1> SUFFICES ASSUME Nat \ P # {} PROVE FALSE OBVIOUS
<1>1. \E x \in Nat \ P : \A y \in Nat \ P : ~ (<<y, x>> \in OpToRel(<, Nat))
  BY NatLessThanWellFounded, WFMin, Zenon
<1>2. PICK m \in Nat \ P : \A y \in Nat \ P : ~(y < m) BY <1>1 DEF OpToRel
<1>3. m # 0 /\ m - 1 \in Nat /\ m - 1 < m OBVIOUS
<1>4. m - 1 \in P BY <1>2, <1>3
<1>5. (m - 1) + 1 \in P BY <1>4
<1> QED BY <1>2, <1>5

(* The element a fold takes next, the equation of the fold of f over the     *)
(* subsets of S, and what is left of a set after one element.                *)
Chosen(s)      == CHOOSE x \in s : TRUE
Rest(s)        == s \ {Chosen(s)}
Folds(f, S, it) == it = [s \in SUBSET S |-> IF s = {} THEN 0 ELSE f[Chosen(s)] + it[Rest(s)]]

(* Taking out the chosen element leaves a smaller subset.                    *)
LEMMA RestSmaller ==
    ASSUME NEW S, IsFiniteSet(S), NEW s \in SUBSET S
    PROVE  /\ Cardinality(s) \in Nat /\ Cardinality(s) <= Cardinality(S)
           /\ Cardinality(s) = 0 <=> s = {}
           /\ s # {} => /\ Chosen(s) \in s /\ Rest(s) \in SUBSET S
                        /\ Cardinality(Rest(s)) = Cardinality(s) - 1
<1>1. IsFiniteSet(s) /\ Cardinality(s) <= Cardinality(S) BY FS_Subset
<1>2. Cardinality(s) \in Nat BY <1>1, FS_CardinalityType
<1>3. Cardinality(s) = 0 <=> s = {} BY <1>1, FS_EmptySet
<1>4. s # {} => Chosen(s) \in s BY DEF Chosen
<1>5. s # {} => Cardinality(Rest(s)) = Cardinality(s) - 1 BY <1>1, <1>4, FS_RemoveElement DEF Rest
<1> QED BY <1>1, <1>2, <1>3, <1>4, <1>5 DEF Rest

(* The fold of a function over a finite set exists.                          *)
LEMMA FoldExists == ASSUME NEW S, IsFiniteSet(S), NEW f PROVE \E it : Folds(f, S, it)
<1> DEFINE Layer(n)    == {s \in SUBSET S : Cardinality(s) <= n}
           Step(it, s) == IF s = {} THEN 0 ELSE f[Chosen(s)] + it[Rest(s)]
           P == {n \in Nat : \E it : it = [s \in Layer(n) |-> Step(it, s)]}
<1>c. \A s \in SUBSET S : Cardinality(s) \in Nat /\ Cardinality(s) <= Cardinality(S)
  BY RestSmaller
<1> HIDE DEF Step
<1>1. 0 \in P
  <2> DEFINE it == [s \in Layer(0) |-> 0]
  <2>1. \A s \in Layer(0) : s = {} BY RestSmaller
  <2>2. it = [s \in Layer(0) |-> Step(it, s)] BY <2>1 DEF Step
  <2> QED BY <2>2
<1>2. ASSUME NEW n \in P PROVE n + 1 \in P
  <2>1. PICK it : it = [s \in Layer(n) |-> Step(it, s)] OBVIOUS
  <2> DEFINE up == [s \in Layer(n + 1) |-> Step(it, s)]
  <2>2. \A s \in Layer(n) : s \in Layer(n + 1) BY <1>c
  <2>3. \A s \in Layer(n) : up[s] = it[s] BY <2>1, <2>2
  <2>4. \A s \in Layer(n + 1) : s # {} => Rest(s) \in Layer(n) BY <1>c, RestSmaller
  <2>5. (\A s \in Layer(n + 1) : up[s] = Step(it, s)) /\ up = [s \in Layer(n + 1) |-> up[s]]
    OBVIOUS
  <2>6. n + 1 \in Nat OBVIOUS
  <2> HIDE DEF up, Layer
  <2>7. \A s \in Layer(n + 1) : Step(up, s) = Step(it, s) BY <2>3, <2>4 DEF Step
  <2>8. up = [s \in Layer(n + 1) |-> Step(up, s)] BY <2>5, <2>7
  <2> QED BY <2>6, <2>8
<1>3. P = Nat BY <1>1, <1>2, AllNaturals
<1>4. Layer(Cardinality(S)) = SUBSET S BY <1>c
<1>5. Cardinality(S) \in P BY <1>3, FS_CardinalityType
<1>6. \E it : it = [s \in SUBSET S |-> Step(it, s)] BY <1>4, <1>5
<1> QED BY <1>6 DEF Folds, Step

(* F adds up f over the subsets of S, and the sum of f is its value for S.   *)
Adds(f, S, F) ==
    /\ SumFunction(f) = F[S]
    /\ \A s \in SUBSET S : F[s] = IF s = {} THEN 0 ELSE f[Chosen(s)] + F[Rest(s)]

(* The sum over the values of a function is such a fold.                     *)
LEMMA SumIsFold ==
    ASSUME NEW S, IsFiniteSet(S), NEW f \in [S -> Int]
    PROVE  \E F : Adds(f, S, F)
<1> DEFINE F == CHOOSE it : Folds(f, S, it)
<1>1. SumFunction(f) = F[S]
  BY DEF SumFunction, SumFunctionOnSet, FoldFunctionOnSet, MapThenFoldSet, Folds, Chosen, Rest
<1>2. Folds(f, S, F) BY FoldExists
<1> HIDE DEF F
<1> QED BY <1>1, <1>2 DEF Adds, Folds

(* Changing one value of a function changes its sum by as much.              *)
LEMMA SumChange ==
    ASSUME NEW S, IsFiniteSet(S), NEW f \in [S -> Int], NEW g \in [S -> Int], NEW e \in S,
           \A x \in S \ {e} : g[x] = f[x]
    PROVE  SumFunction(f) \in Int /\ SumFunction(g) = SumFunction(f) + g[e] - f[e]
<1>1. PICK F : Adds(f, S, F) BY SumIsFold
<1>2. PICK G : Adds(g, S, G) BY SumIsFold
<1> DEFINE Ok(s) == F[s] \in Int /\ G[s] = F[s] + (IF e \in s THEN g[e] - f[e] ELSE 0)
           P == {n \in Nat : \A s \in SUBSET S : Cardinality(s) = n => Ok(s)}
<1> USE DEF Adds
<1>3. 0 \in P BY <1>1, <1>2, RestSmaller
<1>4. ASSUME NEW n \in P PROVE n + 1 \in P
  <2> SUFFICES ASSUME NEW s \in SUBSET S, Cardinality(s) = n + 1 PROVE Ok(s) OBVIOUS
  <2> DEFINE x == Chosen(s)
             r == Rest(s)
  <2>1. n + 1 # 0 OBVIOUS
  <2>2. s # {} /\ x \in s /\ r \in SUBSET S /\ Cardinality(r) = n /\ r = s \ {x}
    BY <2>1, RestSmaller DEF Rest
  <2>3. Ok(r) BY <2>2
  <2>4. F[s] = f[x] + F[r] /\ G[s] = g[x] + G[r] BY <1>1, <1>2, <2>2
  <2>5. f[x] \in Int /\ g[x] \in Int /\ x \in S BY <2>2
  <2>6. CASE x = e
    <3>1. e \notin r /\ e \in s BY <2>2, <2>6
    <3> HIDE DEF r, x
    <3> QED BY <2>3, <2>4, <2>5, <2>6, <3>1
  <2>7. CASE x # e
    <3>1. (e \in r <=> e \in s) /\ g[x] = f[x] BY <2>2, <2>5, <2>7
    <3> HIDE DEF r, x
    <3> QED BY <2>3, <2>4, <2>5, <3>1
  <2> QED BY <2>6, <2>7
<1>5. P = Nat BY <1>3, <1>4, AllNaturals
<1>6. Ok(S) BY <1>5, RestSmaller
<1> QED BY <1>1, <1>2, <1>6

(* Nothing but zeros sums up to zero.                                        *)
LEMMA SumZero ==
    ASSUME NEW S, IsFiniteSet(S), NEW f \in [S -> Int], \A x \in S : f[x] = 0
    PROVE  SumFunction(f) = 0
<1>1. PICK F : Adds(f, S, F) BY SumIsFold
<1> DEFINE P == {n \in Nat : \A s \in SUBSET S : Cardinality(s) = n => F[s] = 0}
<1> USE DEF Adds
<1>2. 0 \in P BY <1>1, RestSmaller
<1>3. ASSUME NEW n \in P PROVE n + 1 \in P
  <2> SUFFICES ASSUME NEW s \in SUBSET S, Cardinality(s) = n + 1 PROVE F[s] = 0 OBVIOUS
  <2>1. n + 1 # 0 OBVIOUS
  <2>2. s # {} /\ Chosen(s) \in S /\ Rest(s) \in SUBSET S /\ Cardinality(Rest(s)) = n
    BY <2>1, RestSmaller
  <2> QED BY <1>1, <2>2
<1>4. P = Nat BY <1>2, <1>3, AllNaturals
<1> QED BY <1>1, <1>4, RestSmaller

(* There are finitely many executions.                                       *)
LEMMA ExecsFinite == IsFiniteSet(Execs)
<1>1. IsFiniteSet(Jobs) BY JobsAssumption, FS_Interval DEF Jobs
<1>2. IsFiniteSet({} \cup {"c"}) BY FS_EmptySet, FS_AddElement
<1>3. IsFiniteSet(({} \cup {"c"}) \cup {"o"}) BY <1>2, FS_AddElement
<1>4. Kinds = ({} \cup {"c"}) \cup {"o"} OBVIOUS
<1> QED BY <1>1, <1>3, <1>4, FS_Product DEF Execs

-----------------------------------------------------------------------------
(* Recorded fills.                                                           *)
(* With or without the lock, a size recorded of an execution is nothing or   *)
(* what the exchange filled, and an execution recorded as FILLED has it.     *)

FillInv ==
    /\ \A e \in Execs : /\ order[e] # "filled" => xfill[e] = 0
                        /\ execFill[e] \in {0, xfill[e]}
                        /\ execState[e] = "FILLED" => order[e] = "filled" /\ execFill[e] = xfill[e]
                        /\ sent[e] = 0 => order[e] = "none"
    /\ res.out = "FILLED" => res.exec \in Landed

(* Rows are written with what the exchange did.                              *)
RowsTrue ==
    \A e \in Execs :
        \/ execState'[e] = execState[e] /\ execFill'[e] = execFill[e]
        \/ /\ execFill'[e] \in {0, xfill[e]}
           /\ execState'[e] = "FILLED" => order[e] = "filled" /\ execFill'[e] = xfill[e]

(* _persist_outcome with a true outcome.                                     *)
LEMMA PersistTrue ==
    ASSUME TypeOK, NEW e \in Execs, NEW out \in ExecStates, NEW filled \in {0, xfill[e]},
           out = "FILLED" => order[e] = "filled" /\ filled = xfill[e],
           PersistOutcome(e, out, filled)
    PROVE  RowsTrue
BY DEF PersistOutcome, RowsTrue, TypeOK, ExecsOK

(* A worker records what the exchange answered.                              *)
LEMMA WorkerRowsTrue ==
    ASSUME TypeOK, FillInv, NEW w \in Workers, WorkerStep(w) \/ Crash(w)
    PROVE  RowsTrue
<1> DEFINE e == ExecOf(w)
<1>0. pc[w] # "idle" => e \in Execs BY ExecOfTyped DEF TypeOK
<1>1. CASE UNCHANGED <<execState, execFill>> BY <1>1 DEF RowsTrue
<1>2. CASE LegResolve(w)
  <2>1. PICK out \in QueryOutcomes(e) :
           IF out = "UNKNOWN" THEN UNCHANGED execVars
           ELSE PersistOutcome(e, out, IF out = "FILLED" THEN execLeg[e].delta ELSE 0)
    BY <1>2 DEF LegResolve
  <2>2. out \in ExecStates /\ (out = "FILLED" => order[e] = "filled" /\ xfill[e] = execLeg[e].delta)
    BY DEF QueryOutcomes, FullyFilled
  <2>3. e \in Execs BY <1>0, <1>2 DEF LegResolve
  <2>4. CASE out = "UNKNOWN" BY <1>1, <2>1, <2>4 DEF execVars
  <2>5. CASE out = "FILLED" BY <2>1, <2>2, <2>3, <2>5, PersistTrue
  <2>6. CASE out \notin {"UNKNOWN", "FILLED"}
    <3>1. PersistOutcome(e, out, 0) BY <2>1, <2>6
    <3> QED BY <2>2, <2>3, <2>6, <3>1, PersistTrue
  <2> QED BY <2>4, <2>5, <2>6
<1>3. CASE PreSubmitCancel(w) \/ SubmitAmbiguous(w)
  <2>1. e \in Execs /\ \E out \in {"CANCELED", "UNKNOWN"} : PersistOutcome(e, out, 0)
    BY <1>0, <1>3 DEF PreSubmitCancel, SubmitAmbiguous
  <2> HIDE DEF e
  <2> QED BY <2>1, PersistTrue
<1>4. CASE Response(w)
  <2>1. e \in Execs /\ PersistOutcome(e, IF order[e] = "filled" THEN "FILLED" ELSE "REJECTED", xfill[e])
    BY <1>0, <1>4 DEF Response, TotalSz
  <2> HIDE DEF e
  <2>2. CASE order[e] = "filled" BY <2>1, <2>2, PersistTrue
  <2>3. CASE order[e] # "filled" BY <2>1, <2>3, PersistTrue
  <2> QED BY <2>2, <2>3
<1>5. CASE InsertExecution(w)
  <2>1. e \in Execs /\ execState' = [execState EXCEPT ![e] = "SUBMITTING"] /\ UNCHANGED execFill
    BY <1>0, <1>5 DEF InsertExecution
  <2> HIDE DEF e
  <2> QED BY <2>1 DEF RowsTrue, FillInv, TypeOK, ExecsOK
<1>6. CASE \/ \E j \in Jobs : Claim(w, j)
           \/ AcquireLock(w) \/ ClaimLost(w) \/ Decline(w) \/ Plan(w) \/ LegFresh(w)
           \/ LegStored(w) \/ InsertConflict(w) \/ Authorize(w) \/ Submit(w)
           \/ ApplyFill(w) \/ ApplyDeferred(w) \/ Finish(w) \/ Crash(w)
  <2>1. UNCHANGED <<execState, execFill>>
    BY <1>6 DEF Claim, AcquireLock, ClaimLost, Decline, Plan, LegFresh, LegStored,
                InsertConflict, Authorize, Submit, ApplyFill, ApplyDeferred, Finish, Crash,
                execVars
  <2> QED BY <1>1, <2>1
<1> QED BY <1>2, <1>3, <1>4, <1>5, <1>6 DEF WorkerStep

(* So does the resolver, which keeps what it learned of a fill.              *)
LEMMA ResolverRowsTrue ==
    ASSUME TypeOK, FillInv, ResolverStep
    PROVE  RowsTrue /\ (res'.out = "FILLED" => res'.exec \in Landed)
<1>t. res \in Resolutions /\ (res.pc # "idle" => res.exec \in Execs) BY DEF TypeOK, MaintenanceOK
<1>1. ASSUME NEW e \in Execs, ResolveQuery(e)
      PROVE  RowsTrue /\ (res'.out = "FILLED" => res'.exec \in Landed)
  <2>1. UNCHANGED <<execState, execFill>> BY <1>1 DEF ResolveQuery, execVars
  <2>2. PICK out \in QueryOutcomes(e) :
           res' = [ResIdle EXCEPT !.pc = "queried", !.exec = e, !.out = out,
                                  !.job = jobState[e[1]]]
    BY <1>1 DEF ResolveQuery
  <2>3. res'.exec = e /\ res'.out = out BY <2>2 DEF ResIdle
  <2> QED BY <2>1, <2>3 DEF RowsTrue, QueryOutcomes, FullyFilled, Landed
<1>2. CASE ResolveSnapshot \/ ResolveUnverified
  <2>1. UNCHANGED <<execState, execFill>> /\ res'.exec = res.exec
        /\ (res'.out = "FILLED" => res.out = "FILLED")
    BY <1>2, <1>t DEF ResolveSnapshot, ResolveUnverified, Resolutions, execVars
  <2> QED BY <2>1 DEF RowsTrue, FillInv
<1>3. CASE ResolveSkip
  <2>1. UNCHANGED <<execState, execFill>> /\ res'.out = "UNKNOWN"
    BY <1>3 DEF ResolveSkip, ResIdle, execVars
  <2> QED BY <2>1 DEF RowsTrue
<1>4. CASE ResolveNotFilled \/ ResolveFilled
  <2>1. PICK out \in {"REJECTED", "CANCELED", "FILLED"} :
           /\ PersistOutcome(res.exec, out, IF out = "FILLED" THEN xfill[res.exec] ELSE 0)
           /\ out = "FILLED" => res.out = "FILLED"
    BY <1>4 DEF ResolveNotFilled, ResolveFilled
  <2>2. res.exec \in Execs /\ res'.out = "UNKNOWN"
    BY <1>4, <1>t DEF ResolveNotFilled, ResolveFilled, ResIdle
  <2>3. CASE out = "FILLED" BY <2>1, <2>2, <2>3, PersistTrue DEF FillInv, Landed
  <2>4. CASE out # "FILLED"
    <3>1. PersistOutcome(res.exec, out, 0) BY <2>1, <2>4
    <3> QED BY <2>2, <2>4, <3>1, PersistTrue
  <2> QED BY <2>3, <2>4
<1>5. CASE Quarantine
  <2>1. /\ execState' = [execState EXCEPT ![res.exec] = "QUARANTINED"] /\ UNCHANGED execFill
        /\ res'.out = "UNKNOWN"
    BY <1>5 DEF Quarantine, ResIdle
  <2> QED BY <2>1 DEF RowsTrue, FillInv, TypeOK, ExecsOK
<1> QED BY <1>1, <1>2, <1>3, <1>4, <1>5 DEF ResolverStep

(* What the exchange does to one order.                                      *)
LEMMA ExchangeMoves ==
    ASSUME TypeOK, NEW e \in Execs, Fill(e) \/ NotFilled(e)
    PROVE  /\ order[e] = "wire" /\ UNCHANGED <<execVars, res, sent>>
           /\ \A x \in Execs \ {e} : order'[x] = order[x] /\ xfill'[x] = xfill[x]
           /\ order'[e] \in {"filled", "rejected", "lost"}
           /\ order'[e] # "filled" => xfill'[e] = xfill[e]
<1>t. order \in [Execs -> OrderStates] /\ xfill \in [Execs -> Int] BY DEF TypeOK, ExchangeOK
<1>1. CASE Fill(e)
  <2>1. PICK f : xfill' = [xfill EXCEPT ![e] = f] BY <1>1 DEF Fill
  <2> QED BY <1>1, <1>t, <2>1 DEF Fill
<1>2. CASE NotFilled(e) BY <1>2, <1>t DEF NotFilled
<1> QED BY <1>1, <1>2

(* Steps that touch no order.                                                *)
LEMMA OrdersStay ==
    /\ \A w \in Workers : (WorkerStep(w) \/ Crash(w)) /\ ~Submit(w) => UNCHANGED exchVars
    /\ ResolverStep \/ ReconcilerStep \/ LoseLock \/ CloseNothing => UNCHANGED exchVars
    /\ \A p \in Positions : MasterMove(p) => UNCHANGED exchVars
    /\ \A j \in Jobs : JobStep(j) => UNCHANGED exchVars
    /\ ManualTrade => UNCHANGED <<order, xfill, sent>>
<1>1. ASSUME NEW w \in Workers, (WorkerStep(w) \/ Crash(w)) /\ ~Submit(w) PROVE UNCHANGED exchVars
  BY <1>1 DEF WorkerStep, Claim, AcquireLock, ClaimLost, Decline, Plan, LegFresh, LegStored,
              LegResolve, InsertExecution, InsertConflict, Authorize, PreSubmitCancel,
              SubmitAmbiguous, Response, ApplyFill, ApplyDeferred, Finish, Crash
<1>2. ASSUME ResolverStep \/ ReconcilerStep \/ LoseLock \/ CloseNothing PROVE UNCHANGED exchVars
  BY <1>2 DEF CloseNothing, LoseLock, ResolverStep, ResolveQuery, ResolveSnapshot,
              ResolveUnverified, ResolveNotFilled, ResolveFilled, Quarantine, ResolveSkip,
              ReconcilerStep, ReconcileStart, ReconcileMaster, ReconcileSnapshot,
              ReconcileCommit, ReconcileAbort
<1>3. \A p \in Positions : MasterMove(p) => UNCHANGED exchVars BY DEF MasterMove
<1>4. \A j \in Jobs : JobStep(j) => UNCHANGED exchVars
  BY DEF JobStep, MasterFill, ClosePositions, Publish, ExpireStrategyJob, ReleaseStale
<1>5. ManualTrade => UNCHANGED <<order, xfill, sent>> BY DEF ManualTrade
<1> QED BY <1>1, <1>2, <1>3, <1>4, <1>5

(* An order leaves once, so a fill is never undone.                          *)
LEMMA SubmitMoves ==
    ASSUME TypeOK, SubmissionInv, FillInv, NEW w \in Workers, Submit(w)
    PROVE  LET e == ExecOf(w) IN
           /\ e \in Execs /\ order[e] = "none" /\ sent[e] = 0
           /\ order' = [order EXCEPT ![e] = "wire"] /\ sent' = [sent EXCEPT ![e] = 1]
           /\ UNCHANGED <<execVars, xfill, pos, res>>
<1>1. ExecOf(w) \in Execs BY ExecOfTyped DEF Submit, TypeOK
<1>2. sent[ExecOf(w)] = 0 BY DEF Submit, SubmissionInv, Sending
<1> QED BY <1>1, <1>2 DEF Submit, FillInv, TypeOK, ExchangeOK

(* Every step keeps the recorded fills true.                                 *)
LEMMA NextFills == TypeOK /\ SubmissionInv /\ FillInv /\ [Next]_vars => FillInv'
<1> SUFFICES ASSUME TypeOK, SubmissionInv, FillInv, [Next]_vars PROVE FillInv' OBVIOUS
<1>t. /\ order \in [Execs -> OrderStates] /\ sent \in [Execs -> Nat]
  BY DEF TypeOK, ExchangeOK
<1>1. ASSUME UNCHANGED <<order, xfill, sent>>, RowsTrue,
             res'.out = "FILLED" => res'.exec \in Landed
      PROVE  FillInv'
  BY <1>1 DEF FillInv, RowsTrue, Landed
<1>2. ASSUME UNCHANGED <<order, xfill, sent, execState, execFill, res>> PROVE FillInv'
  BY <1>2 DEF FillInv, Landed
<1>3. ASSUME NEW w \in Workers, Submit(w) PROVE FillInv'
  <2> DEFINE e == ExecOf(w)
  <2>1. /\ e \in Execs /\ order[e] = "none" /\ sent[e] = 0
        /\ order' = [order EXCEPT ![e] = "wire"] /\ sent' = [sent EXCEPT ![e] = 1]
        /\ UNCHANGED <<execState, execFill, xfill, res>>
    BY <1>3, SubmitMoves DEF execVars
  <2> HIDE DEF e
  <2> QED BY <1>t, <2>1 DEF FillInv, Landed
<1>4. ASSUME NEW e \in Execs, Fill(e) \/ NotFilled(e) PROVE FillInv'
  <2>1. /\ order[e] = "wire" /\ UNCHANGED <<execState, execFill, res, sent>>
        /\ \A x \in Execs \ {e} : order'[x] = order[x] /\ xfill'[x] = xfill[x]
        /\ order'[e] \in {"filled", "rejected", "lost"}
        /\ order'[e] # "filled" => xfill'[e] = xfill[e]
    BY <1>4, ExchangeMoves DEF execVars
  <2>2. xfill[e] = 0 /\ execFill[e] = 0 /\ execState[e] # "FILLED" /\ sent[e] # 0
    BY <2>1 DEF FillInv
  <2>3. res.out = "FILLED" => res.exec \in Landed' BY <2>1 DEF FillInv, Landed
  <2> QED BY <2>1, <2>2, <2>3 DEF FillInv
<1>5. ASSUME NEW w \in Workers, WorkerStep(w) \/ Crash(w), ~Submit(w) PROVE FillInv'
  <2>1. UNCHANGED res /\ RowsTrue BY <1>5, WorkerRowsTrue, WorkerAlone DEF OthersStay
  <2>2. UNCHANGED <<order, xfill, sent>> BY <1>5, OrdersStay DEF exchVars
  <2> QED BY <1>1, <2>1, <2>2 DEF FillInv
<1>6. CASE ResolverStep BY <1>1, <1>6, ResolverRowsTrue, OrdersStay DEF exchVars
<1>7. CASE \/ (\E p \in Positions : MasterMove(p)) \/ CloseNothing
           \/ (\E j \in Jobs : JobStep(j)) \/ LoseLock \/ ReconcilerStep
           \/ ManualTrade \/ UNCHANGED vars
  <2>1. UNCHANGED <<order, xfill, sent>> BY <1>7, OrdersStay DEF exchVars, vars
  <2>2. UNCHANGED <<execState, execFill, res>>
    BY <1>7 DEF MasterMove, CloseNothing, JobStep, MasterFill, ClosePositions, Publish,
                ExpireStrategyJob, ReleaseStale, LoseLock, ReconcilerStep, ReconcileStart,
                ReconcileMaster, ReconcileSnapshot, ReconcileCommit, ReconcileAbort,
                ManualTrade, vars, execVars
  <2> QED BY <1>2, <2>1, <2>2
<1> QED BY <1>3, <1>4, <1>5, <1>6, <1>7 DEF Next, ExchangeStep

(* At first nothing is recorded and nothing filled.                          *)
LEMMA InitFills == Init => FillInv
BY DEF Init, FillInv, ResIdle

(* The recorded fills are true in every state.                               *)
LEMMA FillsInvariance == Spec => [](TypeOK /\ SubmissionInv /\ FillInv)
BY InitTyped, NextTyped, InitSubmission, NextSubmission, InitFills, NextFills, PTL DEF Spec

-----------------------------------------------------------------------------
(* The ledger explained.                                                     *)
(* Between Plan and the end of its job a worker works from the copy of the   *)
(* ledger row it read once. Under the lock that copy is the row, so what it  *)
(* adds is added to what is there; and a snapshot that is about to replace   *)
(* the row differs from the exchange by the fills it has not seen.           *)

Planned(w)   == pc[w] \in {"leg", "insert", "send", "authorized", "await", "apply"}
Uncounted    == [e \in Execs |-> (1 - counted[e]) * xfill[e]]
Unseen(seen) == [e \in Execs |-> IF e \in seen THEN 0 ELSE xfill[e]]

CopyInv ==
    /\ \A w \in Workers : Planned(w) => wk[w].led = ledger
    /\ \A w \in Workers : pc[w] = "apply" => execState[ExecOf(w)] = "FILLED"

LedgerInv ==
    /\ CopyInv
    /\ pos - ledger.size = SumFunction(Uncounted)
    /\ res.pc = "snapped" => pos - res.snap = SumFunction(Unseen(res.seen))
    /\ rec.pc = "held" => pos - rec.snap = SumFunction(Unseen(rec.seen))

(* The functions summed are functions to Int.                                *)
LEMMA GapsTyped ==
    ASSUME TypeOK
    PROVE  Uncounted \in [Execs -> Int] /\ \A seen : Unseen(seen) \in [Execs -> Int]
BY DEF TypeOK, LedgerOK, ExchangeOK, Uncounted, Unseen

(* One more copy of a fill in the ledger.                                    *)
LEMMA CountOnce ==
    ASSUME TypeOK, NEW e \in Execs, UNCHANGED xfill,
           counted' = [counted EXCEPT ![e] = counted[e] + 1]
    PROVE  SumFunction(Uncounted)' = SumFunction(Uncounted) - xfill[e]
<1>1. counted \in [Execs -> Nat] /\ xfill \in [Execs -> Int] BY DEF TypeOK, LedgerOK, ExchangeOK
<1> DEFINE f == Uncounted
           g == [x \in Execs |-> (1 - counted'[x]) * xfill[x]]
<1>2. f \in [Execs -> Int] BY GapsTyped
<1>3. g \in [Execs -> Int] BY <1>1
<1>4. \A x \in Execs \ {e} : g[x] = f[x] BY <1>1 DEF Uncounted
<1>5. g[e] = f[e] - xfill[e]
  <2>1. g[e] = (1 - (counted[e] + 1)) * xfill[e] /\ f[e] = (1 - counted[e]) * xfill[e]
    BY <1>1 DEF Uncounted
  <2>2. counted[e] \in Int /\ xfill[e] \in Int BY <1>1
  <2>3. \A c, x \in Int : (1 - (c + 1)) * x = (1 - c) * x - x OBVIOUS
  <2> QED BY <2>1, <2>2, <2>3
<1>6. Uncounted' = g BY DEF Uncounted
<1> HIDE DEF f, g
<1>7. SumFunction(f) \in Int /\ SumFunction(g) = SumFunction(f) + g[e] - f[e]
  BY <1>2, <1>3, <1>4, ExecsFinite, SumChange
<1>8. f[e] \in Int /\ xfill[e] \in Int BY <1>1, <1>2
<1>9. SumFunction(g) = SumFunction(f) - xfill[e] BY <1>5, <1>7, <1>8
<1> QED BY <1>6, <1>9 DEF f

(* A fill on the exchange, not yet counted nor seen by anybody.              *)
LEMMA FillUnknown ==
    ASSUME TypeOK, FillInv, FilledInv, NEW e \in Execs, Fill(e), UNCHANGED counted
    PROVE  LET f == pos' - pos IN
           /\ SumFunction(Uncounted)' = SumFunction(Uncounted) + f
           /\ \A seen \in SUBSET Landed :
                 SumFunction(Unseen(seen)') = SumFunction(Unseen(seen)) + f
<1> DEFINE d == pos' - pos
<1>1. counted \in [Execs -> Nat] /\ xfill \in [Execs -> Int] /\ pos \in Int
  BY DEF TypeOK, LedgerOK, ExchangeOK
<1>2. xfill[e] = 0 /\ counted[e] = 0 /\ e \notin Landed
  BY <1>1 DEF Fill, FillInv, FilledInv, Landed
<1>3. PICK f \in FillSizes(e) : pos' = pos + f /\ xfill' = [xfill EXCEPT ![e] = f] BY DEF Fill
<1>4. f \in Int /\ f = d
  <2>1. f \in Int BY DEF FillSizes, Trimmed, TypeOK, ExecsOK, Legs
  <2> QED BY <1>1, <1>3, <2>1
<1>5. Uncounted' \in [Execs -> Int] BY <1>1, <1>3, <1>4 DEF Uncounted
<1>6. /\ \A x \in Execs \ {e} : Uncounted'[x] = Uncounted[x]
      /\ Uncounted[e] = 0 /\ Uncounted'[e] = f
  BY <1>1, <1>2, <1>3, <1>4 DEF Uncounted
<1>7. SumFunction(Uncounted) \in Int
      /\ SumFunction(Uncounted') = SumFunction(Uncounted) + Uncounted'[e] - Uncounted[e]
  BY <1>5, <1>6, GapsTyped, ExecsFinite, SumChange
<1>8. SumFunction(Uncounted') = SumFunction(Uncounted) + d BY <1>4, <1>6, <1>7
<1>9. ASSUME NEW seen \in SUBSET Landed
      PROVE  SumFunction(Unseen(seen)') = SumFunction(Unseen(seen)) + d
  <2>1. /\ \A x \in Execs \ {e} : Unseen(seen)'[x] = Unseen(seen)[x]
        /\ Unseen(seen)[e] = 0 /\ Unseen(seen)'[e] = f
    BY <1>1, <1>2, <1>3, <1>4 DEF Unseen
  <2>2. SumFunction(Unseen(seen)) \in Int
        /\ SumFunction(Unseen(seen)') = SumFunction(Unseen(seen)) + Unseen(seen)'[e] - Unseen(seen)[e]
    <3>1. Unseen(seen) \in [Execs -> Int] BY GapsTyped
    <3>2. Unseen(seen)' \in [Execs -> Int] BY <1>1, <1>3, <1>4 DEF Unseen
    <3> QED BY <2>1, <3>1, <3>2, ExecsFinite, SumChange
  <2> QED BY <1>4, <2>1, <2>2
<1> QED BY <1>8, <1>9

(* What one worker's step does to the ledger and to its copy of it.          *)
CopyMoves(w) ==
    /\ Planned(w)' => wk'[w].led = ledger'
    /\ pc'[w] = "apply" => execState'[ExecOf(w)'] = "FILLED"

(* Dispatch: a worker keeps its copy, and applies only a fill.               *)
LEMMA DispatchCopies ==
    ASSUME TypeOK, CopyInv, NEW w \in Workers, Planned(w), NEW out \in ExecStates,
           Dispatch(w, out), UNCHANGED ledger,
           out = "FILLED" => execState'[ExecOf(w)] = "FILLED"
    PROVE  CopyMoves(w)
<1>1. CASE out = "FILLED"
  <2>1. UNCHANGED wk /\ ExecOf(w)' = ExecOf(w) BY <1>1 DEF Dispatch, ExecOf
  <2> QED BY <1>1, <2>1 DEF CopyMoves, CopyInv
<1>2. CASE out # "FILLED"
  <2>1. pc'[w] = "finish" BY <1>2 DEF Dispatch, GoFinish, TypeOK, WorkersOK
  <2> QED BY <2>1 DEF CopyMoves, Planned
<1> QED BY <1>1, <1>2

(* _apply_fill_to_ledger: the row and the worker's copy change alike, and by *)
(* the fill if it is applied.                                                *)
LEMMA ApplyCopies ==
    ASSUME TypeOK, FillInv, CopyInv, NEW w \in Workers, ApplyFill(w)
    PROVE  /\ CopyMoves(w)
           /\ LedgerInv => pos - ledger'.size = SumFunction(Uncounted)'
<1> DEFINE e    == ExecOf(w)
           led  == wk[w].led
           mode == ApplyMode(e, led)
           size == IF mode = "applied" THEN execLeg[e].before + execFill[e] ELSE led.size
           new  == IF mode = "done" THEN led ELSE [led EXCEPT !.size = size, !.last = e]
           flat == Flattened(execFill[e], wk[w].leg.delta, size)
<1>1. e \in Execs /\ pc[w] = "apply" /\ Planned(w)
  BY ExecOfTyped DEF ApplyFill, TypeOK, Planned
<1>2. led = ledger /\ execState[e] = "FILLED" /\ execFill[e] = xfill[e]
  BY <1>1 DEF CopyInv, FillInv
<1>3. /\ IF mode = "done" THEN UNCHANGED <<ledger, execApplied, counted>>
         ELSE /\ ledger' = [ledger EXCEPT !.size = IF mode = "applied" THEN size ELSE @,
                                          !.last = e]
              /\ execApplied' = execApplied \cup {e}
              /\ counted' = [counted EXCEPT ![e] = IF mode = "applied" THEN @ + 1 ELSE @]
      /\ UNCHANGED <<xfill, pos>>
  BY DEF ApplyFill, exchVars
<1>4. \/ /\ \E d \in Trimmed(intent[wk[w].job].target) :
               wk' = [wk EXCEPT ![w].led = new, ![w].kind = "o",
                                ![w].leg = [delta |-> d, reduceOnly |-> FALSE,
                                            before |-> 0, last |-> new.last]]
         /\ pc' = [pc EXCEPT ![w] = "leg"]
      \/ \E r \in Results : GoFinish(w, r)
  BY DEF ApplyFill
<1>5. mode = "applied" => led.size = execLeg[e].before BY DEF ApplyMode
<1>t. /\ ledger \in Ledgers /\ counted \in [Execs -> Nat] /\ wk \in [Workers -> Works]
      /\ pc \in [Workers -> PCs] /\ xfill \in [Execs -> Int] /\ pos \in Int
  BY DEF TypeOK, LedgerOK, WorkersOK, ExchangeOK
<1> HIDE DEF mode, led, e
<1>6. ledger' = new
  <2>1. CASE mode = "done" BY <1>2, <1>3, <2>1
  <2>2. CASE mode = "applied" BY <1>2, <1>3, <1>t, <2>2 DEF Ledgers
  <2>3. CASE mode \notin {"done", "applied"} BY <1>2, <1>3, <1>t, <2>3 DEF Ledgers
  <2> QED BY <2>1, <2>2, <2>3
<1>7. CopyMoves(w)
  <2> HIDE DEF new
  <2>1. CASE pc' = [pc EXCEPT ![w] = "leg"]
    <3>1. PICK d : wk' = [wk EXCEPT ![w].led = new, ![w].kind = "o",
                                    ![w].leg = [delta |-> d, reduceOnly |-> FALSE,
                                                before |-> 0, last |-> new.last]]
      BY <1>4, <1>t, <2>1 DEF GoFinish
    <3>2. wk'[w].led = new BY <1>t, <3>1 DEF Works
    <3>3. pc'[w] = "leg" BY <1>t, <2>1
    <3> QED BY <1>6, <3>2, <3>3 DEF CopyMoves
  <2>2. CASE \E r \in Results : GoFinish(w, r)
    <3>1. pc'[w] = "finish" BY <1>t, <2>2 DEF GoFinish
    <3> QED BY <3>1 DEF CopyMoves, Planned
  <2> QED BY <1>4, <2>1, <2>2
<1>8. ASSUME LedgerInv PROVE pos - ledger'.size = SumFunction(Uncounted)'
  <2>1. CASE mode = "applied"
    <3>1. counted' = [counted EXCEPT ![e] = counted[e] + 1] BY <1>3, <2>1
    <3>2. SumFunction(Uncounted)' = SumFunction(Uncounted) - xfill[e]
      BY <1>1, <1>3, <3>1, CountOnce DEF e
    <3>3. ledger'.size = ledger.size + xfill[e] BY <1>2, <1>5, <1>6, <1>t, <2>1 DEF Ledgers
    <3>4. ledger.size \in Int /\ xfill[e] \in Int BY <1>1, <1>t DEF Ledgers, e
    <3>5. pos - ledger.size = SumFunction(Uncounted) BY <1>8 DEF LedgerInv
    <3> QED BY <1>t, <3>2, <3>3, <3>4, <3>5
  <2>2. CASE mode # "applied"
    <3>1. counted' = counted BY <1>3, <1>t, <2>2
    <3>2. ledger'.size = ledger.size BY <1>2, <1>6, <1>t, <2>2 DEF Ledgers
    <3>3. UNCHANGED Uncounted BY <1>3, <3>1 DEF Uncounted
    <3> QED BY <1>8, <3>2, <3>3 DEF LedgerInv
  <2> QED BY <2>1, <2>2
<1> QED BY <1>7, <1>8

(* Every step of a worker.                                                   *)
LEMMA WorkerCopies ==
    ASSUME TypeOK, SubmissionInv, FillInv, CopyInv, NEW w \in Workers, WorkerStep(w) \/ Crash(w)
    PROVE  /\ CopyMoves(w)
           /\ LedgerInv => pos' - ledger'.size = SumFunction(Uncounted)'
           /\ UNCHANGED <<pos, xfill>> /\ (~Critical(w) => UNCHANGED ledger)
<1> DEFINE e == ExecOf(w)
<1>t. pc \in [Workers -> PCs] /\ wk \in [Workers -> Works] /\ execState \in [Execs -> ExecStates]
  BY DEF TypeOK, WorkersOK, ExecsOK
<1>0. pc[w] # "idle" => e \in Execs BY ExecOfTyped DEF TypeOK
<1>1. UNCHANGED <<pos, xfill>>
  BY OrdersStay, SubmitMoves DEF exchVars
<1>2. ~ApplyFill(w) => UNCHANGED <<ledger, counted>>
  BY DEF WorkerStep, Claim, AcquireLock, ClaimLost, Decline, Plan, LegFresh, LegStored,
         LegResolve, InsertExecution, InsertConflict, Authorize, PreSubmitCancel, Submit,
         SubmitAmbiguous, Response, ApplyDeferred, Finish, Crash
<1>3. ASSUME LedgerInv PROVE pos' - ledger'.size = SumFunction(Uncounted)'
  <2>1. CASE ApplyFill(w) BY <1>1, <1>3, <2>1, ApplyCopies
  <2>2. CASE ~ApplyFill(w)
    <3>1. UNCHANGED Uncounted BY <1>1, <1>2, <2>2 DEF Uncounted
    <3> QED BY <1>1, <1>2, <1>3, <2>2, <3>1 DEF LedgerInv
  <2> QED BY <2>1, <2>2
<1>4. ~Critical(w) => UNCHANGED ledger BY <1>2 DEF ApplyFill, Critical
<1>5. CopyMoves(w)
  <2>1. CASE ApplyFill(w) BY <2>1, ApplyCopies
  <2>2. CASE Plan(w)
    <3>1. wk'[w].led = ledger /\ UNCHANGED ledger /\ pc'[w] = "leg" BY <1>t, <2>2 DEF Plan, Works
    <3> QED BY <3>1 DEF CopyMoves
  <2>3. CASE LegFresh(w) \/ InsertExecution(w) \/ Authorize(w) \/ Submit(w)
    <3>1. Planned(w) /\ UNCHANGED <<wk, ledger>> /\ pc'[w] # "apply"
      BY <1>t, <2>3 DEF LegFresh, InsertExecution, Authorize, Submit, Planned
    <3> QED BY <3>1 DEF CopyMoves, CopyInv
  <2>4. CASE LegStored(w)
    <3>1. Planned(w) /\ Dispatch(w, execState[e]) /\ UNCHANGED <<ledger, execState>> /\ e \in Execs
      BY <1>0, <2>4 DEF LegStored, Planned, execVars
    <3>2. execState[e] \in ExecStates BY <1>t, <3>1
    <3> QED BY <3>1, <3>2, DispatchCopies
  <2>5. CASE LegResolve(w)
    <3>1. PICK out \in QueryOutcomes(e) :
             /\ IF out = "UNKNOWN" THEN UNCHANGED execVars
                ELSE PersistOutcome(e, out, IF out = "FILLED" THEN execLeg[e].delta ELSE 0)
             /\ Dispatch(w, out)
      BY <2>5 DEF LegResolve
    <3>2. Planned(w) /\ UNCHANGED ledger /\ e \in Execs BY <1>0, <2>5 DEF LegResolve, Planned
    <3>3. out \in ExecStates BY DEF QueryOutcomes
    <3>4. out = "FILLED" => execState'[e] = "FILLED" BY <1>t, <3>1, <3>2 DEF PersistOutcome
    <3> QED BY <3>1, <3>2, <3>3, <3>4, DispatchCopies
  <2>6. CASE PreSubmitCancel(w) \/ SubmitAmbiguous(w)
    <3>1. PICK out \in {"CANCELED", "UNKNOWN"} : Dispatch(w, out)
      BY <2>6 DEF PreSubmitCancel, SubmitAmbiguous
    <3>2. Planned(w) /\ UNCHANGED ledger BY <2>6 DEF PreSubmitCancel, SubmitAmbiguous, Planned
    <3> QED BY <3>1, <3>2, DispatchCopies
  <2>7. CASE Response(w)
    <3>1. PICK out \in {"FILLED", "REJECTED"} : PersistOutcome(e, out, TotalSz(e)) /\ Dispatch(w, out)
      BY <2>7 DEF Response
    <3>2. Planned(w) /\ UNCHANGED ledger /\ e \in Execs BY <1>0, <2>7 DEF Response, Planned
    <3>3. execState'[e] = out BY <1>t, <3>1, <3>2 DEF PersistOutcome
    <3> QED BY <3>1, <3>2, <3>3, DispatchCopies
  <2>8. CASE \/ \E j \in Jobs : Claim(w, j)
             \/ AcquireLock(w) \/ ClaimLost(w) \/ Decline(w) \/ InsertConflict(w)
             \/ ApplyDeferred(w) \/ Finish(w) \/ Crash(w)
    <3>1. pc'[w] \in {"idle", "lockwait", "plan", "finish"}
      BY <1>t, <2>8 DEF Claim, AcquireLock, ClaimLost, Decline, GoFinish, InsertConflict,
                        ApplyDeferred, Finish, Crash
    <3> QED BY <3>1 DEF CopyMoves, Planned
  <2> QED BY <2>1, <2>2, <2>3, <2>4, <2>5, <2>6, <2>7, <2>8 DEF WorkerStep
<1> QED BY <1>1, <1>3, <1>4, <1>5

(* A worker under the lock keeps its copy, and the others theirs.            *)
LEMMA WorkerKeepsCopies ==
    ASSUME TypeOK, SubmissionInv, LockedInv, FillInv, CopyInv, Protected,
           NEW w \in Workers, WorkerStep(w) \/ Crash(w)
    PROVE  CopyInv'
<1>1. CopyMoves(w) /\ (~Critical(w) => UNCHANGED ledger) BY WorkerCopies
<1>2. OthersStay(w) BY WorkerAlone
<1>3. ASSUME NEW v \in Workers, v # w
      PROVE  /\ pc'[v] = pc[v] /\ wk'[v] = wk[v] /\ ExecOf(v)' = ExecOf(v)
             /\ Planned(v) => UNCHANGED ledger
             /\ pc[v] = "apply" => ExecOf(v) \in Execs
  <2>1. pc'[v] = pc[v] /\ wk'[v] = wk[v] BY <1>2, <1>3 DEF OthersStay
  <2>2. Planned(v) => ~Critical(w)
    BY <1>3 DEF Planned, Critical, LockedInv, LockInv
  <2>3. pc[v] = "apply" => ExecOf(v) \in Execs BY ExecOfTyped DEF TypeOK
  <2> QED BY <1>1, <2>1, <2>2, <2>3 DEF ExecOf
<1>4. (\A v \in Workers : Planned(v) => wk[v].led = ledger)'
  BY <1>1, <1>3 DEF CopyMoves, CopyInv, Planned
<1>5. (\A v \in Workers : pc[v] = "apply" => execState[ExecOf(v)] = "FILLED")'
  BY <1>1, <1>3 DEF CopyMoves, CopyInv, Protected, OutcomeStays
<1> QED BY <1>4, <1>5 DEF CopyInv

(* A worker under the lock keeps the ledger explained.                       *)
LEMMA WorkerExplained ==
    ASSUME TypeOK, SubmissionInv, LockedInv, FillInv, LedgerInv, Protected,
           NEW w \in Workers, WorkerStep(w) \/ Crash(w)
    PROVE  LedgerInv'
<1>1. CopyInv' BY WorkerKeepsCopies DEF LedgerInv
<1>2. pos' - ledger'.size = SumFunction(Uncounted)' /\ UNCHANGED <<pos, xfill>>
  BY WorkerCopies DEF LedgerInv
<1>3. OthersStay(w) BY WorkerAlone
<1>4. UNCHANGED <<res, rec, Unseen(res.seen), Unseen(rec.seen)>>
  BY <1>2, <1>3 DEF OthersStay, Unseen
<1> QED BY <1>1, <1>2, <1>4 DEF LedgerInv

(* A snapshot read now has seen every fill there is.                         *)
LEMMA AllSeen == ASSUME TypeOK, FillInv PROVE SumFunction(Unseen(Landed)) = 0
<1>1. Unseen(Landed) \in [Execs -> Int] BY GapsTyped
<1>2. \A e \in Execs : Unseen(Landed)[e] = 0 BY DEF Unseen, Landed, FillInv
<1> QED BY <1>1, <1>2, ExecsFinite, SumZero

(* SyncLedger: the fills a snapshot has not seen are those not counted.      *)
LEMMA SyncExplained ==
    ASSUME TypeOK, NEW size, NEW last, NEW seen, SyncLedger(size, last, seen),
           UNCHANGED <<pos, xfill>>, pos - size = SumFunction(Unseen(seen))
    PROVE  pos' - ledger'.size = SumFunction(Uncounted)'
<1>1. xfill \in [Execs -> Int] BY DEF TypeOK, ExchangeOK
<1>2. ledger'.size = size /\ counted' = [e \in Execs |-> IF e \in seen THEN 1 ELSE 0]
  BY DEF SyncLedger
<1>3. Uncounted' = Unseen(seen) BY <1>1, <1>2 DEF Uncounted, Unseen
<1> QED BY <1>2, <1>3

(* A step that moves no worker: the ledger and the row a worker is to apply. *)
LEMMA OwnersExplained ==
    ASSUME TypeOK, CopyInv, UNCHANGED <<pc, wk>>, OutcomeStays,
           (\E w \in Workers : Critical(w)) => UNCHANGED ledger
    PROVE  CopyInv'
<1>1. \A w \in Workers : ExecOf(w)' = ExecOf(w) /\ (Planned(w) => Critical(w))
  BY DEF ExecOf, Planned, Critical
<1>2. \A w \in Workers : pc[w] = "apply" => ExecOf(w) \in Execs BY ExecOfTyped DEF TypeOK
<1> QED BY <1>1, <1>2 DEF CopyInv, OutcomeStays, Planned

(* The resolver replaces the ledger by what it saw under the lock.           *)
LEMMA ResolverExplained ==
    ASSUME TypeOK, LockedInv, FillInv, LedgerInv, Protected, ResolverStep
    PROVE  LedgerInv'
<1>1. UNCHANGED <<pos, xfill, pc, wk, rec>>
  BY OrdersStay DEF exchVars, ResolverStep, ResolveQuery, ResolveSnapshot, ResolveUnverified,
                    ResolveNotFilled, ResolveFilled, Quarantine, ResolveSkip
<1>t. res \in Resolutions BY DEF TypeOK, MaintenanceOK
<1>2. \A seen : Unseen(seen)' = Unseen(seen) BY <1>1 DEF Unseen
<1>3. Unseen(rec.seen)' = Unseen(rec.seen) BY <1>1 DEF Unseen
<1>4. CASE ResolveFilled \/ Quarantine
  <2>1. res.pc = "snapped" /\ res'.pc = "idle" /\ SyncLedger(res.snap, res.exec, res.seen)
    BY <1>4 DEF ResolveFilled, Quarantine, ResIdle
  <2>2. pos' - ledger'.size = SumFunction(Uncounted)'
    BY <1>1, <2>1, SyncExplained DEF LedgerInv
  <2>3. \A w \in Workers : ~Critical(w)
    BY <2>1, ActorsAssumption DEF LockedInv, LockInv
  <2> QED BY <1>1, <1>3, <2>1, <2>2, <2>3, OwnersExplained DEF LedgerInv, Protected
<1>5. CASE ~(ResolveFilled \/ Quarantine)
  <2>1. UNCHANGED <<ledger, counted>>
    BY <1>5 DEF ResolverStep, ResolveQuery, ResolveSnapshot, ResolveUnverified,
                ResolveNotFilled, ResolveSkip
  <2>2. pos' - ledger'.size = SumFunction(Uncounted)'
    <3>1. UNCHANGED Uncounted BY <1>1, <2>1 DEF Uncounted
    <3> QED BY <1>1, <2>1, <3>1 DEF LedgerInv
  <2>3. res'.pc = "snapped" => res'.snap = pos /\ res'.seen = Landed
    <3>1. ASSUME NEW e \in Execs, ResolveQuery(e) PROVE res'.pc = "queried"
      BY <3>1 DEF ResolveQuery, ResIdle
    <3>2. CASE ResolveSnapshot BY <1>t, <3>2 DEF ResolveSnapshot, Resolutions
    <3>3. CASE ResolveUnverified BY <1>t, <3>3 DEF ResolveUnverified, Resolutions
    <3>4. CASE ResolveNotFilled \/ ResolveSkip
      BY <3>4 DEF ResolveNotFilled, ResolveSkip, ResIdle
    <3> QED BY <1>5, <3>1, <3>2, <3>3, <3>4 DEF ResolverStep
  <2>4. res'.pc = "snapped" => pos' - res'.snap = SumFunction(Unseen(res.seen))'
    <3>1. Unseen(res.seen)' = Unseen(res'.seen) BY <1>1 DEF Unseen
    <3>2. pos \in Int BY DEF TypeOK, ExchangeOK
    <3> QED BY <1>1, <2>3, <3>1, <3>2, AllSeen
  <2> QED BY <1>1, <1>3, <2>1, <2>2, <2>4, OwnersExplained DEF LedgerInv, Protected
<1> QED BY <1>4, <1>5

(* So does the reconciler.                                                   *)
LEMMA ReconcilerExplained ==
    ASSUME TypeOK, LockedInv, FillInv, LedgerInv, Protected, ReconcilerStep
    PROVE  LedgerInv'
<1>1. UNCHANGED <<pos, xfill, pc, wk, res>>
  BY OrdersStay DEF exchVars, ReconcilerStep, ReconcileStart, ReconcileMaster,
                    ReconcileSnapshot, ReconcileCommit, ReconcileAbort
<1>t. rec \in Reconciliations BY DEF TypeOK, MaintenanceOK
<1>3. Unseen(res.seen)' = Unseen(res.seen) BY <1>1 DEF Unseen
<1>4. CASE ReconcileCommit
  <2>1. rec.pc = "held" /\ rec'.pc = "idle" /\ SyncLedger(rec.snap, ledger.last, rec.seen)
    BY <1>4 DEF ReconcileCommit, RecIdle
  <2>2. pos' - ledger'.size = SumFunction(Uncounted)'
    BY <1>1, <2>1, SyncExplained DEF LedgerInv
  <2>3. \A w \in Workers : ~Critical(w)
    BY <2>1, ActorsAssumption DEF LockedInv, LockInv
  <2> QED BY <1>1, <1>3, <2>1, <2>2, <2>3, OwnersExplained DEF LedgerInv, Protected
<1>5. CASE ~ReconcileCommit
  <2>1. UNCHANGED <<ledger, counted>>
    BY <1>5 DEF ReconcilerStep, ReconcileStart, ReconcileMaster, ReconcileSnapshot,
                ReconcileAbort
  <2>2. pos' - ledger'.size = SumFunction(Uncounted)'
    <3>1. UNCHANGED Uncounted BY <1>1, <2>1 DEF Uncounted
    <3> QED BY <1>1, <2>1, <3>1 DEF LedgerInv
  <2>3. rec'.pc = "held" => rec'.snap = pos /\ rec'.seen = Landed
    <3>1. CASE ReconcileStart
      <4>1. \/ rec' = [RecIdle EXCEPT !.pc = "started"]
            \/ rec' = [RecIdle EXCEPT !.pc = "started", !.order = causal + 1]
        BY <3>1 DEF ReconcileStart
      <4>2. rec'.pc = "started" BY <4>1 DEF RecIdle
      <4> QED BY <4>2
    <3>4. CASE ReconcileAbort BY <3>4 DEF ReconcileAbort, RecIdle
    <3>2. CASE ReconcileMaster BY <1>t, <3>2 DEF ReconcileMaster, Reconciliations
    <3>3. CASE ReconcileSnapshot BY <1>t, <3>3 DEF ReconcileSnapshot, Reconciliations
    <3> QED BY <1>5, <3>1, <3>2, <3>3, <3>4 DEF ReconcilerStep
  <2>4. rec'.pc = "held" => pos' - rec'.snap = SumFunction(Unseen(rec.seen))'
    <3>1. Unseen(rec.seen)' = Unseen(rec'.seen) BY <1>1 DEF Unseen
    <3>2. pos \in Int BY DEF TypeOK, ExchangeOK
    <3> QED BY <1>1, <2>3, <3>1, <3>2, AllSeen
  <2> QED BY <1>1, <1>3, <2>1, <2>2, <2>4, OwnersExplained DEF LedgerInv, Protected
<1> QED BY <1>4, <1>5

(* A fill moves the position away from the ledger, and from every snapshot,  *)
(* by as much as it adds to what they have not taken in.                     *)
LEMMA ExchangeExplained ==
    ASSUME TypeOK, LockedInv, FillInv, LedgerInv, Protected,
           NEW e \in Execs, Fill(e) \/ NotFilled(e)
    PROVE  LedgerInv'
<1>1. UNCHANGED <<ledger, counted, pc, wk, res, rec>> BY DEF Fill, NotFilled
<1>2. CopyInv' BY <1>1, OwnersExplained DEF LedgerInv, Protected
<1>3. Unseen(res.seen)' = Unseen(res.seen)' /\ Unseen(rec.seen)' = Unseen(rec.seen)' OBVIOUS
<1>t. /\ pos \in Int /\ ledger \in Ledgers /\ res \in Resolutions /\ rec \in Reconciliations
  BY DEF TypeOK, ExchangeOK, LedgerOK, MaintenanceOK
<1>4. CASE NotFilled(e)
  <2>1. UNCHANGED <<pos, xfill>> BY <1>4 DEF NotFilled
  <2>2. UNCHANGED <<Uncounted, Unseen(res.seen), Unseen(rec.seen)>>
    BY <1>1, <2>1 DEF Uncounted, Unseen
  <2> QED BY <1>1, <1>2, <2>1, <2>2 DEF LedgerInv
<1>5. CASE Fill(e)
  <2> DEFINE d == pos' - pos
  <2>1. /\ SumFunction(Uncounted)' = SumFunction(Uncounted) + d
        /\ \A seen \in SUBSET Landed :
              SumFunction(Unseen(seen)') = SumFunction(Unseen(seen)) + d
    BY <1>1, <1>5, FillUnknown DEF LockedInv
  <2>2. SumFunction(Unseen(res.seen)') = SumFunction(Unseen(res.seen)) + d
    <3>1. res.seen \in SUBSET Landed BY DEF LockedInv, FilledInv
    <3>2. \A seen : seen = res.seen => Unseen(seen)' = Unseen(res.seen)' BY <1>1 DEF Unseen
    <3> QED BY <2>1, <3>1, <3>2
  <2>3. SumFunction(Unseen(rec.seen)') = SumFunction(Unseen(rec.seen)) + d
    <3>1. rec.seen \in SUBSET Landed BY DEF LockedInv, FilledInv
    <3>2. \A seen : seen = rec.seen => Unseen(seen)' = Unseen(rec.seen)' BY <1>1 DEF Unseen
    <3> QED BY <2>1, <3>1, <3>2
  <2>4. pos' \in Int
    <3>1. TypeOK' BY NextTyped DEF Next, ExchangeStep
    <3> QED BY <3>1 DEF TypeOK, ExchangeOK
  <2>5. pos - ledger.size = SumFunction(Uncounted) BY DEF LedgerInv
  <2>6. ledger.size \in Int /\ res.snap \in Int /\ rec.snap \in Int
    BY <1>t DEF Ledgers, Resolutions, Reconciliations
  <2>7. pos' - ledger'.size = SumFunction(Uncounted)' BY <1>1, <1>t, <2>1, <2>4, <2>5, <2>6
  <2>8. res'.pc = "snapped" => pos' - res'.snap = SumFunction(Unseen(res.seen)')
    BY <1>1, <1>t, <2>2, <2>4, <2>6 DEF LedgerInv
  <2>9. rec'.pc = "held" => pos' - rec'.snap = SumFunction(Unseen(rec.seen)')
    BY <1>1, <1>t, <2>3, <2>4, <2>6 DEF LedgerInv
  <2> QED BY <1>2, <2>7, <2>8, <2>9 DEF LedgerInv
<1> QED BY <1>4, <1>5

(* Without lost locks and manual trades every step keeps the ledger          *)
(* explained.                                                                *)
LEMMA NextExplained ==
    ASSUME MaxLockLoss = 0, MaxManual = 0, TypeOK, SubmissionInv, LockedInv, FillInv, LedgerInv,
           [Next]_vars
    PROVE  LedgerInv'
<1>1. Protected BY NextProtected
<1>2. ~LoseLock /\ ~ManualTrade BY DEF LoseLock, ManualTrade, TypeOK, SourcesOK
<1>3. CASE (\E p \in Positions : MasterMove(p)) \/ CloseNothing
           \/ (\E j \in Jobs : JobStep(j)) \/ UNCHANGED vars
  <2>1. UNCHANGED <<pos, xfill, ledger, counted, pc, wk, res, rec>>
    BY <1>3 DEF MasterMove, CloseNothing, JobStep, MasterFill, ClosePositions, Publish,
                ExpireStrategyJob, ReleaseStale, vars, exchVars
  <2>2. UNCHANGED <<Uncounted, Unseen(res.seen), Unseen(rec.seen)>>
    BY <2>1 DEF Uncounted, Unseen
  <2> QED BY <1>1, <2>1, <2>2, OwnersExplained DEF LedgerInv, Protected
<1> QED
  BY <1>1, <1>2, <1>3, WorkerExplained, ResolverExplained, ReconcilerExplained,
     ExchangeExplained DEF Next, ExchangeStep

(* At first the ledger is the position.                                      *)
LEMMA InitExplained == Init => LedgerInv
<1> SUFFICES ASSUME Init PROVE LedgerInv OBVIOUS
<1>1. TypeOK BY InitTyped
<1>2. /\ xfill = [e \in Execs |-> 0] /\ counted = [e \in Execs |-> 0] /\ ledger.size = pos
      /\ res.pc = "idle" /\ rec.pc = "idle" /\ \A w \in Workers : pc[w] = "idle"
  BY DEF Init, ResIdle, RecIdle
<1>3. \A e \in Execs : Uncounted[e] = 0 BY <1>2 DEF Uncounted
<1>4. SumFunction(Uncounted) = 0 BY <1>1, <1>3, GapsTyped, ExecsFinite, SumZero
<1>5. pos \in Int BY <1>1 DEF TypeOK, ExchangeOK
<1> QED BY <1>2, <1>4, <1>5 DEF LedgerInv, CopyInv, Planned

(* What all that holds while locks hold and nobody trades by hand.           *)
LEMMA ExplainedInvariance ==
    ASSUME MaxLockLoss = 0, MaxManual = 0
    PROVE  Spec => [](TypeOK /\ SubmissionInv /\ LockedInv /\ FillInv /\ LedgerInv)
<1> DEFINE I == TypeOK /\ SubmissionInv /\ LockedInv /\ FillInv /\ LedgerInv
<1>1. Init => I BY InitTyped, InitSubmission, InitLocked, InitFills, InitExplained
<1>2. I /\ [Next]_vars => I'
  BY NextTyped, NextSubmission, NextProtected, NextFills, NextExplained DEF Protected
<1> HIDE DEF I
<1>3. Spec => []I BY <1>1, <1>2, PTL DEF Spec
<1> QED BY <1>3 DEF I

(* _persist_outcome, _apply_fill_to_ledger, SyncLedger: the ledger differs   *)
(* from the exchange by exactly the fills it has not taken in or has taken   *)
(* in twice, for any number of jobs, workers, crashes and retries.           *)
THEOREM LedgerIsExplained ==
    ASSUME MaxLockLoss = 0, MaxManual = 0 PROVE Spec => []LedgerExplained
<1>1. LedgerInv => LedgerExplained BY DEF LedgerInv, LedgerExplained, Uncounted
<1> QED BY <1>1, ExplainedInvariance, PTL

-----------------------------------------------------------------------------
(* Rows.                                                                     *)
(* With or without the lock: whoever is about to settle a row finds one, and *)
(* a fill is a part of the leg its row was inserted with.                    *)

RowInv ==
    /\ \A w \in Workers : pc[w] \in {"await", "apply"} => execState[ExecOf(w)] # "none"
    /\ res.pc # "idle" => execState[res.exec] # "none"
    /\ \A e \in Execs : order[e] = "filled" => xfill[e] \in Trimmed(execLeg[e].delta)

(* A row is inserted once, with the leg of the worker, and keeps it.         *)
RowsKept(ins) == \A e \in Execs \ ins : /\ execLeg'[e] = execLeg[e]
                                        /\ execState'[e] = "none" <=> execState[e] = "none"

(* _persist_outcome on a row that exists.                                    *)
LEMMA PersistKept ==
    ASSUME TypeOK, NEW e \in Execs, execState[e] # "none", NEW out, out # "none", NEW filled,
           PersistOutcome(e, out, filled)
    PROVE  RowsKept({})
BY DEF PersistOutcome, RowsKept, TypeOK, ExecsOK

(* A worker inserts the row of its own leg, and no other.                    *)
LEMMA WorkerKeeps ==
    ASSUME TypeOK, SubmissionInv, RowInv, NEW w \in Workers, WorkerStep(w) \/ Crash(w)
    PROVE  RowsKept(IF InsertExecution(w) THEN {ExecOf(w)} ELSE {})
<1> DEFINE e == ExecOf(w)
<1>0. pc[w] # "idle" => e \in Execs BY ExecOfTyped DEF TypeOK
<1>1. ASSUME UNCHANGED <<execState, execLeg>> PROVE RowsKept({}) BY <1>1 DEF RowsKept
<1>2. CASE InsertExecution(w)
  <2>1. e \in Execs /\ execState' = [execState EXCEPT ![e] = "SUBMITTING"]
        /\ execLeg' = [execLeg EXCEPT ![e] = wk[w].leg]
    BY <1>0, <1>2 DEF InsertExecution
  <2>2. RowsKept({e}) BY <2>1 DEF RowsKept, TypeOK, ExecsOK
  <2> QED BY <1>2, <2>2
<1>3. CASE ~InsertExecution(w)
  <2>1. CASE LegResolve(w)
    <3>1. PICK out \in QueryOutcomes(e) :
             IF out = "UNKNOWN" THEN UNCHANGED execVars
             ELSE PersistOutcome(e, out, IF out = "FILLED" THEN execLeg[e].delta ELSE 0)
      BY <2>1 DEF LegResolve
    <3>2. e \in Execs /\ execState[e] # "none" /\ out # "none"
      BY <1>0, <2>1 DEF LegResolve, Unresolved, QueryOutcomes
    <3> QED BY <1>1, <1>3, <3>1, <3>2, PersistKept DEF execVars
  <2>2. CASE PreSubmitCancel(w) \/ SubmitAmbiguous(w) \/ Response(w)
    <3>1. PICK out \in {"CANCELED", "UNKNOWN", "FILLED", "REJECTED"} :
             \E filled : PersistOutcome(e, out, filled)
      BY <2>2 DEF PreSubmitCancel, SubmitAmbiguous, Response
    <3>2. e \in Execs /\ execState[e] # "none"
      BY <1>0, <2>2 DEF PreSubmitCancel, SubmitAmbiguous, Response, SubmissionInv, Sending, RowInv
    <3> QED BY <1>3, <3>1, <3>2, PersistKept
  <2>3. CASE ~(LegResolve(w) \/ PreSubmitCancel(w) \/ SubmitAmbiguous(w) \/ Response(w))
    <3>1. UNCHANGED <<execState, execLeg>>
      BY <1>3, <2>3 DEF WorkerStep, Claim, AcquireLock, ClaimLost, Decline, Plan, LegFresh,
             LegStored, InsertConflict, Authorize, Submit, ApplyFill, ApplyDeferred, Finish,
             Crash, execVars
    <3> QED BY <1>1, <1>3, <3>1
  <2> QED BY <2>1, <2>2, <2>3
<1> QED BY <1>2, <1>3

(* Nobody else inserts rows.                                                 *)
LEMMA OthersKeep ==
    ASSUME TypeOK, SubmissionInv, RowInv,
           \/ ResolverStep \/ ReconcilerStep \/ LoseLock \/ CloseNothing \/ ExchangeStep
           \/ (\E p \in Positions : MasterMove(p)) \/ (\E j \in Jobs : JobStep(j))
           \/ UNCHANGED vars
    PROVE  RowsKept({})
<1>1. CASE UNCHANGED <<execState, execLeg>> BY <1>1 DEF RowsKept
<1>2. CASE ResolverStep
  <2>1. CASE ResolveNotFilled \/ ResolveFilled
    <3>1. PICK out \in {"FILLED", "REJECTED", "CANCELED"} :
             \E filled : PersistOutcome(res.exec, out, filled)
      BY <2>1 DEF ResolveNotFilled, ResolveFilled
    <3>2. res.exec \in Execs /\ execState[res.exec] # "none"
      BY <2>1 DEF ResolveNotFilled, ResolveFilled, RowInv, TypeOK, MaintenanceOK
    <3> QED BY <3>1, <3>2, PersistKept
  <2>2. CASE Quarantine
    <3>1. res.exec \in Execs /\ execState[res.exec] # "none"
      BY <2>2 DEF Quarantine, RowInv, TypeOK, MaintenanceOK
    <3> QED BY <2>2, <3>1 DEF Quarantine, RowsKept, TypeOK, ExecsOK
  <2>3. CASE ~(ResolveNotFilled \/ ResolveFilled \/ Quarantine)
    <3>1. UNCHANGED <<execState, execLeg>>
      BY <1>2, <2>3 DEF ResolverStep, ResolveQuery, ResolveSnapshot, ResolveUnverified,
                        ResolveSkip, execVars
    <3> QED BY <1>1, <3>1
  <2> QED BY <2>1, <2>2, <2>3
<1>3. CASE \/ ReconcilerStep \/ LoseLock \/ CloseNothing \/ ExchangeStep
           \/ (\E p \in Positions : MasterMove(p)) \/ (\E j \in Jobs : JobStep(j))
           \/ UNCHANGED vars
  <2>1. UNCHANGED <<execState, execLeg>>
    BY <1>3 DEF MasterMove, CloseNothing, JobStep, MasterFill, ClosePositions, Publish,
                ExpireStrategyJob, ReleaseStale, LoseLock, ReconcilerStep, ReconcileStart,
                ReconcileMaster, ReconcileSnapshot, ReconcileCommit, ReconcileAbort,
                ExchangeStep, Fill, NotFilled, ManualTrade, vars, execVars
  <2> QED BY <1>1, <2>1
<1> QED BY <1>2, <1>3

(* A row that exists keeps its leg through every step.                       *)
LEMMA NextKeeps ==
    ASSUME TypeOK, SubmissionInv, RowInv, [Next]_vars, NEW e \in Execs, execState[e] # "none"
    PROVE  execState'[e] # "none" /\ execLeg'[e] = execLeg[e]
<1>1. CASE RowsKept({}) BY <1>1 DEF RowsKept
<1>2. ASSUME NEW w \in Workers, InsertExecution(w)
      PROVE  execState'[e] # "none" /\ execLeg'[e] = execLeg[e]
  <2>1. RowsKept({ExecOf(w)}) BY <1>2, WorkerKeeps DEF WorkerStep
  <2>2. e # ExecOf(w) BY <1>2 DEF InsertExecution, NoRow
  <2> QED BY <2>1, <2>2 DEF RowsKept
<1> QED BY <1>1, <1>2, WorkerKeeps, OthersKeep DEF Next

(* Who is at a row, and who was.                                             *)
LEMMA AtRowFrom ==
    ASSUME TypeOK, SubmissionInv, RowInv, FillInv, NEW w \in Workers, WorkerStep(w) \/ Crash(w),
           pc'[w] \in {"await", "apply"}
    PROVE  ExecOf(w)' \in Execs /\ execState'[ExecOf(w)'] # "none"
<1> DEFINE e == ExecOf(w)
<1>t. pc \in [Workers -> PCs] BY DEF TypeOK, WorkersOK
<1>n. [Next]_vars BY DEF Next
<1>1. CASE Submit(w)
  <2>1. e \in Execs /\ execState[e] # "none" /\ ExecOf(w)' = e
    BY <1>1, ExecOfTyped DEF Submit, SubmissionInv, Sending, ExecOf, TypeOK
  <2> QED BY <1>n, <2>1, NextKeeps
<1>2. ASSUME NEW out, Dispatch(w, out), e \in Execs, execState[e] # "none"
      PROVE  ExecOf(w)' \in Execs /\ execState'[ExecOf(w)'] # "none"
  <2>1. pc'[w] # "await" BY <1>2, <1>t DEF Dispatch, GoFinish
  <2>2. ExecOf(w)' = e BY <1>2, <2>1, DispatchPlaces
  <2> QED BY <1>2, <1>n, <2>2, NextKeeps
<1>3. CASE LegStored(w) \/ LegResolve(w) \/ PreSubmitCancel(w) \/ SubmitAmbiguous(w) \/ Response(w)
  <2>1. e \in Execs /\ \E out : Dispatch(w, out)
    BY <1>3, ExecOfTyped DEF LegStored, LegResolve, PreSubmitCancel, SubmitAmbiguous, Response,
                             TypeOK
  <2>2. execState[e] # "none"
    BY <1>3 DEF LegStored, LegResolve, PreSubmitCancel, SubmitAmbiguous, Response,
                Unresolved, SubmissionInv, Sending, RowInv
  <2> QED BY <1>2, <2>1, <2>2
<1>4. CASE \/ \E j \in Jobs : Claim(w, j)
           \/ AcquireLock(w) \/ ClaimLost(w) \/ Decline(w) \/ Plan(w) \/ LegFresh(w)
           \/ InsertExecution(w) \/ InsertConflict(w) \/ Authorize(w)
           \/ ApplyFill(w) \/ ApplyDeferred(w) \/ Finish(w) \/ Crash(w)
  <2>1. pc'[w] \notin {"await", "apply"}
    BY <1>t, <1>4 DEF Claim, AcquireLock, ClaimLost, Decline, Plan, LegFresh, InsertExecution,
                      InsertConflict, Authorize, ApplyFill, ApplyDeferred, Finish, Crash,
                      GoFinish
  <2> QED BY <2>1
<1> QED BY <1>1, <1>3, <1>4 DEF WorkerStep

(* Every step keeps RowInv.                                                  *)
LEMMA NextRows == TypeOK /\ SubmissionInv /\ FillInv /\ RowInv /\ [Next]_vars => RowInv'
<1> SUFFICES ASSUME TypeOK, SubmissionInv, FillInv, RowInv, [Next]_vars PROVE RowInv' OBVIOUS
<1>1. (\A w \in Workers : pc[w] \in {"await", "apply"} => execState[ExecOf(w)] # "none")'
  <2>1. ASSUME NEW v \in Workers, UNCHANGED <<pc[v], wk[v]>>, pc'[v] \in {"await", "apply"}
        PROVE  execState'[ExecOf(v)'] # "none"
    <3>1. ExecOf(v)' = ExecOf(v) /\ ExecOf(v) \in Execs /\ execState[ExecOf(v)] # "none"
      BY <2>1, ExecOfTyped DEF ExecOf, TypeOK, RowInv
    <3> QED BY <3>1, NextKeeps
  <2>2. ASSUME NEW w \in Workers, WorkerStep(w) \/ Crash(w), NEW v \in Workers,
               pc'[v] \in {"await", "apply"}
        PROVE  execState'[ExecOf(v)'] # "none"
    <3>1. CASE v = w BY <2>2, <3>1, AtRowFrom
    <3>2. CASE v # w
      <4>1. UNCHANGED <<pc[v], wk[v]>> BY <2>2, <3>2, WorkerAlone DEF OthersStay
      <4> QED BY <2>1, <2>2, <4>1
    <3> QED BY <3>1, <3>2
  <2>3. CASE \/ ResolverStep \/ ReconcilerStep \/ LoseLock \/ CloseNothing \/ ExchangeStep
             \/ (\E p \in Positions : MasterMove(p)) \/ (\E j \in Jobs : JobStep(j))
             \/ UNCHANGED vars
    <3>1. UNCHANGED <<pc, wk>>
      BY <2>3 DEF MasterMove, CloseNothing, JobStep, MasterFill, ClosePositions, Publish,
                  ExpireStrategyJob, ReleaseStale, LoseLock, ReconcilerStep, ReconcileStart,
                  ReconcileMaster, ReconcileSnapshot, ReconcileCommit, ReconcileAbort,
                  ResolverStep, ResolveQuery, ResolveSnapshot, ResolveUnverified,
                  ResolveNotFilled, ResolveFilled, Quarantine, ResolveSkip,
                  ExchangeStep, Fill, NotFilled, ManualTrade, vars
    <3> QED BY <2>1, <3>1
  <2> QED BY <2>2, <2>3 DEF Next
<1>2. (res.pc # "idle" => execState[res.exec] # "none")'
  <2>1. ASSUME UNCHANGED res PROVE res'.pc # "idle" => execState'[res'.exec] # "none"
    BY <2>1, NextKeeps DEF RowInv, TypeOK, MaintenanceOK
  <2>2. CASE ResolverStep
    <3>t. res \in Resolutions BY DEF TypeOK, MaintenanceOK
    <3>1. ASSUME NEW e \in Execs, ResolveQuery(e) PROVE execState'[res'.exec] # "none"
      <4>1. res'.exec = e /\ execState[e] # "none"
        BY <3>1 DEF ResolveQuery, ResIdle, Unresolved
      <4> QED BY <4>1, NextKeeps
    <3>2. CASE ResolveSnapshot \/ ResolveUnverified
      <4>1. res'.exec = res.exec /\ res.pc # "idle" /\ res.exec \in Execs
        BY <3>2, <3>t DEF ResolveSnapshot, ResolveUnverified, Resolutions, TypeOK, MaintenanceOK
      <4> QED BY <4>1, NextKeeps DEF RowInv
    <3>3. CASE ResolveNotFilled \/ ResolveFilled \/ Quarantine \/ ResolveSkip
      BY <3>3 DEF ResolveNotFilled, ResolveFilled, Quarantine, ResolveSkip, ResIdle
    <3> QED BY <2>2, <3>1, <3>2, <3>3 DEF ResolverStep
  <2>3. ASSUME NEW w \in Workers, WorkerStep(w) \/ Crash(w) PROVE UNCHANGED res
    BY <2>3, WorkerAlone DEF OthersStay
  <2>4. CASE \/ ReconcilerStep \/ LoseLock \/ CloseNothing \/ ExchangeStep
             \/ (\E p \in Positions : MasterMove(p)) \/ (\E j \in Jobs : JobStep(j))
             \/ UNCHANGED vars
    <3>1. UNCHANGED res
      BY <2>4 DEF MasterMove, CloseNothing, JobStep, MasterFill, ClosePositions, Publish,
                  ExpireStrategyJob, ReleaseStale, LoseLock, ReconcilerStep, ReconcileStart,
                  ReconcileMaster, ReconcileSnapshot, ReconcileCommit, ReconcileAbort,
                  ExchangeStep, Fill, NotFilled, ManualTrade, vars
    <3> QED BY <2>1, <3>1
  <2> QED BY <2>1, <2>2, <2>3, <2>4 DEF Next
<1>3. ASSUME NEW e \in Execs, order'[e] = "filled" PROVE xfill'[e] \in Trimmed(execLeg'[e].delta)
  <2>t. order \in [Execs -> OrderStates] /\ xfill \in [Execs -> Int]
    BY DEF TypeOK, ExchangeOK
  <2>1. ASSUME order[e] = "filled", xfill'[e] = xfill[e]
        PROVE  xfill'[e] \in Trimmed(execLeg'[e].delta)
    <3>1. execState[e] # "none" BY <2>1 DEF SubmissionInv, FillInv
    <3> QED BY <2>1, <3>1, NextKeeps DEF RowInv
  <2>2. ASSUME NEW x \in Execs, Fill(x) PROVE xfill'[e] \in Trimmed(execLeg'[e].delta)
    <3>1. CASE x = e
      <4>1. PICK f \in FillSizes(e) : xfill' = [xfill EXCEPT ![e] = f] BY <2>2, <3>1 DEF Fill
      <4> QED BY <2>2, <2>t, <3>1, <4>1 DEF Fill, FillSizes, execVars
    <3>2. CASE x # e
      <4>1. order'[e] = order[e] /\ xfill'[e] = xfill[e] BY <2>2, <3>2, ExchangeMoves
      <4> QED BY <1>3, <2>1, <4>1
    <3> QED BY <3>1, <3>2
  <2>3. ASSUME NEW x \in Execs, NotFilled(x) PROVE xfill'[e] \in Trimmed(execLeg'[e].delta)
    <3>1. x # e /\ order'[e] = order[e] /\ xfill'[e] = xfill[e]
      BY <1>3, <2>3, <2>t DEF NotFilled
    <3> QED BY <1>3, <2>1, <3>1
  <2>4. ASSUME NEW w \in Workers, Submit(w) PROVE xfill'[e] \in Trimmed(execLeg'[e].delta)
    <3>1. order'[e] = order[e] /\ xfill'[e] = xfill[e] BY <1>3, <2>4, <2>t, SubmitMoves
    <3> QED BY <1>3, <2>1, <3>1
  <2>5. CASE UNCHANGED <<order, xfill>> BY <1>3, <2>1, <2>5
  <2> QED
    BY <2>2, <2>3, <2>4, <2>5, OrdersStay DEF Next, ExchangeStep, exchVars, vars
<1> QED BY <1>1, <1>2, <1>3 DEF RowInv

(* At first there is no row and no order.                                    *)
LEMMA InitRows == Init => RowInv
BY DEF Init, RowInv, ResIdle

-----------------------------------------------------------------------------
(* The legs of one job.                                                      *)
(* The position is where the job found it (Base), after its close leg        *)
(* (Closed), or after both. The ledger, the copies of it and the snapshots   *)
(* are one of these, so whatever a worker plans from, with or without the    *)
(* lock, is a close leg from Base or an open leg from Closed.                *)

CloseRow == <<1, "c">>
OpenRow  == <<1, "o">>
Target   == intent[1].target
Base     == pos - xfill[CloseRow] - xfill[OpenRow]
Closed   == Base + xfill[CloseRow]
Sizes    == {Base, Closed, pos}

(* A leg as it follows from where the job found the position.                *)
CloseLeg(leg, base, tgt) ==
    leg.delta = -base /\ leg.reduceOnly /\ leg.before = base /\ Reversing(base, tgt)
OpenLeg(leg, base, closed, tgt) ==
    /\ leg.before = closed /\ closed # tgt /\ ~Reversing(closed, tgt)
    /\ leg.delta \in PrimaryDeltas(closed, tgt)
    /\ leg.reduceOnly = ReduceOnly(closed, tgt)
    /\ IF Reversing(base, tgt) THEN closed = 0 ELSE closed = base
Fits(kind, leg) == IF kind = "c" THEN CloseLeg(leg, Base, Target)
                                 ELSE OpenLeg(leg, Base, Closed, Target)

(* Without a job there is nothing to do.                                     *)
EmptyInv ==
    jobState[1] = "none" => /\ hinted = {} /\ \A w \in Workers : pc[w] = "idle"
                            /\ \A e \in Execs : execState[e] = "none"

SizesInv ==
    /\ ledger.size \in Sizes
    /\ \A w \in Workers : Planned(w) => wk[w].led.size \in Sizes
    /\ res.pc = "snapped" => res.snap \in Sizes
    /\ rec.pc = "held" => rec.snap \in Sizes

RowLegs == /\ execState[CloseRow] # "none" => Fits("c", execLeg[CloseRow])
           /\ execState[OpenRow]  # "none" => Fits("o", execLeg[OpenRow])

WorkerLegs == \A w \in Workers :
    /\ Planned(w) /\ wk[w].kind = "c" => Reversing(Base, Target)
    /\ pc[w] \in {"leg", "insert"} /\ execState[ExecOf(w)] = "none" => Fits(wk[w].kind, wk[w].leg)

SingleInv == EmptyInv /\ SizesInv /\ RowLegs /\ WorkerLegs

(* The one job and its two executions.                                       *)
LEMMA OneJob ==
    ASSUME MaxJobs = 1
    PROVE  /\ Jobs = {1} /\ CloseRow \in Execs /\ OpenRow \in Execs /\ CloseRow # OpenRow
           /\ \A e \in Execs : e = CloseRow \/ e = OpenRow
           /\ \A w \in Workers : TypeOK /\ pc[w] # "idle" =>
                  /\ wk[w].job = 1 /\ ExecOf(w) \in Execs
                  /\ wk[w].kind = "c" => ExecOf(w) = CloseRow
                  /\ wk[w].kind = "o" => ExecOf(w) = OpenRow
                  /\ wk[w].kind \in {"c", "o"}
<1>1. Jobs = {1} BY DEF Jobs
<1>2. /\ CloseRow \in Execs /\ OpenRow \in Execs /\ CloseRow # OpenRow
      /\ \A e \in Execs : e = CloseRow \/ e = OpenRow
  BY <1>1 DEF Execs, CloseRow, OpenRow
<1>3. ASSUME NEW w \in Workers, TypeOK, pc[w] # "idle"
      PROVE  /\ wk[w].job = 1 /\ ExecOf(w) \in Execs
             /\ wk[w].kind = "c" => ExecOf(w) = CloseRow
             /\ wk[w].kind = "o" => ExecOf(w) = OpenRow
             /\ wk[w].kind \in {"c", "o"}
  <2>1. ExecOf(w) \in Execs /\ wk[w].job \in Jobs /\ wk[w].kind \in Kinds
    BY <1>3, ExecOfTyped DEF TypeOK
  <2> QED BY <1>1, <2>1 DEF ExecOf, CloseRow, OpenRow
<1> QED BY <1>1, <1>2, <1>3

(* The numbers the job is about.                                             *)
LEMMA NumbersTyped ==
    ASSUME MaxJobs = 1, TypeOK
    PROVE  /\ pos \in Int /\ xfill[CloseRow] \in Int /\ xfill[OpenRow] \in Int
           /\ Base \in Int /\ Closed \in Int /\ Target \in Int
           /\ pos = Closed + xfill[OpenRow] /\ Closed = Base + xfill[CloseRow]
<1>1. pos \in Int /\ xfill[CloseRow] \in Int /\ xfill[OpenRow] \in Int
  BY OneJob DEF TypeOK, ExchangeOK
<1>2. Target \in Int BY OneJob DEF TypeOK, JobsOK, Intents, Target
<1> QED BY <1>1, <1>2 DEF Base, Closed

(* How far the job has come: a fill of the close leg is part of a reversal,  *)
(* and the open leg goes from where the close leg ended.                     *)
Progress(base, xc, xo, tgt) ==
    /\ xc # 0 => Reversing(base, tgt) /\ xc \in Trimmed(-base)
    /\ xo # 0 => /\ ~Reversing(base + xc, tgt)
                 /\ \E d \in PrimaryDeltas(base + xc, tgt) : xo \in Trimmed(d)
                 /\ IF Reversing(base, tgt) THEN base + xc = 0 ELSE xc = 0

(* The open leg never passes the target.                                     *)
LEMMA OpenStops ==
    ASSUME NEW cur \in Int, NEW tgt \in Int, NEW d \in PrimaryDeltas(cur, tgt), NEW x \in Trimmed(d),
           ~Reversing(cur, tgt)
    PROVE  /\ d \in Int /\ x \in Int /\ x # 0
           /\ ~Reversing(cur + x, tgt)
           /\ Abs(cur + x - tgt) < Abs(cur - tgt)
<1>1. CASE ReduceOnly(cur, tgt)
  <2>1. d = tgt - cur BY <1>1 DEF PrimaryDeltas
  <2> QED BY <1>1, <2>1 DEF ReduceOnly, Reversing, Trimmed, Abs
<1>2. CASE ~ReduceOnly(cur, tgt)
  <2>1. d \in Trimmed(tgt - cur) BY <1>2 DEF PrimaryDeltas
  <2>2. d \in Int BY <2>1 DEF Trimmed
  <2>3. IF tgt - cur > 0 THEN d > 0 /\ d <= tgt - cur ELSE d < 0 /\ d >= tgt - cur
    BY <2>1, <2>2 DEF Trimmed
  <2>4. x \in Int /\ IF d > 0 THEN x > 0 /\ x <= d ELSE x < 0 /\ x >= d
    BY <2>2 DEF Trimmed
  <2>5. Abs(cur + x - tgt) < Abs(cur - tgt) BY <2>2, <2>3, <2>4 DEF Abs
  <2>6. ~Reversing(cur + x, tgt) BY <2>2, <2>3, <2>4 DEF Reversing
  <2> QED BY <2>2, <2>4, <2>5, <2>6
<1> QED BY <1>1, <1>2

(* Whatever of the three sizes a plan starts from, a reversal starts where   *)
(* the job found the position, and anything else where the close leg ended.  *)
StartsFrom(cur, base, xc, xo, tgt) ==
    /\ Reversing(cur, tgt) => Reversing(base, tgt) /\ (xc = 0 => cur = base)
    /\ ~Reversing(cur, tgt) /\ xo = 0 =>
          /\ cur = base + xc
          /\ IF Reversing(base, tgt) THEN cur = 0 ELSE cur = base

(* So it is, given how far the job has come.                                 *)
LEMMA PlansFrom ==
    ASSUME NEW base \in Int, NEW xc \in Int, NEW xo \in Int, NEW tgt \in Int,
           Progress(base, xc, xo, tgt), NEW cur \in {base, base + xc, base + xc + xo}
    PROVE  StartsFrom(cur, base, xc, xo, tgt)
<1>1. xo # 0 => ~Reversing(base + xc + xo, tgt) /\ ~Reversing(base + xc, tgt)
  BY OpenStops DEF Progress
<1>2. xc # 0 => Reversing(base, tgt) /\ (IF base > 0 THEN xc < 0 /\ xc >= -base
                                                    ELSE xc > 0 /\ xc <= -base)
  BY DEF Progress, Trimmed, Reversing
<1>3. Reversing(cur, tgt) => Reversing(base, tgt) /\ (xc = 0 => cur = base)
  BY <1>1, <1>2
<1>4. ASSUME ~Reversing(cur, tgt), xo = 0
      PROVE  cur = base + xc /\ IF Reversing(base, tgt) THEN cur = 0 ELSE cur = base
  <2>1. CASE xc = 0 BY <1>4, <2>1
  <2>2. CASE xc # 0
    <3>1. cur = base + xc BY <1>2, <1>4, <2>2
    <3>2. cur = 0 BY <1>2, <1>4, <2>2, <3>1 DEF Reversing
    <3> QED BY <1>2, <2>2, <3>1, <3>2
  <2> QED BY <2>1, <2>2
<1> QED BY <1>3, <1>4 DEF StartsFrom

(* What the rows say of the fills.                                           *)
LEMMA RowsProgress ==
    ASSUME MaxJobs = 1, TypeOK, SubmissionInv, FillInv, RowInv, RowLegs
    PROVE  Progress(Base, xfill[CloseRow], xfill[OpenRow], Target)
<1>1. \A e \in Execs : xfill[e] # 0 => execState[e] # "none" /\ xfill[e] \in Trimmed(execLeg[e].delta)
  BY DEF FillInv, RowInv, SubmissionInv
<1>2. xfill[CloseRow] # 0 => /\ Reversing(Base, Target)
                             /\ xfill[CloseRow] \in Trimmed(-Base)
  BY <1>1, OneJob DEF RowLegs, Fits, CloseLeg
<1>3. xfill[OpenRow] # 0 =>
         /\ ~Reversing(Closed, Target)
         /\ \E d \in PrimaryDeltas(Closed, Target) : xfill[OpenRow] \in Trimmed(d)
         /\ IF Reversing(Base, Target) THEN Closed = 0 ELSE Closed = Base
  BY <1>1, OneJob DEF RowLegs, Fits, OpenLeg
<1> HIDE DEF Closed
<1>4. Closed = Base + xfill[CloseRow] /\ Base \in Int /\ xfill[CloseRow] \in Int
  BY NumbersTyped
<1> QED BY <1>2, <1>3, <1>4 DEF Progress

(* Between Plan and ApplyFill a worker's record does not change.             *)
LEMMA RecordKept ==
    ASSUME TypeOK, NEW w \in Workers, WorkerStep(w) \/ Crash(w), ~Plan(w), ~ApplyFill(w)
    PROVE  /\ UNCHANGED ledger
           /\ Planned(w)' => Planned(w) /\ wk'[w] = wk[w]
           /\ pc'[w] \in {"leg", "insert"} => pc[w] \in {"leg", "insert"}
<1>t. pc \in [Workers -> PCs] BY DEF TypeOK, WorkersOK
<1>1. UNCHANGED ledger
  BY DEF WorkerStep, Claim, AcquireLock, ClaimLost, Decline, LegFresh, LegStored, LegResolve,
         InsertExecution, InsertConflict, Authorize, PreSubmitCancel, Submit, SubmitAmbiguous,
         Response, ApplyDeferred, Finish, Crash
<1>2. CASE LegFresh(w) \/ InsertExecution(w) \/ Authorize(w) \/ Submit(w)
  <2>1. Planned(w) /\ UNCHANGED wk /\ (pc'[w] \in {"leg", "insert"} => pc[w] \in {"leg", "insert"})
    BY <1>2, <1>t DEF LegFresh, InsertExecution, Authorize, Submit, Planned
  <2> QED BY <1>1, <2>1
<1>3. CASE LegStored(w) \/ LegResolve(w) \/ PreSubmitCancel(w) \/ SubmitAmbiguous(w) \/ Response(w)
  <2>1. PICK out : Dispatch(w, out)
    BY <1>3 DEF LegStored, LegResolve, PreSubmitCancel, SubmitAmbiguous, Response
  <2>2. Planned(w)
    BY <1>3 DEF LegStored, LegResolve, PreSubmitCancel, SubmitAmbiguous, Response, Planned
  <2>3. pc'[w] \in {"apply", "finish"} /\ (pc'[w] = "apply" => UNCHANGED wk)
    BY <1>t, <2>1 DEF Dispatch, GoFinish
  <2> QED BY <1>1, <2>2, <2>3 DEF Planned
<1>4. CASE \/ \E j \in Jobs : Claim(w, j)
           \/ AcquireLock(w) \/ ClaimLost(w) \/ Decline(w) \/ InsertConflict(w)
           \/ ApplyDeferred(w) \/ Finish(w) \/ Crash(w)
  <2>1. pc'[w] \in {"idle", "lockwait", "plan", "finish"}
    BY <1>t, <1>4 DEF Claim, AcquireLock, ClaimLost, Decline, GoFinish, InsertConflict,
                      ApplyDeferred, Finish, Crash
  <2> QED BY <1>1, <2>1 DEF Planned
<1> QED BY <1>2, <1>3, <1>4 DEF WorkerStep

(* _apply_fill_to_ledger leaves one of the three sizes, and goes on to the   *)
(* open leg only from a flat position.                                       *)
LEMMA ApplySizes ==
    ASSUME MaxJobs = 1, TypeOK, FillInv, RowInv, SingleInv, NEW w \in Workers, ApplyFill(w)
    PROVE  /\ ledger'.size \in Sizes
           /\ Planned(w)' =>
                 /\ wk'[w].led.size \in Sizes
                 /\ wk'[w].kind = "o" /\ wk[w].kind = "c" /\ 0 \in Sizes
                 /\ wk'[w].job = 1
                 /\ wk'[w].leg.before = 0 /\ wk'[w].leg.reduceOnly = FALSE
                 /\ wk'[w].leg.delta \in Trimmed(Target)
<1> DEFINE e    == ExecOf(w)
           led  == wk[w].led
           mode == ApplyMode(e, led)
           size == IF mode = "applied" THEN execLeg[e].before + execFill[e] ELSE led.size
           new  == IF mode = "done" THEN led ELSE [led EXCEPT !.size = size, !.last = e]
           flat == Flattened(execFill[e], wk[w].leg.delta, size)
           next(d) == [wk EXCEPT ![w].led = new, ![w].kind = "o",
                                 ![w].leg = [delta |-> d, reduceOnly |-> FALSE,
                                             before |-> 0, last |-> new.last]]
<1>1. e \in Execs /\ pc[w] = "apply" /\ Planned(w) /\ wk[w].job = 1
  BY OneJob DEF ApplyFill, Planned
<1>t. /\ ledger \in Ledgers /\ wk \in [Workers -> Works] /\ pc \in [Workers -> PCs]
      /\ led \in Ledgers
  BY DEF TypeOK, LedgerOK, WorkersOK, Works
<1>n. pos = Closed + xfill[OpenRow] /\ Closed = Base + xfill[CloseRow] /\ Base \in Int
      /\ xfill[CloseRow] \in Int /\ xfill[OpenRow] \in Int
  BY NumbersTyped
<1>2. led.size \in Sizes /\ ledger.size \in Sizes BY <1>1 DEF SingleInv, SizesInv
<1>3. execLeg[e].before + execFill[e] \in Sizes
  <2>1. execFill[e] \in {0, xfill[e]} /\ execState[e] # "none" BY <1>1 DEF FillInv, RowInv
  <2>2. CASE e = CloseRow
    <3>1. execLeg[e].before = Base BY <2>1, <2>2 DEF SingleInv, RowLegs, Fits, CloseLeg
    <3> HIDE DEF e
    <3> QED BY <1>n, <2>1, <2>2, <3>1 DEF Sizes
  <2>3. CASE e = OpenRow
    <3>1. execLeg[e].before = Closed BY <2>1, <2>3 DEF SingleInv, RowLegs, Fits, OpenLeg
    <3>2. Closed \in Int BY <1>n
    <3> HIDE DEF e
    <3> QED BY <1>n, <2>1, <2>3, <3>1, <3>2 DEF Sizes
  <2> QED BY <1>1, <2>2, <2>3, OneJob
<1>4. size \in Sizes BY <1>2, <1>3
<1>5. /\ IF mode = "done" THEN UNCHANGED ledger
         ELSE ledger' = [ledger EXCEPT !.size = IF mode = "applied" THEN size ELSE @, !.last = e]
      /\ \/ /\ flat /\ wk[w].kind = "c" /\ pc' = [pc EXCEPT ![w] = "leg"]
            /\ \E d \in Trimmed(Target) : wk' = next(d)
         \/ \E r \in Results : GoFinish(w, r)
  BY <1>1 DEF ApplyFill, Target
<1>6. new.size \in Sizes BY <1>2, <1>4, <1>t DEF Ledgers
<1> HIDE DEF mode, led, e, size
<1>7. ledger'.size \in Sizes
  <2>1. CASE mode = "done" BY <1>2, <1>5, <2>1
  <2>2. CASE mode # "done"
    <3>1. ledger'.size = IF mode = "applied" THEN size ELSE ledger.size
      BY <1>5, <1>t, <2>2 DEF Ledgers
    <3> QED BY <1>2, <1>4, <3>1
  <2> QED BY <2>1, <2>2
<1> HIDE DEF new
<1>8. ASSUME Planned(w)'
      PROVE  /\ wk'[w].led.size \in Sizes
             /\ wk'[w].kind = "o" /\ wk[w].kind = "c" /\ 0 \in Sizes
             /\ wk'[w].job = 1
             /\ wk'[w].leg.before = 0 /\ wk'[w].leg.reduceOnly = FALSE
             /\ wk'[w].leg.delta \in Trimmed(Target)
  <2>1. ~\E r \in Results : GoFinish(w, r) BY <1>8, <1>t DEF GoFinish, Planned
  <2>2. flat /\ wk[w].kind = "c" /\ \E d \in Trimmed(Target) : wk' = next(d) BY <1>5, <2>1
  <2>3. PICK d \in Trimmed(Target) : wk' = next(d) BY <2>2
  <2>4. /\ wk'[w].led = new /\ wk'[w].kind = "o" /\ wk'[w].job = wk[w].job
        /\ wk'[w].leg = [delta |-> d, reduceOnly |-> FALSE, before |-> 0, last |-> new.last]
    BY <1>t, <2>3 DEF Works
  <2>5. size = 0 BY <2>2 DEF Flattened
  <2> QED BY <1>1, <1>4, <1>6, <2>2, <2>4, <2>5
<1> QED BY <1>7, <1>8

(* A worker plans a close leg from Base or an open leg from Closed.          *)
LEMMA PlanFits ==
    ASSUME MaxJobs = 1, TypeOK, SubmissionInv, FillInv, RowInv, SingleInv, NEW w \in Workers,
           Plan(w)
    PROVE  /\ UNCHANGED <<ledger, execState>> /\ pc'[w] = "leg" /\ wk'[w].led.size \in Sizes
           /\ wk'[w].kind = "c" => Reversing(Base, Target)
           /\ execState[ExecOf(w)'] = "none" => Fits(wk'[w].kind, wk'[w].leg)
<1> DEFINE cur == ledger.size
           kind == IF Reversing(cur, Target) THEN "c" ELSE "o"
<1>t. wk \in [Workers -> Works] /\ pc \in [Workers -> PCs]
  BY DEF TypeOK, WorkersOK
<1>1. wk[w].job = 1 BY OneJob DEF Plan
<1>2. PICK d \in PrimaryDeltas(cur, Target), more \in BOOLEAN :
         wk' = [wk EXCEPT ![w].led = ledger, ![w].kind = kind,
                          ![w].leg = [delta |-> d, reduceOnly |-> ReduceOnly(cur, Target),
                                      before |-> cur, last |-> ledger.last],
                          ![w].more = more]
  BY <1>1 DEF Plan, Target
<1>3. /\ wk'[w].led = ledger /\ wk'[w].kind = kind /\ wk'[w].job = 1
      /\ wk'[w].leg.delta = d /\ wk'[w].leg.before = cur
      /\ wk'[w].leg.reduceOnly = ReduceOnly(cur, Target)
  BY <1>t, <1>1, <1>2 DEF Works
<1>4. UNCHANGED <<ledger, execState>> /\ pc'[w] = "leg" /\ Target # cur
  BY <1>t, <1>1 DEF Plan, execVars, Target
<1>5. /\ pos = Closed + xfill[OpenRow] /\ Closed = Base + xfill[CloseRow]
      /\ Base \in Int /\ Closed \in Int /\ Target \in Int
      /\ xfill[CloseRow] \in Int /\ xfill[OpenRow] \in Int
  BY NumbersTyped
<1>6. Progress(Base, xfill[CloseRow], xfill[OpenRow], Target) BY RowsProgress DEF SingleInv
<1>7. cur \in {Base, Base + xfill[CloseRow], Base + xfill[CloseRow] + xfill[OpenRow]}
  BY <1>5 DEF SingleInv, SizesInv, Sizes
<1> HIDE DEF cur
<1>8. /\ Reversing(cur, Target) => Reversing(Base, Target) /\ (xfill[CloseRow] = 0 => cur = Base)
      /\ ~Reversing(cur, Target) /\ xfill[OpenRow] = 0 =>
            /\ cur = Closed
            /\ IF Reversing(Base, Target) THEN cur = 0 ELSE cur = Base
  <2> DEFINE xc == xfill[CloseRow]
             xo == xfill[OpenRow]
  <2>1. Base \in Int /\ xc \in Int /\ xo \in Int /\ Target \in Int BY <1>5
  <2>2. Progress(Base, xc, xo, Target) /\ cur \in {Base, Base + xc, Base + xc + xo} BY <1>6, <1>7
  <2>3. Closed = Base + xc BY <1>5
  <2> HIDE DEF xc, xo
  <2>4. StartsFrom(cur, Base, xc, xo, Target) BY <2>1, <2>2, PlansFrom
  <2> QED BY <2>3, <2>4 DEF xc, xo, StartsFrom
<1>9. \A e \in Execs : execState[e] = "none" => xfill[e] = 0 BY DEF SubmissionInv, FillInv
<1>10. CASE Reversing(cur, Target)
  <2>1. ExecOf(w)' = CloseRow BY <1>3, <1>10 DEF ExecOf, CloseRow
  <2>2. execState[CloseRow] = "none" => xfill[CloseRow] = 0 BY <1>9, OneJob
  <2>3. d = -cur /\ ReduceOnly(cur, Target) BY <1>10 DEF PrimaryDeltas, ReduceOnly, Reversing
  <2>4. execState[CloseRow] = "none" => CloseLeg(wk'[w].leg, Base, Target)
    BY <1>3, <1>8, <1>10, <2>2, <2>3 DEF CloseLeg
  <2> QED BY <1>3, <1>4, <1>8, <1>10, <2>1, <2>4 DEF Fits, SingleInv, SizesInv, cur
<1>11. CASE ~Reversing(cur, Target)
  <2>1. ExecOf(w)' = OpenRow BY <1>3, <1>11 DEF ExecOf, OpenRow
  <2>2. execState[OpenRow] = "none" => xfill[OpenRow] = 0 BY <1>9, OneJob
  <2>3. execState[OpenRow] = "none" => OpenLeg(wk'[w].leg, Base, Closed, Target)
    BY <1>3, <1>4, <1>8, <1>11, <2>2 DEF OpenLeg
  <2> QED BY <1>3, <1>4, <1>11, <2>1, <2>3 DEF Fits, SingleInv, SizesInv, cur
<1> QED BY <1>10, <1>11

(* Every step of a worker keeps to the legs of the job.                      *)
LEMMA WorkerSingle ==
    ASSUME MaxJobs = 1, TypeOK, SubmissionInv, FillInv, RowInv, SingleInv, NEW w \in Workers,
           WorkerStep(w) \/ Crash(w)
    PROVE  SingleInv'
<1>t. /\ wk \in [Workers -> Works] /\ pc \in [Workers -> PCs]
      /\ jobState \in [Jobs -> JobStates]
  BY DEF TypeOK, WorkersOK, JobsOK
<1>n. [Next]_vars BY DEF Next
<1>1. UNCHANGED <<pos, xfill, intent>>
  <2>1. UNCHANGED intent
    BY DEF WorkerStep, Claim, AcquireLock, ClaimLost, Decline, Plan, LegFresh, LegStored,
           LegResolve, InsertExecution, InsertConflict, Authorize, PreSubmitCancel, Submit,
           SubmitAmbiguous, Response, ApplyFill, ApplyDeferred, Finish, Crash, jobVars
  <2> QED BY <2>1, OrdersStay, SubmitMoves DEF exchVars
<1>2. UNCHANGED <<Base, Closed, Sizes, Target>> BY <1>1 DEF Base, Closed, Sizes, Target
<1>3. OthersStay(w) BY WorkerAlone
<1>4. EmptyInv'
  <2>1. jobState[1] # "none"
    BY OneJob DEF SingleInv, EmptyInv, WorkerStep, Claim, AcquireLock, ClaimLost, Decline, Plan,
         LegFresh, LegStored, LegResolve, InsertExecution, InsertConflict, Authorize,
         PreSubmitCancel, Submit, SubmitAmbiguous, Response, ApplyFill, ApplyDeferred, Finish,
         Crash
  <2>2. \/ UNCHANGED jobState
        \/ \E j \in Jobs, s \in JobStates \ {"none"} : jobState' = [jobState EXCEPT ![j] = s]
    <3>1. ASSUME NEW j \in Jobs, Claim(w, j)
          PROVE  \E s \in JobStates \ {"none"} : jobState' = [jobState EXCEPT ![j] = s]
      BY <3>1 DEF Claim
    <3>2. CASE Finish(w)
      <4>1. wk[w].job \in Jobs /\ wk[w].result \in Results
        BY <1>t, <3>2, OneJob DEF Finish, Works
      <4>2. PICK s : /\ jobState' = [jobState EXCEPT ![wk[w].job] = s]
                     /\ s = IF wk[w].result # "RETRY" THEN wk[w].result
                            ELSE IF wk[w].att >= MaxAttempts THEN "DEAD" ELSE "RETRYING"
        BY <3>2 DEF Finish
      <4>3. s \in JobStates \ {"none"} BY <4>1, <4>2
      <4> QED BY <4>1, <4>2, <4>3
    <3>3. CASE ~Finish(w) /\ ~\E j \in Jobs : Claim(w, j)
      BY <3>3 DEF WorkerStep, AcquireLock, ClaimLost, Decline, Plan, LegFresh, LegStored,
           LegResolve, InsertExecution, InsertConflict, Authorize, PreSubmitCancel, Submit,
           SubmitAmbiguous, Response, ApplyFill, ApplyDeferred, Crash, jobVars
    <3> QED BY <3>1, <3>2, <3>3
  <2>3. jobState'[1] # "none" BY <1>t, <2>1, <2>2, OneJob
  <2> QED BY <2>3 DEF EmptyInv
<1>5. SizesInv'
  <2>1. ledger'.size \in Sizes /\ (Planned(w)' => wk'[w].led.size \in Sizes)
    BY RecordKept, ApplySizes, PlanFits DEF SingleInv, SizesInv
  <2>2. \A v \in Workers \ {w} : Planned(v)' => Planned(v) /\ wk'[v] = wk[v]
    BY <1>3 DEF OthersStay, Planned
  <2>3. (\A v \in Workers : Planned(v) => wk[v].led.size \in Sizes)'
    BY <1>2, <2>1, <2>2 DEF SingleInv, SizesInv
  <2> QED BY <1>2, <1>3, <2>1, <2>3 DEF SingleInv, SizesInv, OthersStay
<1>6. \A e \in Execs : execState'[e] = "none" => execState[e] = "none" BY <1>n, NextKeeps
<1>7. RowLegs'
  <2>1. CASE InsertExecution(w)
    <3>1. /\ ExecOf(w) \in Execs /\ execState[ExecOf(w)] = "none" /\ pc[w] = "insert"
          /\ execLeg' = [execLeg EXCEPT ![ExecOf(w)] = wk[w].leg]
      BY <2>1, OneJob DEF InsertExecution, NoRow
    <3>2. execLeg'[ExecOf(w)] = wk[w].leg BY <3>1 DEF TypeOK, ExecsOK
    <3>3. Fits(wk[w].kind, wk[w].leg) BY <3>1 DEF SingleInv, WorkerLegs
    <3>4. RowsKept({ExecOf(w)}) BY <2>1, WorkerKeeps DEF WorkerStep
    <3>5. CASE wk[w].kind = "c"
      <4>1. ExecOf(w) = CloseRow BY <3>1, <3>5, OneJob
      <4>2. execLeg'[OpenRow] = execLeg[OpenRow] /\ (execState'[OpenRow] = "none" <=> execState[OpenRow] = "none")
        BY <3>4, <4>1, OneJob DEF RowsKept
      <4> QED BY <1>2, <3>2, <3>3, <3>5, <4>1, <4>2 DEF RowLegs, SingleInv, Fits
    <3>6. CASE wk[w].kind = "o"
      <4>1. ExecOf(w) = OpenRow BY <3>1, <3>6, OneJob
      <4>2. execLeg'[CloseRow] = execLeg[CloseRow] /\ (execState'[CloseRow] = "none" <=> execState[CloseRow] = "none")
        BY <3>4, <4>1, OneJob DEF RowsKept
      <4> QED BY <1>2, <3>2, <3>3, <3>6, <4>1, <4>2 DEF RowLegs, SingleInv, Fits
    <3> QED BY <3>1, <3>5, <3>6, OneJob
  <2>2. CASE ~InsertExecution(w)
    <3>1. RowsKept({}) BY <2>2, WorkerKeeps
    <3> QED BY <1>2, <3>1, OneJob DEF RowsKept, RowLegs, SingleInv, Fits
  <2> QED BY <2>1, <2>2
<1>8. ASSUME NEW v \in Workers
      PROVE  /\ (Planned(v) /\ wk[v].kind = "c" => Reversing(Base, Target))'
             /\ (pc[v] \in {"leg", "insert"} /\ execState[ExecOf(v)] = "none" =>
                     Fits(wk[v].kind, wk[v].leg))'
  <2>1. CASE /\ Planned(v)' => Planned(v) /\ wk'[v] = wk[v]
             /\ pc'[v] \in {"leg", "insert"} => pc[v] \in {"leg", "insert"}
    <3>1. pc'[v] \in {"leg", "insert"} => ExecOf(v)' = ExecOf(v) /\ ExecOf(v) \in Execs
      BY <2>1, OneJob DEF Planned, ExecOf
    <3>2. WorkerLegs BY DEF SingleInv
    <3> QED BY <1>2, <1>6, <2>1, <3>1, <3>2 DEF WorkerLegs, Fits, Planned
  <2>2. CASE v # w BY <1>3, <2>1, <2>2 DEF OthersStay, Planned
  <2>3. CASE v = w /\ ~Plan(w) /\ ~ApplyFill(w) BY <2>1, <2>3, RecordKept
  <2>4. CASE v = w /\ Plan(w)
    BY <1>2, <2>4, PlanFits DEF Fits
  <2>5. CASE v = w /\ ApplyFill(w)
    <3>1. Planned(w) /\ UNCHANGED execState BY <2>5 DEF ApplyFill, Planned
    <3>2. CASE ~Planned(w)' BY <2>5, <3>2 DEF Planned
    <3>3. CASE Planned(w)'
      <4>1. /\ wk'[w].kind = "o" /\ wk[w].kind = "c" /\ 0 \in Sizes
            /\ wk'[w].job = 1
            /\ wk'[w].leg.before = 0 /\ wk'[w].leg.reduceOnly = FALSE
            /\ wk'[w].leg.delta \in Trimmed(Target)
        BY <2>5, <3>3, ApplySizes
      <4>2. Reversing(Base, Target) BY <3>1, <4>1 DEF SingleInv, WorkerLegs
      <4>3. ExecOf(w)' = OpenRow BY <4>1 DEF ExecOf, OpenRow
      <4>4. ASSUME execState[OpenRow] = "none" PROVE OpenLeg(wk'[w].leg, Base, Closed, Target)
        <5>1. xfill[OpenRow] = 0 BY <4>4, OneJob DEF SubmissionInv, FillInv
        <5>2. pos = Closed + xfill[OpenRow] /\ Closed \in Int /\ Base \in Int /\ Target \in Int
          BY NumbersTyped
        <5>3. Closed = 0 BY <4>1, <4>2, <5>1, <5>2 DEF Sizes, Reversing
        <5>4. Target # 0 /\ ~Reversing(0, Target) /\ ~ReduceOnly(0, Target)
          BY <4>2 DEF Reversing, ReduceOnly
        <5>5. wk'[w].leg.delta \in PrimaryDeltas(0, Target) BY <4>1, <5>2, <5>4 DEF PrimaryDeltas
        <5>6. wk'[w].leg.reduceOnly = ReduceOnly(0, Target)
          <6>1. ReduceOnly(0, Target) = FALSE BY DEF ReduceOnly
          <6> QED BY <4>1, <6>1
        <5>7. OpenLeg(wk'[w].leg, Base, 0, Target) BY <4>1, <4>2, <5>4, <5>5, <5>6 DEF OpenLeg
        <5> QED BY <5>3, <5>7
      <4> QED BY <1>2, <2>5, <3>1, <4>1, <4>2, <4>3, <4>4 DEF Fits
    <3> QED BY <3>2, <3>3
  <2> QED BY <2>2, <2>3, <2>4, <2>5
<1>9. WorkerLegs' BY <1>8 DEF WorkerLegs
<1> QED BY <1>4, <1>5, <1>7, <1>9 DEF SingleInv

(* Steps that neither move a worker nor fill an order.                       *)
LEMMA StillSingle ==
    ASSUME MaxJobs = 1, TypeOK, SingleInv, RowsKept({}), UNCHANGED <<pos, xfill, pc, wk>>,
           ledger'.size \in Sizes,
           res'.pc = "snapped" => res'.snap \in Sizes, rec'.pc = "held" => rec'.snap \in Sizes,
           jobState'[1] = "none" => jobState[1] = "none" /\ UNCHANGED hinted,
           UNCHANGED intent \/ jobState[1] = "none"
    PROVE  SingleInv'
<1>1. UNCHANGED <<Base, Closed, Sizes>> BY DEF Base, Closed, Sizes
<1>2. \A e \in Execs : /\ execLeg'[e] = execLeg[e]
                       /\ execState'[e] = "none" <=> execState[e] = "none"
  BY DEF RowsKept
<1>3. EmptyInv' BY <1>2 DEF SingleInv, EmptyInv
<1>4. SizesInv' BY <1>1 DEF SingleInv, SizesInv, Planned
<1>5. RowLegs' /\ WorkerLegs'
  <2>1. CASE UNCHANGED intent
    <3>1. UNCHANGED Target BY <2>1 DEF Target
    <3>2. RowLegs' BY <1>1, <1>2, <3>1, OneJob DEF SingleInv, RowLegs, Fits
    <3>3. \A w \in Workers : ExecOf(w)' = ExecOf(w) /\ (pc[w] # "idle" => ExecOf(w) \in Execs)
      BY OneJob DEF ExecOf
    <3>4. WorkerLegs' BY <1>1, <1>2, <3>1, <3>3 DEF SingleInv, WorkerLegs, Fits, Planned
    <3> QED BY <3>2, <3>4
  <2>2. CASE jobState[1] = "none"
    <3>1. (\A w \in Workers : pc'[w] = "idle") /\ \A e \in Execs : execState'[e] = "none"
      BY <1>2, <2>2 DEF SingleInv, EmptyInv
    <3> QED BY <3>1, OneJob DEF RowLegs, WorkerLegs, Planned
  <2> QED BY <2>1, <2>2
<1> QED BY <1>3, <1>4, <1>5 DEF SingleInv

(* The sources of the job, the queue, a lost lock, the resolver and the      *)
(* reconciler.                                                               *)
LEMMA OthersSingle ==
    ASSUME MaxJobs = 1, TypeOK, SubmissionInv, RowInv, SingleInv,
           \/ ResolverStep \/ ReconcilerStep \/ LoseLock \/ CloseNothing
           \/ (\E p \in Positions : MasterMove(p)) \/ (\E j \in Jobs : JobStep(j))
           \/ UNCHANGED vars
    PROVE  SingleInv'
<1>1. RowsKept({}) BY OthersKeep
<1>t. res \in Resolutions /\ rec \in Reconciliations /\ jobState \in [Jobs -> JobStates]
  BY DEF TypeOK, MaintenanceOK, JobsOK
<1>2. /\ ledger.size \in Sizes /\ pos \in Sizes
      /\ res.pc = "snapped" => res.snap \in Sizes
      /\ rec.pc = "held" => rec.snap \in Sizes
  BY DEF SingleInv, SizesInv, Sizes
<1>3. CASE \/ LoseLock \/ CloseNothing \/ (\E p \in Positions : MasterMove(p)) \/ UNCHANGED vars
  <2>1. UNCHANGED <<pos, xfill, pc, wk, ledger, res, rec, jobState, hinted, intent>>
    BY <1>3 DEF LoseLock, CloseNothing, MasterMove, vars, jobVars, exchVars
  <2> QED BY <1>1, <1>2, <2>1, StillSingle
<1>4. ASSUME NEW j \in Jobs, JobStep(j) PROVE SingleInv'
  <2>0. j = 1 BY OneJob
  <2>1. UNCHANGED <<pos, xfill, pc, wk, ledger, res, rec>>
    BY <1>4 DEF JobStep, MasterFill, ClosePositions, Publish, ExpireStrategyJob, ReleaseStale,
                exchVars
  <2>2. CASE MasterFill(j) \/ ClosePositions(j)
    <3>1. jobState[1] = "none" /\ jobState' = [jobState EXCEPT ![1] = "QUEUED"]
      BY <2>0, <2>2 DEF MasterFill, ClosePositions, CreateJob, NextJob, Created
    <3>2. jobState'[1] # "none" BY <1>t, <2>0, <3>1
    <3> QED BY <1>1, <1>2, <2>1, <3>1, <3>2, StillSingle
  <2>3. CASE Publish(j) \/ ExpireStrategyJob(j) \/ ReleaseStale(j)
    <3>1. /\ jobState[1] \in ClaimableStates \cup {"PROCESSING"} /\ UNCHANGED intent
          /\ \/ \E s \in {"SKIPPED", "RETRYING", "DEAD"} : jobState' = [jobState EXCEPT ![1] = s]
             \/ \E P \in SUBSET Jobs : jobState' =
                   [k \in Jobs |-> IF k \in P THEN "SKIPPED" ELSE jobState[k]]
      <4>1. CASE Publish(j)
        <5> DEFINE P == {k \in Jobs : /\ Strategy(j) /\ Strategy(k)
                                      /\ jobState[k] \in ClaimableStates
                                      /\ intent[k].order < intent[j].order}
        <5>1. \/ jobState' = [jobState EXCEPT ![j] = "SKIPPED"]
              \/ jobState' = [k \in Jobs |-> IF k \in P THEN "SKIPPED" ELSE jobState[k]]
          BY <4>1 DEF Publish
        <5>2. P \in SUBSET Jobs OBVIOUS
        <5> QED BY <2>0, <4>1, <5>1, <5>2 DEF Publish
      <4>2. CASE ExpireStrategyJob(j) BY <2>0, <4>2 DEF ExpireStrategyJob
      <4>3. CASE ReleaseStale(j) BY <2>0, <4>3 DEF ReleaseStale, Released
      <4> QED BY <2>3, <4>1, <4>2, <4>3
    <3>2. jobState'[1] # "none" BY <1>t, <2>0, <3>1
    <3> QED BY <1>1, <1>2, <2>1, <3>1, <3>2, StillSingle
  <2> QED BY <1>4, <2>2, <2>3 DEF JobStep
<1>5. CASE ResolverStep
  <2>1. UNCHANGED <<pos, xfill, pc, wk, rec, jobState, hinted, intent>>
    BY <1>5 DEF ResolverStep, ResolveQuery, ResolveSnapshot, ResolveUnverified,
                ResolveNotFilled, ResolveFilled, Quarantine, ResolveSkip, exchVars, jobVars
  <2>2. ledger'.size \in Sizes
    <3>1. CASE ResolveFilled \/ Quarantine
      BY <1>2, <3>1 DEF ResolveFilled, Quarantine, SyncLedger
    <3>2. CASE ~(ResolveFilled \/ Quarantine)
      <4>1. UNCHANGED ledger
        BY <1>5, <3>2 DEF ResolverStep, ResolveQuery, ResolveSnapshot, ResolveUnverified,
                          ResolveNotFilled, ResolveSkip
      <4> QED BY <1>2, <4>1
    <3> QED BY <3>1, <3>2
  <2>3. res'.pc = "snapped" => res'.snap \in Sizes
    <3>1. ASSUME NEW e \in Execs, ResolveQuery(e) PROVE res'.pc = "queried"
      BY <3>1 DEF ResolveQuery, ResIdle
    <3>2. CASE ResolveSnapshot BY <1>2, <1>t, <3>2 DEF ResolveSnapshot, Resolutions
    <3>3. CASE ResolveUnverified BY <1>t, <3>3 DEF ResolveUnverified, Resolutions
    <3>4. CASE ResolveNotFilled \/ ResolveFilled \/ Quarantine \/ ResolveSkip
      BY <3>4 DEF ResolveNotFilled, ResolveFilled, Quarantine, ResolveSkip, ResIdle
    <3> QED BY <1>5, <3>1, <3>2, <3>3, <3>4 DEF ResolverStep
  <2> QED BY <1>1, <1>2, <2>1, <2>2, <2>3, StillSingle
<1>6. CASE ReconcilerStep
  <2>1. UNCHANGED <<pos, xfill, pc, wk, res, hinted>>
    BY <1>6 DEF ReconcilerStep, ReconcileStart, ReconcileMaster, ReconcileSnapshot,
                ReconcileCommit, ReconcileAbort, exchVars, jobVars
  <2>2. \/ UNCHANGED <<jobState, intent>>
        \/ jobState[1] = "none" /\ jobState' = [jobState EXCEPT ![1] = "QUEUED"]
    BY <1>6, OneJob DEF ReconcilerStep, ReconcileStart, ReconcileMaster, ReconcileSnapshot,
         ReconcileCommit, ReconcileAbort, jobVars, CreateJob, NextJob, Created
  <2>3. /\ jobState'[1] = "none" => jobState[1] = "none" /\ UNCHANGED hinted
        /\ UNCHANGED intent \/ jobState[1] = "none"
    BY <2>1, <2>2
  <2>4. ledger'.size \in Sizes
    BY <1>2, <1>6 DEF ReconcilerStep, ReconcileStart, ReconcileMaster, ReconcileSnapshot,
         ReconcileCommit, ReconcileAbort, SyncLedger
  <2>5. rec'.pc = "held" => rec'.snap \in Sizes
    <3>1. CASE ReconcileStart
      <4>1. \/ rec' = [RecIdle EXCEPT !.pc = "started"]
            \/ rec' = [RecIdle EXCEPT !.pc = "started", !.order = causal + 1]
        BY <3>1 DEF ReconcileStart
      <4>2. rec'.pc = "started" BY <4>1 DEF RecIdle
      <4> QED BY <4>2
    <3>2. CASE ReconcileMaster BY <1>t, <3>2 DEF ReconcileMaster, Reconciliations
    <3>3. CASE ReconcileSnapshot BY <1>2, <1>t, <3>3 DEF ReconcileSnapshot, Reconciliations
    <3>4. CASE ReconcileCommit \/ ReconcileAbort
      BY <3>4 DEF ReconcileCommit, ReconcileAbort, RecIdle
    <3> QED BY <1>6, <3>1, <3>2, <3>3, <3>4 DEF ReconcilerStep
  <2> QED BY <1>1, <1>2, <2>1, <2>3, <2>4, <2>5, StillSingle
<1> QED BY <1>3, <1>4, <1>5, <1>6

(* An order on the wire is of a leg that follows from Base and Closed.       *)
LEMMA WireLegs ==
    ASSUME MaxJobs = 1, TypeOK, SubmissionInv, FillInv, RowInv, SingleInv, NEW e \in Execs,
           order[e] = "wire"
    PROVE  /\ xfill[e] = 0 /\ execState[e] # "none"
           /\ e = CloseRow => /\ CloseLeg(execLeg[e], Base, Target)
                              /\ execState[OpenRow] = "none" /\ xfill[OpenRow] = 0
                              /\ \A w \in Workers : pc[w] \in {"leg", "insert"}
                                    /\ wk[w].kind = "o" => execState[OpenRow] # "none"
           /\ e = OpenRow => OpenLeg(execLeg[e], Base, Closed, Target)
<1>1. xfill[e] = 0 /\ execState[e] # "none" BY DEF SubmissionInv, FillInv
<1>2. CASE e = CloseRow
  <2>1. CloseLeg(execLeg[e], Base, Target) BY <1>1, <1>2 DEF SingleInv, RowLegs, Fits
  <2>2. Closed = Base /\ Reversing(Base, Target) /\ Base # 0
    BY <1>1, <1>2, <2>1, NumbersTyped DEF CloseLeg, Reversing
  <2>3. \A leg : ~OpenLeg(leg, Base, Closed, Target) BY <2>2 DEF OpenLeg
  <2>4. execState[OpenRow] = "none" BY <2>3 DEF SingleInv, RowLegs, Fits
  <2>5. xfill[OpenRow] = 0 BY <2>4, OneJob DEF SubmissionInv, FillInv
  <2>6. ASSUME NEW w \in Workers, pc[w] \in {"leg", "insert"}, wk[w].kind = "o"
        PROVE  execState[OpenRow] # "none"
    <3>1. ExecOf(w) = OpenRow BY <2>6, OneJob
    <3> QED BY <2>3, <2>6, <3>1 DEF SingleInv, WorkerLegs, Fits
  <2> QED BY <1>1, <1>2, <2>1, <2>4, <2>5, <2>6, OneJob
<1>3. CASE e = OpenRow BY <1>1, <1>3, OneJob DEF SingleInv, RowLegs, Fits
<1> QED BY <1>2, <1>3, OneJob

(* A fill of one leg leaves Base, and Closed if it is of the open leg.       *)
LEMMA FillSingle ==
    ASSUME MaxJobs = 1, TypeOK, SubmissionInv, FillInv, RowInv, SingleInv, NEW e \in Execs, Fill(e)
    PROVE  SingleInv'
<1>t. xfill \in [Execs -> Int] /\ pos \in Int BY DEF TypeOK, ExchangeOK
<1>1. PICK f \in FillSizes(e) : pos' = pos + f /\ xfill' = [xfill EXCEPT ![e] = f] BY DEF Fill
<1>2. f \in Int BY DEF FillSizes, Trimmed, TypeOK, ExecsOK, Legs
<1>3. order[e] = "wire" /\ UNCHANGED <<jobState, hinted, intent, execState, execLeg, ledger, pc, wk, res, rec>>
  BY DEF Fill, jobVars, execVars
<1>4. UNCHANGED Target /\ \A w \in Workers : ExecOf(w)' = ExecOf(w)
  BY <1>3 DEF Target, ExecOf
<1>5. EmptyInv' BY <1>3 DEF SingleInv, EmptyInv
<1>n. /\ pos = Closed + xfill[OpenRow] /\ Closed = Base + xfill[CloseRow] /\ Base \in Int
      /\ xfill[CloseRow] \in Int /\ xfill[OpenRow] \in Int
  BY NumbersTyped
<1>6. CASE e = CloseRow
  <2>1. xfill[CloseRow] = 0 /\ xfill[OpenRow] = 0 /\ execState[OpenRow] = "none"
        /\ \A w \in Workers : pc[w] \in {"leg", "insert"} /\ wk[w].kind = "o" => execState[OpenRow] # "none"
    BY <1>3, <1>6, WireLegs
  <2>2. Base' = Base /\ Base \in Sizes' /\ Sizes = {Base}
    BY <1>1, <1>2, <1>6, <1>n, <1>t, <2>1, OneJob DEF Base, Closed, Sizes
  <2>3. SizesInv' BY <1>3, <2>2 DEF SingleInv, SizesInv, Planned
  <2>4. RowLegs' BY <1>3, <1>4, <2>1, <2>2 DEF SingleInv, RowLegs, Fits
  <2>5. WorkerLegs'
    <3>1. \A w \in Workers : pc[w] \in {"leg", "insert"} /\ execState[ExecOf(w)] = "none" => wk[w].kind = "c"
      BY <2>1, OneJob
    <3> QED BY <1>3, <1>4, <2>2, <3>1 DEF SingleInv, WorkerLegs, Fits, Planned
  <2> QED BY <1>5, <2>3, <2>4, <2>5 DEF SingleInv
<1>7. CASE e = OpenRow
  <2>1. xfill[OpenRow] = 0 BY <1>3, <1>7, WireLegs
  <2>2. Base' = Base /\ Closed' = Closed /\ Sizes = {Base, Closed} /\ Sizes \subseteq Sizes'
    BY <1>1, <1>2, <1>7, <1>n, <1>t, <2>1, OneJob DEF Base, Closed, Sizes
  <2>3. SizesInv' BY <1>3, <2>2 DEF SingleInv, SizesInv, Planned
  <2>4. RowLegs' /\ WorkerLegs'
    BY <1>3, <1>4, <2>2 DEF SingleInv, RowLegs, WorkerLegs, Fits, Planned
  <2> QED BY <1>5, <2>3, <2>4 DEF SingleInv
<1> QED BY <1>6, <1>7, OneJob

(* Every step keeps to the legs of the job, lost locks included.             *)
LEMMA NextSingle ==
    ASSUME MaxJobs = 1, MaxManual = 0, TypeOK, SubmissionInv, FillInv, RowInv, SingleInv, [Next]_vars
    PROVE  SingleInv'
<1>1. ~ManualTrade BY DEF ManualTrade, TypeOK, SourcesOK
<1>2. ASSUME NEW e \in Execs, NotFilled(e) PROVE SingleInv'
  <2>1. RowsKept({}) BY <1>2, OthersKeep DEF ExchangeStep
  <2>2. UNCHANGED <<pos, xfill, pc, wk, ledger, res, rec, jobState, hinted, intent>>
    BY <1>2 DEF NotFilled, jobVars
  <2> QED BY <2>1, <2>2, StillSingle DEF SingleInv, SizesInv
<1> QED BY <1>1, <1>2, WorkerSingle, OthersSingle, FillSingle DEF Next, ExchangeStep

(* At first there is no job, and the ledger is the position.                 *)
LEMMA InitSingle == ASSUME MaxJobs = 1 PROVE Init => SingleInv
<1> SUFFICES ASSUME Init PROVE SingleInv OBVIOUS
<1>1. /\ hinted = {} /\ ledger.size = pos /\ res.pc = "idle" /\ rec.pc = "idle"
      /\ \A w \in Workers : pc[w] = "idle"
      /\ \A e \in Execs : execState[e] = "none"
  BY DEF Init, ResIdle, RecIdle
<1> QED BY <1>1, OneJob DEF SingleInv, EmptyInv, SizesInv, Sizes, RowLegs, WorkerLegs, Planned

(* With or without the lock, one job keeps to its legs.                      *)
LEMMA SingleInvariance ==
    ASSUME MaxJobs = 1, MaxManual = 0
    PROVE  Spec => [](TypeOK /\ SubmissionInv /\ FillInv /\ RowInv /\ SingleInv)
<1> DEFINE I == TypeOK /\ SubmissionInv /\ FillInv /\ RowInv /\ SingleInv
<1>1. Init => I BY InitTyped, InitSubmission, InitFills, InitRows, InitSingle
<1>2. I /\ [Next]_vars => I' BY NextTyped, NextSubmission, NextFills, NextRows, NextSingle
<1> HIDE DEF I
<1>3. Spec => []I BY <1>1, <1>2, PTL DEF Spec
<1> QED BY <1>3 DEF I

(* _process_job_locked, close_leg_flattened: an order that may open is never *)
(* on its way against a position of the other side, whatever crashes,        *)
(* retries and lost locks the job goes through.                              *)
THEOREM OpensOnlyWith ==
    ASSUME MaxJobs = 1, MaxManual = 0 PROVE Spec => []NeverOpensAgainstPosition
<1>1. ASSUME TypeOK, SubmissionInv, FillInv, RowInv, SingleInv, NEW e \in Execs,
             order[e] = "wire", ~execLeg[e].reduceOnly
      PROVE  pos = 0 \/ (pos > 0) = (execLeg[e].delta > 0)
  <2>1. e = OpenRow BY <1>1, OneJob, WireLegs DEF CloseLeg
  <2>2. xfill[OpenRow] = 0 /\ OpenLeg(execLeg[e], Base, Closed, Target)
    BY <1>1, <2>1, WireLegs
  <2>3. pos = Closed /\ Closed \in Int /\ Target \in Int BY <1>1, <2>2, NumbersTyped
  <2>4. /\ pos # Target /\ ~Reversing(pos, Target) /\ ~ReduceOnly(pos, Target)
        /\ execLeg[e].delta \in PrimaryDeltas(pos, Target)
    BY <1>1, <2>2, <2>3 DEF OpenLeg
  <2>5. execLeg[e].delta \in Trimmed(Target - pos) BY <2>4 DEF PrimaryDeltas
  <2>6. pos # 0 => /\ Target # 0 /\ (pos > 0 <=> Target > 0)
                   /\ pos > 0 <=> Target - pos > 0
    BY <2>3, <2>4 DEF Reversing, ReduceOnly, Abs
  <2>7. (execLeg[e].delta > 0) = (Target - pos > 0) BY <2>3, <2>5 DEF Trimmed
  <2> QED BY <2>6, <2>7
<1>2. TypeOK /\ SubmissionInv /\ FillInv /\ RowInv /\ SingleInv => NeverOpensAgainstPosition
  BY <1>1 DEF NeverOpensAgainstPosition
<1> QED BY <1>2, SingleInvariance, PTL

(* sizing.plan, _process_job_locked: every fill brings the position closer   *)
(* to the target of its job, partial fills and stale ledgers included.       *)
THEOREM FillsApproach ==
    ASSUME MaxJobs = 1, MaxManual = 0 PROVE Spec => FillsApproachTarget
<1>1. ASSUME TypeOK, SubmissionInv, FillInv, RowInv, SingleInv, [Next]_vars, NEW e \in Execs,
             order[e] = "wire", order'[e] = "filled"
      PROVE  Abs(pos' - intent[e[1]].target) < Abs(pos - intent[e[1]].target)
  <2>t. order \in [Execs -> OrderStates] BY <1>1 DEF TypeOK, ExchangeOK
  <2>1. Fill(e)
    <3>1. ASSUME NEW x \in Execs, Fill(x), x # e PROVE FALSE
      BY <1>1, <3>1, ExchangeMoves
    <3>2. ASSUME NEW x \in Execs, NotFilled(x) PROVE FALSE BY <1>1, <2>t, <3>2 DEF NotFilled
    <3>3. ASSUME NEW w \in Workers, Submit(w) PROVE FALSE BY <1>1, <2>t, <3>3, SubmitMoves
    <3> QED BY <1>1, <3>1, <3>2, <3>3, OrdersStay DEF Next, ExchangeStep, exchVars, vars
  <2>2. PICK f \in FillSizes(e) : pos' = pos + f BY <2>1 DEF Fill
  <2>3. f \in Trimmed(execLeg[e].delta) BY DEF FillSizes
  <2>4. intent[e[1]].target = Target BY OneJob DEF Target, CloseRow, OpenRow
  <2>5. /\ pos = Closed + xfill[OpenRow] /\ Closed = Base + xfill[CloseRow] /\ Base \in Int
        /\ Closed \in Int /\ Target \in Int
    BY <1>1, NumbersTyped
  <2>6. CASE e = CloseRow
    <3>1. CloseLeg(execLeg[e], Base, Target) /\ xfill[OpenRow] = 0 /\ xfill[CloseRow] = 0
      BY <1>1, <2>6, WireLegs
    <3>2. pos = Base /\ Reversing(pos, Target) /\ f \in Trimmed(-pos)
      BY <2>3, <2>5, <3>1 DEF CloseLeg
    <3> QED BY <2>2, <2>4, <2>5, <3>2 DEF Reversing, Trimmed, Abs
  <2>7. CASE e = OpenRow
    <3>1. OpenLeg(execLeg[e], Base, Closed, Target) /\ xfill[OpenRow] = 0
      BY <1>1, <2>7, WireLegs
    <3>2. pos = Closed /\ ~Reversing(pos, Target) /\ execLeg[e].delta \in PrimaryDeltas(pos, Target)
      BY <2>5, <3>1 DEF OpenLeg
    <3>3. f \in Int /\ Abs(pos + f - Target) < Abs(pos - Target)
      BY <2>3, <2>5, <3>2, OpenStops
    <3> QED BY <2>2, <2>4, <2>5, <3>2, <3>3 DEF Abs
  <2> QED BY <2>6, <2>7, OneJob
<1>2. TypeOK /\ SubmissionInv /\ FillInv /\ RowInv /\ SingleInv /\ [Next]_vars =>
        [\A e \in Execs : order[e] = "wire" /\ order'[e] = "filled" =>
            Abs(pos' - intent[e[1]].target) < Abs(pos - intent[e[1]].target)]_vars
  BY <1>1
<1> QED BY <1>2, SingleInvariance, PTL DEF Spec, FillsApproachTarget

-----------------------------------------------------------------------------
(* Applied markers.                                                          *)
(* What marks a fill as contained in the ledger (ledger_applied_at, the last *)
(* source of the row, a snapshot taken after the outcome) is right: the fill *)
(* is counted, and a snapshot about to replace the ledger has seen it.       *)

Contained == {e \in Execs : /\ execState[e] \in TerminalExecStates
                            /\ execState[e] = "FILLED" => counted[e] > 0}

MarkInv ==
    /\ \A e \in execApplied : counted[e] > 0
    /\ ledger.last \in Execs => ledger.last \in Contained
    /\ ledger.verified \subseteq Contained

SeenInv ==
    /\ res.pc = "snapped" => /\ \A e \in Execs : execState[e] = "FILLED" => e \in res.seen
                             /\ res.out = "FILLED" => res.exec \in res.seen
    /\ rec.pc = "held" => \A e \in Execs : execState[e] = "FILLED" => e \in rec.seen

(* Marks stay right: outcomes are final and fills are not forgotten.         *)
LEMMA MarksStay ==
    ASSUME TypeOK, MarkInv, Protected, execApplied' = execApplied,
           ledger'.last = ledger.last, ledger'.verified = ledger.verified
    PROVE  MarkInv'
<1>1. execApplied \subseteq Execs /\ ledger.verified \subseteq Execs
  BY DEF TypeOK, ExecsOK, LedgerOK, Ledgers
<1>2. \A e \in Execs : /\ counted[e] > 0 => counted'[e] > 0
                       /\ e \in Contained => e \in Contained'
  BY DEF Protected, OutcomeStays, FillsStay, Contained
<1> QED BY <1>1, <1>2 DEF MarkInv

(* _apply_fill_to_ledger marks a fill only with the ledger that contains it. *)
LEMMA ApplyMarks ==
    ASSUME TypeOK, LedgerInv, MarkInv, Protected, NEW w \in Workers, ApplyFill(w)
    PROVE  MarkInv'
<1> DEFINE e    == ExecOf(w)
           mode == ApplyMode(e, ledger)
<1>1. e \in Execs /\ wk[w].led = ledger /\ execState[e] = "FILLED"
  BY ExecOfTyped DEF ApplyFill, LedgerInv, CopyInv, Planned, TypeOK
<1>t. ledger \in Ledgers /\ counted \in [Execs -> Nat] /\ execApplied \subseteq Execs
  BY DEF TypeOK, LedgerOK, ExecsOK
<1>2. /\ UNCHANGED execState /\ mode # "deferred"
      /\ IF mode = "done" THEN UNCHANGED <<ledger, execApplied, counted>>
         ELSE /\ ledger' = [ledger EXCEPT !.size = IF mode = "applied" THEN execLeg[e].before + execFill[e]
                                                   ELSE ledger.size,
                                          !.last = e]
              /\ execApplied' = execApplied \cup {e}
              /\ counted' = [counted EXCEPT ![e] = IF mode = "applied" THEN counted[e] + 1
                                                   ELSE counted[e]]
  BY <1>1 DEF ApplyFill
<1>3. mode \in {"done", "reflected", "applied", "deferred"}
      /\ (mode = "reflected" => ledger.last = e \/ e \in ledger.verified)
  BY DEF ApplyMode, Reflected
<1> HIDE DEF mode, e
<1>4. CASE mode = "done" BY <1>2, <1>4, MarksStay
<1>5. CASE mode # "done"
  <2>1. counted'[e] > 0
    <3>1. CASE mode = "applied" BY <1>1, <1>2, <1>t, <3>1
    <3>2. CASE mode = "reflected"
      <4>1. counted[e] > 0 BY <1>1, <1>3, <3>2 DEF MarkInv, Contained
      <4> QED BY <1>1, <1>2, <1>t, <1>5, <3>2, <4>1
    <3> QED BY <1>2, <1>3, <1>5, <3>1, <3>2
  <2>2. ledger'.last = e /\ ledger'.verified = ledger.verified BY <1>2, <1>5, <1>t DEF Ledgers
  <2>3. \A x \in Execs : /\ counted[x] > 0 => counted'[x] > 0
                         /\ x \in Contained => x \in Contained'
    BY DEF Protected, OutcomeStays, FillsStay, Contained
  <2>4. ledger.verified \subseteq Execs BY <1>t DEF Ledgers
  <2>5. e \in Contained' BY <1>1, <1>2, <2>1 DEF Contained
  <2> QED BY <1>1, <1>2, <1>5, <1>t, <2>1, <2>2, <2>3, <2>4, <2>5 DEF MarkInv
<1> QED BY <1>4, <1>5

(* SyncLedger: what a snapshot read after an outcome verifies, it contains.  *)
LEMMA SyncMarks ==
    ASSUME TypeOK, MarkInv, Protected, NEW size, NEW last, NEW seen, SyncLedger(size, last, seen),
           execApplied' = execApplied, \A e \in Execs : execState[e] = "FILLED" => e \in seen,
           last \in Execs => last \in Contained'
    PROVE  MarkInv'
<1>1. /\ ledger'.last = last /\ ledger'.verified = TerminalExecs
      /\ counted' = [e \in Execs |-> IF e \in seen THEN 1 ELSE 0]
  BY DEF SyncLedger
<1>2. \A e \in execApplied : counted'[e] > 0
  BY DEF MarkInv, Protected, FillsStay, TypeOK, ExecsOK
<1>3. TerminalExecs \subseteq Contained'
  BY <1>1 DEF TerminalExecs, Contained, Protected, OutcomeStays
<1> QED BY <1>1, <1>2, <1>3 DEF MarkInv

(* While a snapshot is held, no row becomes FILLED.                          *)
LEMMA WorkerMarks ==
    ASSUME TypeOK, LockedInv, LedgerInv, MarkInv, SeenInv, Protected,
           NEW w \in Workers, WorkerStep(w) \/ Crash(w)
    PROVE  MarkInv' /\ SeenInv'
<1>1. MarkInv'
  <2>1. CASE ~ApplyFill(w)
    <3>1. UNCHANGED ledger
      <4>1. Plan(w) => UNCHANGED ledger BY DEF Plan
      <4> QED BY <2>1, <4>1, RecordKept
    <3>2. UNCHANGED execApplied
      BY <2>1 DEF WorkerStep, Claim, AcquireLock, ClaimLost, Decline, Plan, LegFresh, LegStored,
         LegResolve, InsertExecution, InsertConflict, Authorize, PreSubmitCancel, Submit,
         SubmitAmbiguous, Response, ApplyDeferred, Finish, Crash, PersistOutcome, execVars
    <3> QED BY <3>1, <3>2, MarksStay
  <2> QED BY <2>1, ApplyMarks
<1>2. SeenInv'
  <2>1. UNCHANGED <<res, rec>> BY WorkerAlone DEF OthersStay
  <2>2. res.pc = "snapped" \/ rec.pc = "held" => ~Critical(w)
    BY ActorsAssumption DEF LockedInv, LockInv
  <2>3. ~Critical(w) => \A e \in Execs : execState'[e] = execState[e]
    BY WorkerRows DEF LockedInv, RowMoves
  <2> QED BY <2>1, <2>2, <2>3 DEF SeenInv
<1> QED BY <1>1, <1>2

(* The resolver marks with what it saw under the lock.                       *)
LEMMA ResolverMarks ==
    ASSUME TypeOK, LockedInv, FillInv, MarkInv, SeenInv, Protected, ResolverStep
    PROVE  MarkInv' /\ SeenInv'
<1>t. res \in Resolutions /\ (res.pc # "idle" => res.exec \in Execs)
      /\ execState \in [Execs -> ExecStates]
  BY DEF TypeOK, MaintenanceOK, ExecsOK
<1>1. UNCHANGED <<rec, execApplied>>
  BY DEF ResolverStep, ResolveQuery, ResolveSnapshot, ResolveUnverified, ResolveNotFilled,
         ResolveFilled, Quarantine, ResolveSkip, PersistOutcome, execVars
<1>2. rec.pc = "held" => res.pc = "idle" BY ActorsAssumption DEF LockedInv, LockInv
<1>3. \A e \in Execs : execState[e] = "FILLED" => e \in Landed BY DEF FillInv, Landed
<1>4. CASE \/ (\E e \in Execs : ResolveQuery(e)) \/ ResolveSnapshot \/ ResolveUnverified
           \/ ResolveSkip
  <2>1. UNCHANGED <<ledger, execState>>
    BY <1>4 DEF ResolveQuery, ResolveSnapshot, ResolveUnverified, ResolveSkip, execVars
  <2>2. MarkInv' BY <1>1, <2>1, MarksStay
  <2>3. res'.pc = "snapped" => res'.seen = Landed /\ (res'.out = "FILLED" => res'.exec \in Landed)
    <3>1. ASSUME NEW e \in Execs, ResolveQuery(e) PROVE res'.pc = "queried"
      BY <3>1 DEF ResolveQuery, ResIdle
    <3>2. CASE ResolveSnapshot BY <1>t, <3>2 DEF ResolveSnapshot, Resolutions, FillInv
    <3>3. CASE ResolveUnverified BY <1>t, <3>3 DEF ResolveUnverified, Resolutions
    <3>4. CASE ResolveSkip BY <3>4 DEF ResolveSkip, ResIdle
    <3> QED BY <1>4, <3>1, <3>2, <3>3, <3>4
  <2>4. SeenInv' BY <1>1, <1>3, <2>1, <2>3 DEF SeenInv
  <2> QED BY <2>2, <2>4
<1>5. CASE ResolveNotFilled \/ ResolveFilled \/ Quarantine
  <2>1. SeenInv'
    BY <1>1, <1>2, <1>5 DEF ResolveNotFilled, ResolveFilled, Quarantine, ResIdle, SeenInv
  <2>2. MarkInv'
    <3>1. CASE ResolveNotFilled
      <4>1. UNCHANGED ledger BY <3>1 DEF ResolveNotFilled
      <4> QED BY <1>1, <4>1, MarksStay
    <3>2. CASE ResolveFilled \/ Quarantine
      <4>1. res.pc = "snapped" /\ res.exec \in Execs /\ SyncLedger(res.snap, res.exec, res.seen)
        BY <1>t, <3>2 DEF ResolveFilled, Quarantine
      <4>2. res.exec \in Contained'
        <5>1. \/ execState'[res.exec] = "FILLED" /\ res.out = "FILLED"
              \/ execState'[res.exec] = "QUARANTINED"
          BY <1>t, <3>2, <4>1 DEF ResolveFilled, Quarantine, PersistOutcome
        <5>2. res.exec \in res.seen => counted'[res.exec] > 0 BY <4>1 DEF SyncLedger
        <5> QED BY <4>1, <5>1, <5>2 DEF SeenInv, Contained
      <4> QED BY <1>1, <4>1, <4>2, SyncMarks DEF SeenInv
    <3> QED BY <1>5, <3>1, <3>2
  <2> QED BY <2>1, <2>2
<1> QED BY <1>4, <1>5 DEF ResolverStep

(* So does the reconciler.                                                   *)
LEMMA ReconcilerMarks ==
    ASSUME TypeOK, LockedInv, FillInv, MarkInv, SeenInv, Protected, ReconcilerStep
    PROVE  MarkInv' /\ SeenInv'
<1>t. rec \in Reconciliations BY DEF TypeOK, MaintenanceOK
<1>1. UNCHANGED <<res, execState, execApplied>>
  BY DEF ReconcilerStep, ReconcileStart, ReconcileMaster, ReconcileSnapshot, ReconcileCommit,
         ReconcileAbort, execVars
<1>3. \A e \in Execs : execState[e] = "FILLED" => e \in Landed BY DEF FillInv, Landed
<1>4. CASE ReconcileCommit
  <2>1. rec.pc = "held" /\ rec'.pc = "idle" /\ SyncLedger(rec.snap, ledger.last, rec.seen)
    BY <1>4 DEF ReconcileCommit, RecIdle
  <2>2. ledger.last \in Execs => ledger.last \in Contained'
    BY DEF MarkInv, Contained, Protected, OutcomeStays, FillsStay
  <2>3. MarkInv' BY <1>1, <2>1, <2>2, SyncMarks DEF SeenInv
  <2> QED BY <1>1, <2>1, <2>3 DEF SeenInv
<1>5. CASE ReconcileStart \/ ReconcileMaster \/ ReconcileSnapshot \/ ReconcileAbort
  <2>1. UNCHANGED ledger
    BY <1>5 DEF ReconcileStart, ReconcileMaster, ReconcileSnapshot, ReconcileAbort
  <2>2. rec'.pc = "held" => rec'.seen = Landed
    <3>1. CASE ReconcileStart
      <4>1. \/ rec' = [RecIdle EXCEPT !.pc = "started"]
            \/ rec' = [RecIdle EXCEPT !.pc = "started", !.order = causal + 1]
        BY <3>1 DEF ReconcileStart
      <4>2. rec'.pc = "started" BY <4>1 DEF RecIdle
      <4> QED BY <4>2
    <3>2. CASE ReconcileMaster BY <1>t, <3>2 DEF ReconcileMaster, Reconciliations
    <3>3. CASE ReconcileSnapshot BY <1>t, <3>3 DEF ReconcileSnapshot, Reconciliations
    <3>4. CASE ReconcileAbort BY <3>4 DEF ReconcileAbort, RecIdle
    <3> QED BY <1>5, <3>1, <3>2, <3>3, <3>4
  <2>3. SeenInv' BY <1>1, <1>3, <2>2 DEF SeenInv
  <2> QED BY <1>1, <2>1, <2>3, MarksStay
<1> QED BY <1>4, <1>5 DEF ReconcilerStep

(* Every step keeps the marks right.                                         *)
LEMMA NextMarks ==
    ASSUME MaxLockLoss = 0, TypeOK, SubmissionInv, LockedInv, FillInv, LedgerInv, MarkInv, SeenInv,
           [Next]_vars
    PROVE  MarkInv' /\ SeenInv'
<1>1. Protected BY NextProtected
<1>2. ~LoseLock BY DEF LoseLock, TypeOK, SourcesOK
<1>3. CASE \/ (\E p \in Positions : MasterMove(p)) \/ CloseNothing
           \/ (\E j \in Jobs : JobStep(j)) \/ ExchangeStep \/ UNCHANGED vars
  <2>1. UNCHANGED <<ledger, execState, execApplied, res, rec>>
    BY <1>3 DEF MasterMove, CloseNothing, JobStep, MasterFill, ClosePositions, Publish,
                ExpireStrategyJob, ReleaseStale, ExchangeStep, Fill, NotFilled, ManualTrade,
                vars, execVars
  <2>2. SeenInv' BY <2>1 DEF SeenInv
  <2> QED BY <1>1, <2>1, <2>2, MarksStay
<1> QED BY <1>1, <1>2, <1>3, WorkerMarks, ResolverMarks, ReconcilerMarks DEF Next

(* At first nothing is marked.                                               *)
LEMMA InitMarks == Init => MarkInv /\ SeenInv
<1>1. NoExec \notin Execs BY DEF NoExec, Execs, Jobs
<1> QED BY <1>1 DEF Init, MarkInv, SeenInv, ResIdle, RecIdle

-----------------------------------------------------------------------------
(* No fill twice, for one job.                                               *)
(* That the ledger is at the size a leg started from does not yet say that   *)
(* the fill of the leg is missing: for two jobs it may not be. One job never *)
(* comes back to the position its leg started from.                          *)

OnceInv ==
    /\ \A e \in Execs : counted[e] <= 1
    /\ execState[OpenRow] # "none" /\ xfill[CloseRow] # 0 => counted[CloseRow] = 1
    /\ \A w \in Workers : pc[w] \in {"leg", "insert"} => wk[w].leg.before = wk[w].led.size

(* The sum over the two executions of one job.                               *)
LEMMA SingleSum ==
    ASSUME MaxJobs = 1, TypeOK
    PROVE  SumFunction(Uncounted) = (1 - counted[CloseRow]) * xfill[CloseRow]
                                  + (1 - counted[OpenRow]) * xfill[OpenRow]
<1> DEFINE f == Uncounted
           g == [e \in Execs |-> 0]
           h == [e \in Execs |-> IF e = CloseRow THEN f[e] ELSE 0]
<1>1. f \in [Execs -> Int] /\ g \in [Execs -> Int] BY GapsTyped
<1>2. h \in [Execs -> Int] BY <1>1
<1>3. SumFunction(g) = 0
  <2>1. \A e \in Execs : g[e] = 0 OBVIOUS
  <2> HIDE DEF g
  <2> QED BY <1>1, <2>1, ExecsFinite, SumZero
<1>4. CloseRow \in Execs /\ OpenRow \in Execs /\ CloseRow # OpenRow
      /\ \A e \in Execs : e = CloseRow \/ e = OpenRow
  BY OneJob
<1>5. /\ \A e \in Execs \ {CloseRow} : h[e] = g[e]
      /\ g[CloseRow] = 0 /\ h[CloseRow] = f[CloseRow]
      /\ \A e \in Execs \ {OpenRow} : f[e] = h[e]
      /\ h[OpenRow] = 0
  BY <1>4
<1>6. f[CloseRow] = (1 - counted[CloseRow]) * xfill[CloseRow]
      /\ f[OpenRow] = (1 - counted[OpenRow]) * xfill[OpenRow]
      /\ f[CloseRow] \in Int /\ f[OpenRow] \in Int
  BY <1>1, <1>4 DEF Uncounted
<1> HIDE DEF f, g, h
<1>7. SumFunction(h) = SumFunction(g) + h[CloseRow] - g[CloseRow]
  BY <1>1, <1>2, <1>4, <1>5, ExecsFinite, SumChange
<1>8. SumFunction(f) = SumFunction(h) + f[OpenRow] - h[OpenRow]
  BY <1>1, <1>2, <1>4, <1>5, ExecsFinite, SumChange
<1>9. SumFunction(f) = f[CloseRow] + f[OpenRow] BY <1>3, <1>5, <1>6, <1>7, <1>8
<1> QED BY <1>6, <1>9 DEF f

(* The gap of the ledger, by what is counted.                                *)
LEMMA GapCases ==
    ASSUME MaxJobs = 1, TypeOK, LedgerInv, OnceInv
    PROVE  LET gap == pos - ledger.size
               xc == xfill[CloseRow]
               xo == xfill[OpenRow] IN
           /\ counted[CloseRow] \in {0, 1} /\ counted[OpenRow] \in {0, 1}
           /\ counted[CloseRow] = 0 /\ counted[OpenRow] = 0 => gap = xc + xo
           /\ counted[CloseRow] = 1 /\ counted[OpenRow] = 0 => gap = xo
           /\ counted[CloseRow] = 0 /\ counted[OpenRow] = 1 => gap = xc
           /\ counted[CloseRow] = 1 /\ counted[OpenRow] = 1 => gap = 0
<1>1. counted[CloseRow] \in {0, 1} /\ counted[OpenRow] \in {0, 1}
  BY OneJob DEF TypeOK, LedgerOK, OnceInv
<1>2. pos - ledger.size = (1 - counted[CloseRow]) * xfill[CloseRow]
                        + (1 - counted[OpenRow]) * xfill[OpenRow]
  BY SingleSum DEF LedgerInv
<1>3. xfill[CloseRow] \in Int /\ xfill[OpenRow] \in Int BY NumbersTyped
<1>4. \A x \in Int : (1 - 0) * x = x /\ (1 - 1) * x = 0 OBVIOUS
<1> QED BY <1>1, <1>2, <1>3, <1>4

(* _apply_fill_to_ledger adds a fill only to a ledger without it.            *)
LEMMA AppliedOnce ==
    ASSUME MaxJobs = 1, TypeOK, SubmissionInv, FillInv, RowInv, SingleInv, LedgerInv, OnceInv,
           NEW e \in Execs, execState[e] = "FILLED", ledger.size = execLeg[e].before
    PROVE  counted[e] = 0
<1> DEFINE xc == xfill[CloseRow]
           xo == xfill[OpenRow]
<1>n. /\ pos = Closed + xo /\ Closed = Base + xc /\ Base \in Int /\ Closed \in Int
      /\ Target \in Int /\ xc \in Int /\ xo \in Int /\ pos \in Int
  BY NumbersTyped
<1>1. order[e] = "filled" /\ xfill[e] \in Trimmed(execLeg[e].delta)
  BY DEF FillInv, RowInv
<1>2. execLeg[e].delta \in Int BY DEF TypeOK, ExecsOK, Legs
<1>3. xfill[e] # 0 BY <1>1, <1>2 DEF Trimmed
<1>4. Progress(Base, xc, xo, Target) BY RowsProgress DEF SingleInv
<1>g. /\ counted[CloseRow] \in {0, 1} /\ counted[OpenRow] \in {0, 1}
      /\ counted[CloseRow] = 0 /\ counted[OpenRow] = 0 => pos - ledger.size = xc + xo
      /\ counted[CloseRow] = 1 /\ counted[OpenRow] = 0 => pos - ledger.size = xo
      /\ counted[CloseRow] = 0 /\ counted[OpenRow] = 1 => pos - ledger.size = xc
      /\ counted[CloseRow] = 1 /\ counted[OpenRow] = 1 => pos - ledger.size = 0
  BY GapCases
<1>5. CASE e = CloseRow
  <2>1. ledger.size = Base BY <1>5 DEF SingleInv, RowLegs, Fits, CloseLeg
  <2>2. xc # 0 /\ Reversing(Base, Target) BY <1>3, <1>4, <1>5 DEF Progress
  <2>3. xc + xo # 0
    <3>1. CASE xo = 0 BY <1>n, <2>2, <3>1
    <3>2. CASE xo # 0
      <4>1. Base + xc = 0 BY <1>4, <2>2, <3>2 DEF Progress
      <4>2. PICK d \in PrimaryDeltas(0, Target) : xo \in Trimmed(d)
        BY <1>4, <3>2, <4>1 DEF Progress
      <4>3. d \in Trimmed(Target) BY <1>n, <4>2 DEF PrimaryDeltas, Reversing, ReduceOnly
      <4>4. d \in Int /\ (Target > 0 => d > 0) /\ (Target < 0 => d < 0)
        BY <1>n, <4>3 DEF Trimmed
      <4>5. (Target > 0 => xo > 0) /\ (Target < 0 => xo < 0)
        BY <1>n, <4>2, <4>4 DEF Trimmed
      <4>6. Target # 0 /\ (Target > 0 => xc > 0) /\ (Target < 0 => xc < 0)
        BY <1>n, <2>2, <4>1 DEF Reversing
      <4> QED BY <1>n, <4>5, <4>6
    <3> QED BY <3>1, <3>2
  <2> HIDE DEF xc, xo
  <2> QED BY <1>5, <1>g, <1>n, <2>1, <2>2, <2>3
<1>6. CASE e = OpenRow
  <2>1. ledger.size = Closed BY <1>6 DEF SingleInv, RowLegs, Fits, OpenLeg
  <2>2. xo # 0 /\ (xc # 0 => counted[CloseRow] = 1) BY <1>3, <1>6 DEF OnceInv
  <2> HIDE DEF xc, xo
  <2> QED BY <1>6, <1>g, <1>n, <2>1, <2>2
<1> QED BY <1>5, <1>6, OneJob

(* _apply_fill_to_ledger counts a fill at most once, and the open leg after  *)
(* a flattened close leg starts from an empty ledger.                        *)
LEMMA ApplyOnce ==
    ASSUME MaxJobs = 1, TypeOK, SubmissionInv, FillInv, RowInv, SingleInv, LedgerInv, OnceInv,
           NEW w \in Workers, ApplyFill(w)
    PROVE  /\ \A e \in Execs : counted'[e] <= 1
           /\ pc'[w] \in {"leg", "insert"} => wk'[w].leg.before = wk'[w].led.size
<1> DEFINE e    == ExecOf(w)
           led  == wk[w].led
           mode == ApplyMode(e, led)
           size == IF mode = "applied" THEN execLeg[e].before + execFill[e] ELSE led.size
           new  == IF mode = "done" THEN led ELSE [led EXCEPT !.size = size, !.last = e]
           flat == Flattened(execFill[e], wk[w].leg.delta, size)
           next(d) == [wk EXCEPT ![w].led = new, ![w].kind = "o",
                                 ![w].leg = [delta |-> d, reduceOnly |-> FALSE,
                                             before |-> 0, last |-> new.last]]
<1>1. e \in Execs /\ led = ledger /\ execState[e] = "FILLED"
  BY OneJob DEF ApplyFill, LedgerInv, CopyInv, Planned
<1>t. /\ counted \in [Execs -> Nat] /\ wk \in [Workers -> Works] /\ pc \in [Workers -> PCs]
      /\ led \in Ledgers
  BY DEF TypeOK, LedgerOK, WorkersOK, Works
<1>2. mode = "applied" => led.size = execLeg[e].before BY DEF ApplyMode
<1>3. /\ IF mode = "done" THEN UNCHANGED counted
         ELSE counted' = [counted EXCEPT ![e] = IF mode = "applied" THEN counted[e] + 1
                                                ELSE counted[e]]
      /\ \/ flat /\ \E d \in Trimmed(intent[wk[w].job].target) : wk' = next(d)
         \/ \E r \in Results : GoFinish(w, r)
  BY DEF ApplyFill
<1>4. new.size = size \/ (mode = "done" /\ new = led /\ size = led.size)
  BY <1>t DEF Ledgers
<1> HIDE DEF mode, led, e, size, new
<1>5. \A x \in Execs : counted'[x] <= 1
  <2>1. CASE mode = "applied"
    <3>1. counted[e] = 0 BY <1>1, <1>2, <2>1, AppliedOnce
    <3> QED BY <1>1, <1>3, <1>t, <2>1, <3>1 DEF OnceInv
  <2>2. CASE mode # "applied" BY <1>1, <1>3, <1>t, <2>2 DEF OnceInv
  <2> QED BY <2>1, <2>2
<1>6. ASSUME pc'[w] \in {"leg", "insert"} PROVE wk'[w].leg.before = wk'[w].led.size
  <2>1. ~\E r \in Results : GoFinish(w, r) BY <1>6, <1>t DEF GoFinish
  <2>2. flat /\ \E d \in Trimmed(intent[wk[w].job].target) : wk' = next(d) BY <1>3, <2>1
  <2>3. PICK d \in Trimmed(intent[wk[w].job].target) : wk' = next(d) BY <2>2
  <2>4. wk'[w].led = new
        /\ wk'[w].leg = [delta |-> d, reduceOnly |-> FALSE, before |-> 0, last |-> new.last]
    BY <1>t, <2>3 DEF Works
  <2>5. size = 0 BY <2>2 DEF Flattened
  <2>6. new.size = 0 BY <1>4, <2>5
  <2> QED BY <2>4, <2>6
<1> QED BY <1>5, <1>6

(* The row of the open leg is inserted only when the ledger contains the     *)
(* fill of the close leg.                                                    *)
LEMMA InsertCounted ==
    ASSUME MaxJobs = 1, TypeOK, SubmissionInv, FillInv, RowInv, SingleInv, LedgerInv, OnceInv,
           NEW w \in Workers, InsertExecution(w), ExecOf(w) = OpenRow, xfill[CloseRow] # 0
    PROVE  counted[CloseRow] = 1
<1>1. pc[w] = "insert" /\ execState[OpenRow] = "none" BY DEF InsertExecution, NoRow
<1>2. wk[w].kind = "o" BY <1>1, OneJob
<1>3. OpenLeg(wk[w].leg, Base, Closed, Target) BY <1>1, <1>2 DEF SingleInv, WorkerLegs, Fits
<1>4. wk[w].leg.before = wk[w].led.size /\ wk[w].led = ledger
  BY <1>1 DEF OnceInv, LedgerInv, CopyInv, Planned
<1>5. ledger.size = Closed BY <1>3, <1>4 DEF OpenLeg
<1>6. xfill[OpenRow] = 0 BY <1>1, OneJob DEF SubmissionInv, FillInv
<1>7. pos = Closed + xfill[OpenRow] /\ Closed \in Int /\ xfill[CloseRow] \in Int /\ pos \in Int
  BY NumbersTyped
<1>8. pos - ledger.size = 0 BY <1>5, <1>6, <1>7
<1> DEFINE xc == xfill[CloseRow]
           xo == xfill[OpenRow]
<1>9. /\ counted[CloseRow] \in {0, 1} /\ counted[OpenRow] \in {0, 1}
      /\ counted[CloseRow] = 0 /\ counted[OpenRow] = 0 => pos - ledger.size = xc + xo
      /\ counted[CloseRow] = 0 /\ counted[OpenRow] = 1 => pos - ledger.size = xc
  BY GapCases
<1> HIDE DEF xc, xo
<1>10. xc # 0 /\ xo = 0 /\ xc \in Int BY <1>6, <1>7 DEF xc, xo
<1> QED BY <1>8, <1>9, <1>10

(* The fill of the close leg stays counted.                                  *)
LEMMA StaysCounted ==
    ASSUME MaxJobs = 1, TypeOK, TypeOK', SubmissionInv, FillInv, OnceInv, Protected, UNCHANGED xfill,
           \A e \in Execs : counted'[e] <= 1,
           execState'[OpenRow] # "none" /\ xfill[CloseRow] # 0 =>
               execState[OpenRow] # "none" \/ counted[CloseRow] = 1
    PROVE  execState'[OpenRow] # "none" /\ xfill'[CloseRow] # 0 => counted'[CloseRow] = 1
<1> SUFFICES ASSUME execState'[OpenRow] # "none", xfill[CloseRow] # 0 PROVE counted'[CloseRow] = 1
  OBVIOUS
<1>1. counted[CloseRow] = 1 BY DEF OnceInv
<1>2. CloseRow \in Execs BY OneJob
<1>3. counted'[CloseRow] > 0 /\ counted'[CloseRow] <= 1 BY <1>1, <1>2 DEF Protected, FillsStay
<1>4. counted'[CloseRow] \in Nat BY <1>2 DEF TypeOK, LedgerOK
<1> QED BY <1>3, <1>4

(* A worker under the lock.                                                  *)
LEMMA WorkerOnce ==
    ASSUME MaxJobs = 1, TypeOK, SubmissionInv, FillInv, RowInv, SingleInv, LedgerInv, OnceInv,
           Protected, NEW w \in Workers, WorkerStep(w) \/ Crash(w)
    PROVE  OnceInv'
<1>n. TypeOK' BY NextTyped DEF Next
<1>t. wk \in [Workers -> Works] /\ pc \in [Workers -> PCs] BY DEF TypeOK, WorkersOK
<1>1. UNCHANGED xfill BY WorkerCopies DEF LedgerInv
<1>2. \A e \in Execs : counted'[e] <= 1
  <2>1. CASE ApplyFill(w) BY <2>1, ApplyOnce
  <2>2. CASE ~ApplyFill(w)
    <3>1. UNCHANGED counted
      BY <2>2 DEF WorkerStep, Claim, AcquireLock, ClaimLost, Decline, Plan, LegFresh, LegStored,
         LegResolve, InsertExecution, InsertConflict, Authorize, PreSubmitCancel, Submit,
         SubmitAmbiguous, Response, ApplyDeferred, Finish, Crash
    <3> QED BY <3>1 DEF OnceInv
  <2> QED BY <2>1, <2>2
<1>3. (execState[OpenRow] # "none" /\ xfill[CloseRow] # 0 => counted[CloseRow] = 1)'
  <2>1. CASE InsertExecution(w)
    <3>1. CASE ExecOf(w) = OpenRow
      <4>1. xfill[CloseRow] # 0 => counted[CloseRow] = 1 BY <2>1, <3>1, InsertCounted
      <4> QED BY <1>1, <1>2, <1>n, <4>1, StaysCounted
    <3>2. CASE ExecOf(w) # OpenRow
      <4>1. execState'[OpenRow] # "none" => execState[OpenRow] # "none"
        BY <2>1, <3>2, WorkerKeeps, OneJob DEF RowsKept
      <4> QED BY <1>1, <1>2, <1>n, <4>1, StaysCounted
    <3> QED BY <3>1, <3>2
  <2>2. CASE ~InsertExecution(w)
    <3>1. execState'[OpenRow] # "none" => execState[OpenRow] # "none"
      BY <2>2, WorkerKeeps, OneJob DEF RowsKept
    <3> QED BY <1>1, <1>2, <1>n, <3>1, StaysCounted
  <2> QED BY <2>1, <2>2
<1>4. pc'[w] \in {"leg", "insert"} => wk'[w].leg.before = wk'[w].led.size
  <2>1. CASE ApplyFill(w) BY <2>1, ApplyOnce
  <2>2. CASE Plan(w)
    <3>1. wk'[w].led = ledger /\ wk'[w].leg.before = ledger.size BY <1>t, <2>2 DEF Plan, Works
    <3> QED BY <3>1
  <2>3. CASE ~Plan(w) /\ ~ApplyFill(w) BY <2>3, RecordKept DEF OnceInv, Planned
  <2> QED BY <2>1, <2>2, <2>3
<1>5. \A v \in Workers \ {w} : pc'[v] = pc[v] /\ wk'[v] = wk[v] BY WorkerAlone DEF OthersStay
<1>6. (\A v \in Workers : pc[v] \in {"leg", "insert"} => wk[v].leg.before = wk[v].led.size)'
  BY <1>4, <1>5 DEF OnceInv
<1> QED BY <1>2, <1>3, <1>6 DEF OnceInv

(* The others: snapshots count each fill once, and no fill of the close leg  *)
(* comes after the row of the open leg.                                      *)
LEMMA OthersOnce ==
    ASSUME MaxJobs = 1, TypeOK, SubmissionInv, FillInv, RowInv, SingleInv, OnceInv, Protected,
           \/ ResolverStep \/ ReconcilerStep \/ CloseNothing
           \/ (\E e \in Execs : Fill(e) \/ NotFilled(e))
           \/ (\E p \in Positions : MasterMove(p)) \/ (\E j \in Jobs : JobStep(j))
           \/ UNCHANGED vars
    PROVE  OnceInv'
<1>n. [Next]_vars /\ TypeOK' BY NextTyped DEF Next, ExchangeStep
<1>1. UNCHANGED <<pc, wk>>
  BY DEF MasterMove, CloseNothing, JobStep, MasterFill, ClosePositions, Publish,
         ExpireStrategyJob, ReleaseStale, ReconcilerStep, ReconcileStart,
         ReconcileMaster, ReconcileSnapshot, ReconcileCommit, ReconcileAbort,
         ResolverStep, ResolveQuery, ResolveSnapshot, ResolveUnverified,
         ResolveNotFilled, ResolveFilled, Quarantine, ResolveSkip, Fill, NotFilled, vars
<1>2. \A e \in Execs : counted'[e] <= 1
  <2>1. CASE ReconcileCommit \/ ResolveFilled \/ Quarantine
    <3>1. \E seen : counted' = [e \in Execs |-> IF e \in seen THEN 1 ELSE 0]
      BY <2>1 DEF ReconcileCommit, ResolveFilled, Quarantine, SyncLedger
    <3> QED BY <3>1
  <2>2. CASE ~(ReconcileCommit \/ ResolveFilled \/ Quarantine)
    <3>1. UNCHANGED counted
      BY <2>2 DEF MasterMove, CloseNothing, JobStep, MasterFill, ClosePositions, Publish,
         ExpireStrategyJob, ReleaseStale, ReconcilerStep, ReconcileStart,
         ReconcileMaster, ReconcileSnapshot, ReconcileAbort,
         ResolverStep, ResolveQuery, ResolveSnapshot, ResolveUnverified,
         ResolveNotFilled, ResolveSkip, Fill, NotFilled, vars
    <3> QED BY <3>1 DEF OnceInv
  <2> QED BY <2>1, <2>2
<1>3. (execState[OpenRow] # "none" /\ xfill[CloseRow] # 0 => counted[CloseRow] = 1)'
  <2>1. execState'[OpenRow] # "none" => execState[OpenRow] # "none"
    BY OthersKeep, OneJob DEF RowsKept, ExchangeStep
  <2>2. CASE UNCHANGED xfill BY <1>2, <1>n, <2>1, <2>2, StaysCounted
  <2>3. ASSUME NEW e \in Execs, Fill(e)
        PROVE  (execState[OpenRow] # "none" /\ xfill[CloseRow] # 0 => counted[CloseRow] = 1)'
    <3>1. order[e] = "wire" /\ UNCHANGED counted /\ \E f : xfill' = [xfill EXCEPT ![e] = f]
      BY <2>3 DEF Fill
    <3>2. CASE e = CloseRow
      <4>1. execState[OpenRow] = "none" BY <3>1, <3>2, WireLegs
      <4> QED BY <2>1, <4>1
    <3>3. CASE e = OpenRow
      <4>1. xfill'[CloseRow] = xfill[CloseRow] BY <3>1, <3>3, OneJob DEF TypeOK, ExchangeOK
      <4> QED BY <2>1, <3>1, <4>1 DEF OnceInv
    <3> QED BY <3>2, <3>3, OneJob
  <2>4. (\A e \in Execs : ~Fill(e)) => UNCHANGED xfill
    BY DEF MasterMove, CloseNothing, JobStep, MasterFill, ClosePositions, Publish,
         ExpireStrategyJob, ReleaseStale, ReconcilerStep, ReconcileStart,
         ReconcileMaster, ReconcileSnapshot, ReconcileCommit, ReconcileAbort,
         ResolverStep, ResolveQuery, ResolveSnapshot, ResolveUnverified,
         ResolveNotFilled, ResolveFilled, Quarantine, ResolveSkip, NotFilled, vars, exchVars
  <2> QED BY <2>2, <2>3, <2>4
<1> QED BY <1>1, <1>2, <1>3 DEF OnceInv

(* Every step keeps the count at one.                                        *)
LEMMA NextOnce ==
    ASSUME MaxJobs = 1, MaxLockLoss = 0, MaxManual = 0, TypeOK, SubmissionInv, LockedInv, FillInv,
           LedgerInv, RowInv, SingleInv, OnceInv, [Next]_vars
    PROVE  OnceInv'
<1>1. Protected BY NextProtected
<1>2. ~LoseLock /\ ~ManualTrade BY DEF LoseLock, ManualTrade, TypeOK, SourcesOK
<1> QED BY <1>1, <1>2, WorkerOnce, OthersOnce DEF Next, ExchangeStep

(* At first nothing is counted and nobody is at a leg.                       *)
LEMMA InitOnce == ASSUME MaxJobs = 1 PROVE Init => OnceInv
BY OneJob DEF Init, OnceInv

(* All of it together, for one job under its lock.                           *)
LEMMA OnceInvariance ==
    ASSUME MaxJobs = 1, MaxLockLoss = 0, MaxManual = 0
    PROVE  Spec => [](TypeOK /\ MarkInv /\ OnceInv)
<1> DEFINE I == /\ TypeOK /\ SubmissionInv /\ LockedInv /\ FillInv /\ LedgerInv
                /\ RowInv /\ SingleInv /\ MarkInv /\ SeenInv /\ OnceInv
<1>1. Init => I
  BY InitTyped, InitSubmission, InitLocked, InitFills, InitExplained, InitRows, InitSingle,
     InitMarks, InitOnce
<1>2. I /\ [Next]_vars => I'
  <2> SUFFICES ASSUME I, [Next]_vars PROVE I' OBVIOUS
  <2>1. TypeOK' /\ SubmissionInv' /\ FillInv' /\ RowInv'
    BY NextTyped, NextSubmission, NextFills, NextRows
  <2>2. LockedInv' /\ LedgerInv' BY NextProtected, NextExplained DEF Protected
  <2>3. SingleInv' /\ MarkInv' /\ SeenInv' /\ OnceInv' BY NextSingle, NextMarks, NextOnce
  <2> QED BY <2>1, <2>2, <2>3
<1> HIDE DEF I
<1>3. Spec => []I BY <1>1, <1>2, PTL DEF Spec
<1>4. I => TypeOK /\ MarkInv /\ OnceInv BY DEF I
<1> QED BY <1>3, <1>4, PTL

(* _apply_fill_to_ledger, ledger_applied_at: a fill marked as applied is in  *)
(* the ledger exactly once, whatever crashes, retries and snapshots come     *)
(* between.                                                                  *)
THEOREM AppliedCountedOnce ==
    ASSUME MaxJobs = 1, MaxLockLoss = 0, MaxManual = 0 PROVE Spec => []AppliedIsContained
<1>1. TypeOK /\ MarkInv /\ OnceInv => AppliedIsContained
  <2> SUFFICES ASSUME TypeOK, MarkInv, OnceInv, NEW e \in execApplied PROVE counted[e] = 1
    BY DEF AppliedIsContained
  <2>1. e \in Execs /\ counted[e] \in Nat BY DEF TypeOK, ExecsOK, LedgerOK
  <2>2. counted[e] > 0 /\ counted[e] <= 1 BY <2>1 DEF MarkInv, OnceInv
  <2> QED BY <2>1, <2>2
<1> QED BY <1>1, OnceInvariance, PTL

-----------------------------------------------------------------------------
(* Exposure.                                                                 *)
(* When only the reconciler makes jobs, one job at a time is acted for. A    *)
(* job that may open is created from a snapshot with nothing unresolved, one *)
(* that meets something unresolved only reduces. So at most one order that   *)
(* opens is under way, and it was sized for a position from which it stays   *)
(* in range; all others only reduce.                                         *)

Reach == Positions \cup StartSizes

(* In range: what master and follower may hold, m trades by hand beyond it.  *)
Within(n, m) == \E p \in Reach : Abs(n) <= Abs(p) + m

(* A position p has space for a fill of up to d.                             *)
Space(d, p, m) == Within(d, m) /\ Within(p + d, m)

(* A position p has room for what is planned from size to tgt.               *)
Room(size, tgt, p, m) ==
    /\ Reversing(size, tgt) => Within(p + tgt, m)
    /\ ~ReduceOnly(size, tgt) => Within(p + tgt - size, m)

(* Sizes are integers.                                                       *)
LEMMA ReachTyped == Reach \subseteq Int
BY PositionsAssumption DEF Reach

(* Between two sizes in range every size is in range.                        *)
LEMMA WithinBetween ==
    ASSUME NEW a \in Int, NEW b \in Int, NEW c \in Int, NEW m \in Nat,
           Within(a, m), Within(b, m), (a <= c /\ c <= b) \/ (b <= c /\ c <= a)
    PROVE  Within(c, m)
<1>1. PICK p \in Reach : Abs(a) <= Abs(p) + m BY DEF Within
<1>2. PICK q \in Reach : Abs(b) <= Abs(q) + m BY DEF Within
<1>3. p \in Int /\ q \in Int BY ReachTyped
<1>4. Abs(c) <= Abs(a) \/ Abs(c) <= Abs(b) BY DEF Abs
<1>5. Abs(a) \in Nat /\ Abs(b) \in Nat /\ Abs(c) \in Nat /\ Abs(p) \in Nat /\ Abs(q) \in Nat
  BY <1>3 DEF Abs
<1>6. Abs(c) <= Abs(p) + m \/ Abs(c) <= Abs(q) + m BY <1>1, <1>2, <1>4, <1>5
<1> QED BY <1>6 DEF Within

(* Targets are in range, and so is what is smaller.                          *)
LEMMA WithinReach ==
    ASSUME NEW t \in Reach, NEW n \in Int, NEW m \in Nat, Abs(n) <= Abs(t)
    PROVE  Within(n, m)
<1>1. t \in Int BY ReachTyped
<1>2. Abs(n) <= Abs(t) + m BY <1>1 DEF Abs
<1> QED BY <1>2 DEF Within

(* One more trade by hand, one lot more.                                     *)
LEMMA WithinTrade ==
    ASSUME NEW n \in Int, NEW k \in Int, NEW m \in Nat, Within(n, m), k \in {n - 1, n, n + 1}
    PROVE  Within(k, m + 1)
<1>1. PICK p \in Reach : Abs(n) <= Abs(p) + m BY DEF Within
<1>2. p \in Int BY ReachTyped
<1>3. Abs(k) <= Abs(p) + (m + 1) BY <1>1, <1>2 DEF Abs
<1> QED BY <1>3 DEF Within

(* A snapshot of now has room for every target.                              *)
LEMMA RoomNow ==
    ASSUME NEW p \in Int, NEW m \in Nat, Within(p, m), NEW t \in Reach
    PROVE  Room(p, t, p, m)
<1>0. t \in Int /\ Abs(t) <= Abs(t) BY ReachTyped DEF Abs
<1>1. t \in Int /\ Within(t, m) BY <1>0, WithinReach
<1>2. ASSUME Reversing(p, t) PROVE Within(p + t, m)
  <2>1. (p <= p + t /\ p + t <= t) \/ (t <= p + t /\ p + t <= p)
    BY <1>1, <1>2 DEF Reversing
  <2> QED BY <1>1, <2>1, WithinBetween
<1>3. p + t - p = t BY <1>1
<1> QED BY <1>1, <1>2, <1>3 DEF Room

(* A plan that does not reduce asks for at most its target.                  *)
LEMMA OpensLess ==
    ASSUME NEW size \in Int, NEW t \in Reach, NEW m \in Nat, ~ReduceOnly(size, t)
    PROVE  Within(t - size, m) /\ t \in Int
<1>1. t \in Int BY ReachTyped
<1>2. Abs(t - size) <= Abs(t) BY <1>1 DEF ReduceOnly, Reversing, Abs
<1> QED BY <1>1, <1>2, WithinReach

(* A reduction of the position takes neither room nor space.                 *)
LEMMA RoomReduced ==
    ASSUME NEW size \in Int, NEW t \in Reach, NEW p \in Int, NEW q \in Int, NEW m \in Nat,
           (0 <= q /\ q <= p) \/ (p <= q /\ q <= 0), Room(size, t, p, m)
    PROVE  Room(size, t, q, m)
<1>0. t \in Int /\ Abs(t) <= Abs(t) BY ReachTyped DEF Abs
<1>1. t \in Int /\ Within(t, m) BY <1>0, WithinReach
<1>2. ASSUME Reversing(size, t) PROVE Within(q + t, m)
  <2>1. Within(p + t, m) BY <1>2 DEF Room
  <2>2. (t <= q + t /\ q + t <= p + t) \/ (p + t <= q + t /\ q + t <= t) BY <1>1
  <2> QED BY <1>1, <2>1, <2>2, WithinBetween
<1>3. ASSUME ~ReduceOnly(size, t) PROVE Within(q + t - size, m)
  <2>1. Within(p + t - size, m) BY <1>3 DEF Room
  <2>2. Within(t - size, m) BY <1>3, OpensLess
  <2>3. \/ t - size <= q + t - size /\ q + t - size <= p + t - size
        \/ p + t - size <= q + t - size /\ q + t - size <= t - size
    BY <1>1
  <2> QED BY <1>1, <2>1, <2>2, <2>3, WithinBetween
<1> QED BY <1>2, <1>3 DEF Room

(* The same for an order that is to be sent.                                 *)
LEMMA SpaceReduced ==
    ASSUME NEW d \in Int, NEW p \in Int, NEW q \in Int, NEW m \in Nat,
           (0 <= q /\ q <= p) \/ (p <= q /\ q <= 0), Space(d, p, m)
    PROVE  Space(d, q, m)
<1>1. (d <= q + d /\ q + d <= p + d) \/ (p + d <= q + d /\ q + d <= d) OBVIOUS
<1> QED BY <1>1, WithinBetween DEF Space

(* A trade by hand makes room and space for itself.                          *)
LEMMA RoomTraded ==
    ASSUME NEW size \in Int, NEW t \in Reach, NEW p \in Int, NEW m \in Nat, NEW x \in {-1, 1},
           Room(size, t, p, m)
    PROVE  Room(size, t, p + x, m + 1)
<1>1. t \in Int BY ReachTyped
<1>2. ASSUME Reversing(size, t) PROVE Within(p + x + t, m + 1)
  <2>1. Within(p + t, m) BY <1>2 DEF Room
  <2>2. p + x + t \in {p + t - 1, p + t, p + t + 1} BY <1>1
  <2> QED BY <1>1, <2>1, <2>2, WithinTrade
<1>3. ASSUME ~ReduceOnly(size, t) PROVE Within(p + x + t - size, m + 1)
  <2>1. Within(p + t - size, m) BY <1>3 DEF Room
  <2>2. p + x + t - size \in {p + t - size - 1, p + t - size, p + t - size + 1} BY <1>1
  <2> QED BY <1>1, <2>1, <2>2, WithinTrade
<1> QED BY <1>2, <1>3 DEF Room

(* The same for an order.                                                    *)
LEMMA SpaceTraded ==
    ASSUME NEW d \in Int, NEW p \in Int, NEW m \in Nat, NEW x \in {-1, 1}, Space(d, p, m)
    PROVE  Space(d, p + x, m + 1)
<1>1. p + x + d \in {p + d - 1, p + d, p + d + 1} /\ d \in {d - 1, d, d + 1} OBVIOUS
<1> QED BY <1>1, WithinTrade DEF Space

(* PrimaryDeltas: where there is room for the plan there is space for an     *)
(* opening leg of it.                                                        *)
LEMMA RoomOpens ==
    ASSUME NEW size \in Int, NEW t \in Reach, NEW p \in Int, NEW m \in Nat, Within(p, m),
           Room(size, t, p, m), ~ReduceOnly(size, t), NEW d \in Trimmed(t - size)
    PROVE  Space(d, p, m)
<1>1. t \in Int /\ Within(t - size, m) BY OpensLess
<1>2. /\ d \in Int
      /\ \/ 0 <= d /\ d <= t - size
         \/ t - size <= d /\ d <= 0
  BY <1>1 DEF Trimmed
<1>3. Within(0, m)
  <2>1. Abs(0) <= Abs(t) BY <1>1 DEF Abs
  <2> QED BY <2>1, WithinReach
<1>4. Within(d, m) BY <1>1, <1>2, <1>3, WithinBetween
<1>5. Within(p + t - size, m) BY DEF Room
<1>6. \/ p <= p + d /\ p + d <= p + t - size
      \/ p + t - size <= p + d /\ p + d <= p
  BY <1>1, <1>2
<1>7. Within(p + d, m) BY <1>1, <1>2, <1>5, <1>6, WithinBetween
<1> QED BY <1>4, <1>7 DEF Space

(* The close leg of a reversal leaves room for the open leg.                 *)
LEMMA RoomClosed ==
    ASSUME NEW size \in Int, NEW t \in Reach, NEW p \in Int, NEW m \in Nat,
           Room(size, t, p, m), Reversing(size, t), NEW f \in Trimmed(-size)
    PROVE  Room(size + f, t, p, m)
<1>1. t \in Int BY ReachTyped
<1>2. Within(p + t, m) BY DEF Room
<1>3. f \in Int /\ (size + f = 0 \/ Reversing(size + f, t)) BY <1>1 DEF Trimmed, Reversing
<1>4. size + f = 0 => p + t - (size + f) = p + t BY <1>1, <1>3
<1>5. size + f # 0 => ReduceOnly(size + f, t) BY <1>3 DEF ReduceOnly
<1> QED BY <1>2, <1>4, <1>5 DEF Room

-----------------------------------------------------------------------------
(* One job at a time.                                                        *)

(* The job somebody may still act for: it is active, or a worker under the   *)
(* lock has it.                                                              *)
Current(j) == \/ jobState[j] \in ActiveJobStates
              \/ \E w \in Workers : Critical(w) /\ wk[w].job = j

(* All jobs are the reconciler's, their targets are positions of the master, *)
(* rows and busy workers belong to jobs there are, and one job is current.   *)
QueueInv ==
    /\ \A j \in Jobs : Created(j) =>
          intent[j].origin = "RECONCILE" /\ intent[j].target \in Reach
    /\ \A w \in Workers : pc[w] # "idle" => Created(wk[w].job)
    /\ \A e \in Execs : execState[e] # "none" => Created(e[1])
    /\ master \in Reach
    /\ rec.order > 0 /\ rec.pc \in {"master", "held"} => rec.mpos \in Reach
    /\ \A j, k \in Jobs : Current(j) /\ Current(k) => j = k

(* What a worker does to jobs: it takes a claimable one, and gives back the  *)
(* one it has.                                                               *)
JobTurns(w) ==
    /\ UNCHANGED <<intent, srcVars, manuals>>
    /\ \A j \in Jobs : Created(j)' <=> Created(j)
    /\ \A j \in Jobs : jobState'[j] \in ActiveJobStates =>
          jobState[j] \in ActiveJobStates \/ (Critical(w) /\ wk[w].job = j)
    /\ pc'[w] # "idle" => \/ pc[w] # "idle" /\ wk'[w].job = wk[w].job
                          \/ wk'[w].job \in Jobs /\ Created(wk'[w].job)
    /\ Critical(w)' => /\ pc[w] # "idle" /\ wk'[w].job = wk[w].job
                       /\ Critical(w) \/ jobState[wk[w].job] \in ActiveJobStates

(* GoFinish, Dispatch: the worker keeps its plan.                            *)
LEMMA DispatchKeeps ==
    ASSUME TypeOK, NEW w \in Workers,
           (\E r \in Results : GoFinish(w, r)) \/ \E out \in ExecStates : Dispatch(w, out)
    PROVE  /\ pc'[w] \in {"finish", "apply"} /\ wk'[w].job = wk[w].job
           /\ wk'[w].kind = wk[w].kind /\ wk'[w].leg = wk[w].leg
           /\ wk'[w].led = wk[w].led /\ wk'[w].more = wk[w].more
<1> USE DEF TypeOK, WorkersOK, Works
<1>1. ASSUME NEW r \in Results, GoFinish(w, r)
      PROVE  /\ pc'[w] = "finish" /\ wk'[w].job = wk[w].job
             /\ wk'[w].kind = wk[w].kind /\ wk'[w].leg = wk[w].leg
             /\ wk'[w].led = wk[w].led /\ wk'[w].more = wk[w].more
  BY <1>1 DEF GoFinish
<1>2. ASSUME NEW out \in ExecStates, Dispatch(w, out), out # "FILLED"
      PROVE  \E r \in Results : GoFinish(w, r)
  BY <1>2 DEF Dispatch
<1>3. ASSUME Dispatch(w, "FILLED") PROVE pc'[w] = "apply" /\ wk' = wk
  BY <1>3 DEF Dispatch
<1> QED BY <1>1, <1>2, <1>3

(* A worker turns over no other job.                                         *)
LEMMA WorkerJobs ==
    ASSUME TypeOK, QueueInv, NEW w \in Workers, WorkerStep(w) \/ Crash(w)
    PROVE  JobTurns(w)
<1> USE DEF JobTurns, Critical, Created
<1>t. /\ pc \in [Workers -> PCs] /\ wk \in [Workers -> Works] /\ jobState \in [Jobs -> JobStates]
      /\ pc[w] # "idle" => wk[w].job \in Jobs /\ Created(wk[w].job)
  BY DEF TypeOK, WorkersOK, JobsOK, QueueInv
<1>1. ASSUME NEW j \in Jobs, Claim(w, j) PROVE JobTurns(w)
  <2>1. /\ UNCHANGED <<intent, srcVars, manuals>> /\ jobState[j] \in ClaimableStates
        /\ jobState' = [jobState EXCEPT ![j] = "PROCESSING"]
        /\ pc'[w] = "lockwait" /\ wk'[w].job = j
    BY <1>1, <1>t DEF Claim, ghosts, NoWork
  <2> QED BY <1>t, <2>1
<1>2. CASE AcquireLock(w)
  <2>1. /\ UNCHANGED <<intent, srcVars, manuals, jobState>> /\ pc[w] = "lockwait"
        /\ wk'[w].job = wk[w].job /\ jobState[wk[w].job] = "PROCESSING"
    BY <1>2, <1>t DEF AcquireLock, StillOwner, jobVars, ghosts, Works
  <2> QED BY <1>t, <2>1
<1>3. CASE ClaimLost(w) \/ InsertConflict(w) \/ Crash(w)
  <2>1. UNCHANGED <<intent, srcVars, manuals, jobState>> /\ pc'[w] = "idle"
    BY <1>3, <1>t DEF ClaimLost, InsertConflict, Crash, jobVars, ghosts
  <2> QED BY <1>t, <2>1
<1>4. CASE Finish(w)
  <2>1. /\ UNCHANGED <<intent, srcVars, manuals>> /\ pc[w] = "finish" /\ pc'[w] = "idle"
        /\ \E s \in JobStates \ {"none"} : jobState' = [jobState EXCEPT ![wk[w].job] = s]
    BY <1>4, <1>t DEF Finish, ghosts, Works
  <2> QED BY <1>t, <2>1
<1>5. ASSUME UNCHANGED <<jobVars, srcVars, ghosts>>, Critical(w), wk'[w].job = wk[w].job
      PROVE  JobTurns(w)
  BY <1>t, <1>5 DEF jobVars, ghosts
<1>6. CASE Decline(w) \/ PreSubmitCancel(w) \/ SubmitAmbiguous(w) \/ ApplyDeferred(w)
  <2>1. /\ UNCHANGED <<jobVars, srcVars, ghosts>> /\ Critical(w)
        /\ (\E r \in Results : GoFinish(w, r)) \/ \E out \in ExecStates : Dispatch(w, out)
    BY <1>6 DEF Decline, PreSubmitCancel, SubmitAmbiguous, ApplyDeferred
  <2> QED BY <1>5, <2>1, DispatchKeeps
<1>7. CASE LegStored(w) \/ LegResolve(w) \/ Response(w)
  <2>1. /\ UNCHANGED <<jobVars, srcVars, ghosts>> /\ Critical(w)
        /\ \E out \in ExecStates : Dispatch(w, out)
    BY <1>7 DEF LegStored, LegResolve, Response, QueryOutcomes
  <2> QED BY <1>5, <2>1, DispatchKeeps
<1>8. CASE LegFresh(w) \/ InsertExecution(w) \/ Authorize(w) \/ Submit(w)
  <2>1. UNCHANGED <<jobVars, srcVars, ghosts>> /\ Critical(w) /\ wk'[w].job = wk[w].job
    BY <1>8, <1>t DEF LegFresh, InsertExecution, Authorize, Submit
  <2> QED BY <1>5, <2>1
<1>10. CASE Plan(w)
  <2>1. UNCHANGED <<jobVars, srcVars, ghosts>> /\ pc[w] = "plan" BY <1>10 DEF Plan
  <2>2. wk'[w].job = wk[w].job BY <1>10, <1>t DEF Plan, Works
  <2> QED BY <1>5, <2>1, <2>2
<1>9. CASE ApplyFill(w)
  <2>1. UNCHANGED <<jobVars, srcVars, ghosts>> /\ pc[w] = "apply" BY <1>9 DEF ApplyFill
  <2>2. wk'[w].job = wk[w].job \/ \E r \in Results : GoFinish(w, r)
    BY <1>9, <1>t DEF ApplyFill, Works
  <2> QED BY <1>5, <2>1, <2>2, DispatchKeeps
<1> QED BY <1>1, <1>2, <1>3, <1>4, <1>6, <1>7, <1>8, <1>9, <1>10 DEF WorkerStep

(* Jobs stay, and no other job becomes current.                              *)
CurrentKept ==
    \A j \in Jobs : /\ Created(j)' <=> Created(j)
                    /\ intent'[j] = intent[j]
                    /\ Current(j)' => Current(j)

(* The reconciler adds a job while there is no current one; if the job may   *)
(* open, nothing is unresolved.                                              *)
CurrentMade(j) ==
    /\ ~Created(j) /\ jobState' = [jobState EXCEPT ![j] = "QUEUED"]
    /\ \A k \in Jobs \ {j} : intent'[k] = intent[k]
    /\ intent'[j].origin = "RECONCILE" /\ intent'[j].target = rec.mpos /\ rec.order > 0
    /\ ~intent'[j].safe => \A e \in Execs : ~Unresolved(e)
    /\ \A w \in Workers : ~Critical(w)
    /\ \A k \in Jobs : ~Current(k)

(* A worker keeps or ends what is current.                                   *)
LEMMA WorkerCurrent ==
    ASSUME TypeOK, QueueInv, NEW w \in Workers, WorkerStep(w) \/ Crash(w)
    PROVE  CurrentKept
<1>1. JobTurns(w) BY WorkerJobs
<1>2. \A v \in Workers \ {w} : pc'[v] = pc[v] /\ wk'[v] = wk[v]
  BY WorkerAlone DEF OthersStay
<1>3. \A v \in Workers : Critical(v)' =>
        \/ Critical(v) /\ wk'[v].job = wk[v].job
        \/ jobState[wk'[v].job] \in ActiveJobStates
  BY <1>1, <1>2 DEF JobTurns, Critical
<1>4. ASSUME NEW j \in Jobs, Current(j)' PROVE Current(j)
  BY <1>1, <1>3, <1>4 DEF Current, JobTurns
<1> QED BY <1>1, <1>4 DEF CurrentKept, JobTurns

(* Only the reconciler makes jobs: the other sources are not there.          *)
LEMMA OnlyReconciler ==
    ASSUME Origins \subseteq {"RECONCILE"}
    PROVE  /\ ~CloseNothing
           /\ \A j \in Jobs : JobStep(j) =>
                 Publish(j) \/ ExpireStrategyJob(j) \/ ReleaseStale(j)
BY DEF CloseNothing, JobStep, MasterFill, ClosePositions

(* Publishing, expiry and release keep or end what is current.               *)
LEMMA QueueCurrent ==
    ASSUME TypeOK, Origins \subseteq {"RECONCILE"}, NEW j \in Jobs, JobStep(j)
    PROVE  CurrentKept /\ UNCHANGED <<execVars, ledger, lock, pc, wk, res, rec, exchVars, srcVars,
                                      ghosts>>
<1>1. Publish(j) \/ ExpireStrategyJob(j) \/ ReleaseStale(j) BY OnlyReconciler
<1>2. UNCHANGED <<intent, execVars, ledger, lock, pc, wk, res, rec, exchVars, srcVars, ghosts>>
  BY <1>1 DEF Publish, ExpireStrategyJob, ReleaseStale
<1>3. jobState \in [Jobs -> JobStates] BY DEF TypeOK, JobsOK
<1>4. \A k \in Jobs : /\ Created(k)' <=> Created(k)
                      /\ jobState'[k] \in ActiveJobStates => jobState[k] \in ActiveJobStates
  <2>1. CASE Publish(j) BY <1>3, <2>1 DEF Publish, Created
  <2>2. CASE ExpireStrategyJob(j) BY <1>3, <2>2 DEF ExpireStrategyJob, Created
  <2>3. CASE ReleaseStale(j) BY <1>3, <2>3 DEF ReleaseStale, Released, Created
  <2> QED BY <1>1, <2>1, <2>2, <2>3
<1> QED BY <1>2, <1>4 DEF CurrentKept, Current, Critical

(* A step that touches neither jobs nor workers.                             *)
LEMMA CurrentStays ==
    ASSUME UNCHANGED <<jobState, intent, pc, wk>> PROVE CurrentKept
BY DEF CurrentKept, Current, Critical, Created

(* reconcile_observed_follower: a job is made only when none is active, and  *)
(* under the lock no worker has one either.                                  *)
LEMMA CommitCurrent ==
    ASSUME TypeOK, LockedInv, QueueInv, ReconcileCommit
    PROVE  CurrentKept \/ \E j \in Jobs : CurrentMade(j)
<1>1. CASE UNCHANGED <<jobState, intent>>
  <2>1. UNCHANGED <<pc, wk>> BY DEF ReconcileCommit
  <2> QED BY <1>1, <2>1, CurrentStays
<1>2. ASSUME NEW j \in Jobs, rec.order > 0, MayRetarget(rec.snap, rec.mpos),
             CreateJob(j, [origin |-> "RECONCILE", order |-> rec.order, target |-> rec.mpos,
                           safe |-> AmbiguousWith(TerminalJobStates)])
      PROVE  CurrentMade(j)
  <2>1. intent \in [Jobs -> Intents] /\ jobState \in [Jobs -> JobStates] BY DEF TypeOK, JobsOK
  <2>2. \A w \in Workers : ~Critical(w)
    BY ActorsAssumption DEF ReconcileCommit, LockedInv, LockInv
  <2>3. \A k \in Jobs : jobState[k] \notin ActiveJobStates
    BY <1>2 DEF MayRetarget, QueueInv, Created
  <2>4. \A k \in Jobs : ~Current(k) BY <2>2, <2>3 DEF Current
  <2>5. /\ ~Created(j) /\ jobState' = [jobState EXCEPT ![j] = "QUEUED"]
        /\ \A k \in Jobs \ {j} : intent'[k] = intent[k]
        /\ intent'[j].origin = "RECONCILE" /\ intent'[j].target = rec.mpos
        /\ intent'[j].safe = AmbiguousWith(TerminalJobStates)
    BY <1>2, <2>1 DEF CreateJob, NextJob
  <2>6. ASSUME ~intent'[j].safe, NEW e \in Execs, Unresolved(e) PROVE FALSE
    <3>1. e[1] \in Jobs /\ Created(e[1]) BY <2>6 DEF Execs, QueueInv, Unresolved
    <3>2. jobState[e[1]] \in TerminalJobStates BY <2>1, <2>3, <3>1 DEF Created
    <3> QED BY <2>5, <2>6, <3>2 DEF AmbiguousWith
  <2> QED BY <1>2, <2>2, <2>4, <2>5, <2>6 DEF CurrentMade
<1> QED BY <1>1, <1>2 DEF ReconcileCommit

(* Every step keeps what is current, or makes the only current job.          *)
LEMMA NextCurrent ==
    ASSUME MaxLockLoss = 0, Origins \subseteq {"RECONCILE"}, TypeOK, LockedInv, QueueInv,
           [Next]_vars
    PROVE  CurrentKept \/ (ReconcileCommit /\ \E j \in Jobs : CurrentMade(j))
<1>1. ~LoseLock BY DEF LoseLock, TypeOK, SourcesOK
<1>2. ASSUME \/ UNCHANGED vars \/ (\E p \in Positions : MasterMove(p)) \/ ResolverStep
             \/ ExchangeStep \/ (ReconcilerStep /\ ~ReconcileCommit)
      PROVE  UNCHANGED <<jobState, intent, pc, wk>>
  <2>1. CASE UNCHANGED vars BY <2>1 DEF vars, jobVars
  <2>2. CASE \E p \in Positions : MasterMove(p) BY <2>2 DEF MasterMove, jobVars
  <2>3. CASE ResolverStep
    BY <2>3 DEF ResolverStep, ResolveQuery, ResolveSnapshot, ResolveUnverified,
                ResolveNotFilled, ResolveFilled, Quarantine, ResolveSkip, jobVars
  <2>4. CASE ExchangeStep BY <2>4 DEF ExchangeStep, Fill, NotFilled, ManualTrade, jobVars
  <2>5. CASE ReconcilerStep /\ ~ReconcileCommit
    BY <2>5 DEF ReconcilerStep, ReconcileStart, ReconcileMaster, ReconcileSnapshot,
                ReconcileAbort, jobVars
  <2> QED BY <1>2, <2>1, <2>2, <2>3, <2>4, <2>5
<1> QED
  BY <1>1, <1>2, CurrentStays, WorkerCurrent, QueueCurrent, CommitCurrent, OnlyReconciler
  DEF Next

(* The round of the reconciler carries a position the master had.            *)
LEMMA RoundInRange ==
    ASSUME TypeOK, QueueInv, [Next]_vars
    PROVE  /\ master' \in Reach
           /\ rec'.order > 0 /\ rec'.pc \in {"master", "held"} => rec'.mpos \in Reach
<1> USE DEF QueueInv
<1>t. rec \in Reconciliations BY DEF TypeOK, MaintenanceOK
<1>1. ASSUME NEW p \in Positions, MasterMove(p) PROVE master' \in Reach /\ UNCHANGED rec
  BY <1>1 DEF MasterMove, Reach
<1>2. CASE ReconcileStart \/ ReconcileCommit \/ ReconcileAbort
  <2>1. UNCHANGED master /\ rec'.pc \in {"idle", "started"}
    <3>1. CASE ReconcileStart BY <3>1 DEF ReconcileStart, RecIdle
    <3>2. CASE ReconcileCommit BY <3>2 DEF ReconcileCommit, srcVars, RecIdle
    <3>3. CASE ReconcileAbort BY <3>3 DEF ReconcileAbort, srcVars, RecIdle
    <3> QED BY <1>2, <3>1, <3>2, <3>3
  <2> QED BY <2>1
<1>3. CASE ReconcileMaster
  BY <1>3, <1>t DEF ReconcileMaster, srcVars, Reconciliations
<1>4. CASE ReconcileSnapshot
  BY <1>4, <1>t DEF ReconcileSnapshot, srcVars, Reconciliations
<1>5. CASE \E w \in Workers : WorkerStep(w) \/ Crash(w)
  BY <1>5, WorkerJobs, WorkerAlone DEF JobTurns, OthersStay, srcVars
<1>6. CASE \/ CloseNothing \/ (\E j \in Jobs : JobStep(j)) \/ LoseLock \/ ResolverStep
           \/ ExchangeStep \/ UNCHANGED vars
  BY <1>6 DEF CloseNothing, JobStep, MasterFill, ClosePositions, Publish, ExpireStrategyJob,
              ReleaseStale, LoseLock, ResolverStep, ResolveQuery, ResolveSnapshot,
              ResolveUnverified, ResolveNotFilled, ResolveFilled, Quarantine, ResolveSkip,
              ExchangeStep, Fill, NotFilled, ManualTrade, vars, srcVars
<1> QED BY <1>1, <1>2, <1>3, <1>4, <1>5, <1>6 DEF Next, ReconcilerStep

(* Rows belong to jobs there are.                                            *)
LEMMA RowsBelong ==
    ASSUME TypeOK, SubmissionInv, RowInv, QueueInv, [Next]_vars, NEW e \in Execs,
           execState'[e] # "none"
    PROVE  Created(e[1])
<1>1. ASSUME NEW w \in Workers, WorkerStep(w) \/ Crash(w) PROVE Created(e[1])
  <2>1. CASE execState[e] # "none" BY <2>1 DEF QueueInv
  <2>2. CASE execState[e] = "none"
    <3>1. InsertExecution(w) /\ e = ExecOf(w) BY <1>1, <2>2, WorkerKeeps DEF RowsKept
    <3>2. pc[w] # "idle" /\ e[1] = wk[w].job BY <3>1 DEF InsertExecution, ExecOf
    <3> QED BY <3>2 DEF QueueInv
  <2> QED BY <2>1, <2>2
<1>2. CASE ~\E w \in Workers : WorkerStep(w) \/ Crash(w)
  <2>1. execState[e] # "none" BY <1>2, OthersKeep DEF RowsKept, Next
  <2> QED BY <2>1 DEF QueueInv
<1> QED BY <1>1, <1>2

(* Workers are moved by their own steps only.                                *)
LEMMA OthersWait ==
    ASSUME [Next]_vars
    PROVE  (\E w \in Workers : WorkerStep(w) \/ Crash(w)) \/ UNCHANGED <<pc, wk>>
BY DEF Next, vars, MasterMove, CloseNothing, JobStep, MasterFill, ClosePositions, Publish,
       ExpireStrategyJob, ReleaseStale, LoseLock, ResolverStep, ResolveQuery,
       ResolveSnapshot, ResolveUnverified, ResolveNotFilled, ResolveFilled, Quarantine,
       ResolveSkip, ReconcilerStep, ReconcileStart, ReconcileMaster, ReconcileSnapshot,
       ReconcileCommit, ReconcileAbort, ExchangeStep, Fill, NotFilled, ManualTrade

(* Every step keeps the queue to one current job.                            *)
LEMMA NextQueue ==
    ASSUME MaxLockLoss = 0, Origins \subseteq {"RECONCILE"}, TypeOK, SubmissionInv, LockedInv,
           RowInv, QueueInv, [Next]_vars
    PROVE  QueueInv'
<1> USE DEF Current, Critical, Created
<1>1. /\ (master \in Reach)'
      /\ (rec.order > 0 /\ rec.pc \in {"master", "held"} => rec.mpos \in Reach)'
  BY RoundInRange
<1>2. \A e \in Execs : execState'[e] # "none" => e[1] \in Jobs /\ Created(e[1])
  BY RowsBelong DEF Execs
<1>3. \A w \in Workers : pc'[w] # "idle" => wk'[w].job \in Jobs /\ Created(wk'[w].job)
  <2>1. ASSUME NEW w \in Workers, WorkerStep(w) \/ Crash(w), NEW v \in Workers, pc'[v] # "idle"
        PROVE  wk'[v].job \in Jobs /\ Created(wk'[v].job)
    <3>1. JobTurns(w) /\ OthersStay(w) BY <2>1, WorkerJobs, WorkerAlone
    <3>2. \A x \in Workers : pc[x] # "idle" => wk[x].job \in Jobs /\ Created(wk[x].job)
      BY DEF QueueInv, TypeOK, WorkersOK
    <3> QED BY <2>1, <3>1, <3>2 DEF JobTurns, OthersStay
  <2>2. CASE UNCHANGED <<pc, wk>> BY <2>2 DEF QueueInv, TypeOK, WorkersOK
  <2>3. (\E w \in Workers : WorkerStep(w) \/ Crash(w)) \/ UNCHANGED <<pc, wk>>
    BY OthersWait
  <2> QED BY <2>1, <2>2, <2>3
<1>4. CASE CurrentKept
  <2>1. \A j \in Jobs : /\ Created(j)' <=> Created(j)
                        /\ intent'[j] = intent[j]
                        /\ Current(j)' => Current(j)
    BY <1>4 DEF CurrentKept
  <2>2. (\A j \in Jobs : Created(j) =>
            intent[j].origin = "RECONCILE" /\ intent[j].target \in Reach)'
    BY <2>1 DEF QueueInv
  <2>3. (\A w \in Workers : pc[w] # "idle" => Created(wk[w].job))' BY <1>3, <2>1
  <2>4. (\A e \in Execs : execState[e] # "none" => Created(e[1]))' BY <1>2, <2>1 DEF Execs
  <2>5. (\A j, k \in Jobs : Current(j) /\ Current(k) => j = k)' BY <2>1 DEF QueueInv
  <2> QED BY <1>1, <2>2, <2>3, <2>4, <2>5 DEF QueueInv
<1>5. ASSUME NEW j \in Jobs, CurrentMade(j), ReconcileCommit PROVE QueueInv'
  <2>1. jobState \in [Jobs -> JobStates] /\ UNCHANGED <<pc, wk>> /\ rec.pc = "held"
    BY <1>5 DEF TypeOK, JobsOK, ReconcileCommit
  <2>2. \A k \in Jobs : /\ Created(k) => Created(k)'
                        /\ Created(k)' => Created(k) \/ k = j
                        /\ Current(k)' => k = j
    BY <1>5, <2>1 DEF CurrentMade, Created, Current, Critical
  <2>3. (\A k \in Jobs : Created(k) =>
            intent[k].origin = "RECONCILE" /\ intent[k].target \in Reach)'
    BY <1>5, <2>1, <2>2 DEF QueueInv, CurrentMade
  <2>4. (\A w \in Workers : pc[w] # "idle" => Created(wk[w].job))' BY <1>3, <2>2
  <2>5. (\A e \in Execs : execState[e] # "none" => Created(e[1]))' BY <1>2, <2>2 DEF Execs
  <2>6. (\A k, l \in Jobs : Current(k) /\ Current(l) => k = l)' BY <2>2
  <2> QED BY <1>1, <2>3, <2>4, <2>5, <2>6 DEF QueueInv
<1> QED BY <1>4, <1>5, NextCurrent

(* Every step keeps the workers' copies of the ledger.                       *)
LEMMA NextCopies ==
    ASSUME MaxLockLoss = 0, TypeOK, SubmissionInv, LockedInv, FillInv, CopyInv, [Next]_vars
    PROVE  CopyInv'
<1>1. Protected BY NextProtected
<1>2. ~LoseLock BY DEF LoseLock, TypeOK, SourcesOK
<1>3. CASE \E w \in Workers : WorkerStep(w) \/ Crash(w) BY <1>1, <1>3, WorkerKeepsCopies
<1>4. CASE ~\E w \in Workers : WorkerStep(w) \/ Crash(w)
  <2>1. UNCHANGED <<pc, wk>> BY <1>4, OthersWait
  <2>2. UNCHANGED ledger \/ ResolveFilled \/ Quarantine \/ ReconcileCommit
    BY <1>2, <1>4 DEF Next, vars, MasterMove, CloseNothing, JobStep, MasterFill, ClosePositions,
       Publish, ExpireStrategyJob, ReleaseStale, ResolverStep, ResolveQuery, ResolveSnapshot,
       ResolveUnverified, ResolveNotFilled, ResolveSkip,
       ReconcilerStep, ReconcileStart, ReconcileMaster, ReconcileSnapshot,
       ReconcileAbort, ExchangeStep, Fill, NotFilled, ManualTrade
  <2>3. (\E w \in Workers : Critical(w)) => UNCHANGED ledger
    <3>1. ResolveFilled \/ Quarantine \/ ReconcileCommit => ~\E w \in Workers : Critical(w)
      BY ActorsAssumption DEF ResolveFilled, Quarantine, ReconcileCommit, LockedInv, LockInv
    <3> QED BY <2>2, <3>1
  <2> QED BY <1>1, <2>1, <2>3, OwnersExplained DEF Protected
<1> QED BY <1>3, <1>4

-----------------------------------------------------------------------------
(* Orders and their rows.                                                    *)

(* An order on its way has an unresolved row; what is about to be settled is *)
(* not on its way.                                                           *)
WireInv ==
    /\ \A e \in Execs : order[e] = "wire" => Unresolved(e)
    /\ res.pc = "queried" /\ res.out # "UNKNOWN" => order[res.exec] # "wire"
    /\ res.pc = "snapped" => order[res.exec] # "wire"

(* Nothing that is on its way is settled.                                    *)
WireStays == \A e \in Execs : Unresolved(e) /\ ~Unresolved(e)' => order[e] # "wire"

(* A worker settles an order that has not left or has been answered.         *)
LEMMA WorkerSettles ==
    ASSUME TypeOK, SubmissionInv, FillInv, NEW w \in Workers, WorkerStep(w) \/ Crash(w)
    PROVE  WireStays
<1> USE DEF WireStays, Unresolved
<1>t. /\ execState \in [Execs -> ExecStates]
      /\ pc[w] # "idle" => ExecOf(w) \in Execs
  BY ExecOfTyped DEF TypeOK, ExecsOK
<1>1. CASE LegResolve(w)
  <2>1. PICK out \in QueryOutcomes(ExecOf(w)) :
           IF out = "UNKNOWN" THEN UNCHANGED execVars
           ELSE PersistOutcome(ExecOf(w), out, IF out = "FILLED" THEN execLeg[ExecOf(w)].delta ELSE 0)
    BY <1>1 DEF LegResolve
  <2>2. out # "UNKNOWN" => order[ExecOf(w)] # "wire" BY DEF QueryOutcomes, FullyFilled
  <2>3. out = "UNKNOWN" => UNCHANGED execState BY <2>1 DEF execVars
  <2>4. out # "UNKNOWN" => \A e \in Execs \ {ExecOf(w)} : execState'[e] = execState[e]
    BY <1>t, <2>1 DEF PersistOutcome
  <2> QED BY <2>2, <2>3, <2>4
<1>2. CASE PreSubmitCancel(w)
  <2>1. pc[w] # "idle" /\ order[ExecOf(w)] # "wire"
    BY <1>2, <1>t DEF PreSubmitCancel, SubmissionInv, Sending, FillInv
  <2> QED BY <1>2, <1>t, <2>1 DEF PreSubmitCancel, PersistOutcome
<1>3. CASE Response(w)
  <2>1. pc[w] # "idle" /\ order[ExecOf(w)] # "wire" BY <1>3 DEF Response
  <2>2. \A e \in Execs \ {ExecOf(w)} : execState'[e] = execState[e]
    BY <1>3, <1>t DEF Response, PersistOutcome
  <2> QED BY <2>1, <2>2
<1>4. CASE SubmitAmbiguous(w) \/ InsertExecution(w)
  BY <1>4, <1>t DEF SubmitAmbiguous, InsertExecution, PersistOutcome
<1>5. CASE \/ \E j \in Jobs : Claim(w, j)
           \/ AcquireLock(w) \/ ClaimLost(w) \/ Decline(w) \/ Plan(w) \/ LegFresh(w)
           \/ LegStored(w) \/ InsertConflict(w) \/ Authorize(w) \/ Submit(w)
           \/ ApplyFill(w) \/ ApplyDeferred(w) \/ Finish(w) \/ Crash(w)
  BY <1>5 DEF Claim, AcquireLock, ClaimLost, Decline, Plan, LegFresh, LegStored,
              InsertConflict, Authorize, Submit, ApplyFill, ApplyDeferred, Finish, Crash, execVars
<1> QED BY <1>1, <1>2, <1>3, <1>4, <1>5 DEF WorkerStep

(* Every step keeps orders on their way unresolved.                          *)
LEMMA NextWire ==
    ASSUME MaxLockLoss = 0, TypeOK, SubmissionInv, LockedInv, FillInv, WireInv, [Next]_vars
    PROVE  WireInv'
<1> USE DEF WireInv, Unresolved
<1>t. /\ execState \in [Execs -> ExecStates] /\ order \in [Execs -> OrderStates]
      /\ res \in Resolutions /\ (res.pc # "idle" => res.exec \in Execs)
  BY DEF TypeOK, ExecsOK, ExchangeOK, MaintenanceOK
<1>1. ASSUME NEW w \in Workers, WorkerStep(w) \/ Crash(w) PROVE WireInv'
  <2>1. WireStays /\ UNCHANGED res BY <1>1, WorkerSettles, WorkerAlone DEF OthersStay
  <2>2. CASE Submit(w)
    <3>1. /\ ExecOf(w) \in Execs /\ order' = [order EXCEPT ![ExecOf(w)] = "wire"]
          /\ UNCHANGED execState
      BY <2>2, SubmitMoves DEF execVars
    <3>2. pc[w] = "authorized" BY <2>2 DEF Submit
    <3>3. execState[ExecOf(w)] = "SUBMITTING" BY <3>2 DEF LockedInv, OutcomeInv, AtRow
    <3>4. res.pc = "idle" BY <3>2, ActorsAssumption DEF LockedInv, LockInv, Critical
    <3> QED BY <1>t, <2>1, <3>1, <3>3, <3>4
  <2>3. CASE ~Submit(w)
    <3>1. UNCHANGED order BY <1>1, <2>3, OrdersStay DEF exchVars
    <3> QED BY <2>1, <3>1 DEF WireStays
  <2> QED BY <2>2, <2>3
<1>2. ASSUME NEW e \in Execs, Fill(e) \/ NotFilled(e) PROVE WireInv'
  <2>1. /\ UNCHANGED <<execState, res>>
        /\ \A x \in Execs : order'[x] = "wire" => order[x] = "wire"
    BY <1>2, ExchangeMoves DEF execVars
  <2> QED BY <1>t, <2>1
<1>3. CASE ResolverStep
  <2>1. UNCHANGED order BY <1>3, OrdersStay DEF exchVars
  <2>2. ASSUME NEW e \in Execs, ResolveQuery(e) PROVE WireInv'
    <3>1. UNCHANGED execState BY <2>2 DEF ResolveQuery, execVars
    <3>2. PICK out \in QueryOutcomes(e) :
             res' = [ResIdle EXCEPT !.pc = "queried", !.exec = e, !.out = out,
                                    !.job = jobState[e[1]]]
      BY <2>2 DEF ResolveQuery
    <3>3. res'.pc = "queried" /\ res'.out = out /\ res'.exec = e BY <3>2 DEF ResIdle
    <3>4. out # "UNKNOWN" => order[e] # "wire" BY DEF QueryOutcomes, FullyFilled
    <3> QED BY <2>1, <3>1, <3>3, <3>4
  <2>3. CASE ResolveSnapshot \/ ResolveUnverified
    <3>1. UNCHANGED execState BY <2>3 DEF ResolveSnapshot, ResolveUnverified, execVars
    <3>2. res'.exec = res.exec BY <1>t, <2>3 DEF ResolveSnapshot, ResolveUnverified, Resolutions
    <3>3. CASE ResolveSnapshot
      BY <1>t, <2>1, <3>1, <3>2, <3>3 DEF ResolveSnapshot, MayQuarantine, Aged, Resolutions
    <3>4. CASE ResolveUnverified
      BY <1>t, <2>1, <3>1, <3>2, <3>4 DEF ResolveUnverified, Resolutions
    <3> QED BY <2>3, <3>3, <3>4
  <2>4. CASE ResolveNotFilled \/ ResolveFilled \/ Quarantine \/ ResolveSkip
    <3>1. res'.pc = "idle"
      BY <2>4 DEF ResolveNotFilled, ResolveFilled, Quarantine, ResolveSkip, ResIdle
    <3>2. res.pc # "idle"
      BY <2>4 DEF ResolveNotFilled, ResolveFilled, Quarantine, ResolveSkip
    <3>3. UNCHANGED execState \/ order[res.exec] # "wire"
      BY <2>4 DEF ResolveNotFilled, ResolveFilled, Quarantine, ResolveSkip, execVars
    <3>4. \A e \in Execs \ {res.exec} : execState'[e] = execState[e]
      BY <1>t, <2>4, <3>2 DEF ResolveNotFilled, ResolveFilled, Quarantine, ResolveSkip, execVars,
                              PersistOutcome
    <3> QED BY <2>1, <3>1, <3>3, <3>4
  <2> QED BY <1>3, <2>2, <2>3, <2>4 DEF ResolverStep
<1>4. CASE \/ (\E p \in Positions : MasterMove(p)) \/ CloseNothing
           \/ (\E j \in Jobs : JobStep(j)) \/ ReconcilerStep \/ ManualTrade \/ UNCHANGED vars
  <2>1. UNCHANGED <<execState, res, order>>
    BY <1>4 DEF MasterMove, CloseNothing, JobStep, MasterFill, ClosePositions, Publish,
       ExpireStrategyJob, ReleaseStale, ReconcilerStep, ReconcileStart, ReconcileMaster,
       ReconcileSnapshot, ReconcileCommit, ReconcileAbort, ManualTrade, vars, execVars, exchVars
  <2> QED BY <2>1
<1>5. ~LoseLock BY DEF LoseLock, TypeOK, SourcesOK
<1> QED BY <1>1, <1>2, <1>3, <1>4, <1>5 DEF Next, ExchangeStep

-----------------------------------------------------------------------------
(* Legs.                                                                     *)

Closing(leg) == leg.reduceOnly /\ leg.delta = -leg.before

(* What a worker with a plan is bound by: it closes what its job reverses,   *)
(* opens after that only for a job that may, and only reduces for one that   *)
(* met something unresolved.                                                 *)
PlanBinds(w) ==
    /\ Planned(w) =>
          /\ wk[w].kind = "c" => Reversing(wk[w].led.size, intent[wk[w].job].target)
          /\ wk[w].more => ~intent[wk[w].job].safe
    /\ pc[w] \in {"leg", "insert"} =>
          /\ wk[w].kind = "c" => Closing(wk[w].leg)
          /\ intent[wk[w].job].safe => wk[w].leg.reduceOnly

LegInv ==
    /\ \A j \in Jobs : execState[<<j, "c">>] # "none" => Closing(execLeg[<<j, "c">>])
    /\ \A w \in Workers : PlanBinds(w)

(* PrimaryDeltas: the close leg of a reversal closes the whole position.     *)
LEMMA PlanCloses ==
    ASSUME TypeOK, NEW w \in Workers, Plan(w)
    PROVE  PlanBinds(w)'
<1> DEFINE j   == wk[w].job
           cur == ledger.size
           tgt == intent[j].target
<1>t. /\ pc \in [Workers -> PCs] /\ wk \in [Workers -> Works] /\ cur \in Int /\ tgt \in Int
      /\ UNCHANGED intent /\ pc'[w] = "leg"
  <2>1. pc[w] = "plan" /\ UNCHANGED intent BY DEF Plan, jobVars
  <2>2. j \in Jobs BY <2>1 DEF TypeOK, WorkersOK
  <2> QED BY <2>1, <2>2 DEF Plan, TypeOK, WorkersOK, LedgerOK, Ledgers, JobsOK, Intents
<1>1. PICK d \in PrimaryDeltas(cur, tgt), more \in BOOLEAN :
         /\ more => ~intent[j].safe
         /\ wk' = [wk EXCEPT ![w].led = ledger,
                             ![w].kind = IF Reversing(cur, tgt) THEN "c" ELSE "o",
                             ![w].leg = [delta |-> d, reduceOnly |-> ReduceOnly(cur, tgt),
                                         before |-> cur, last |-> ledger.last],
                             ![w].more = more]
  BY DEF Plan
<1>2. /\ wk'[w].job = j /\ wk'[w].led = ledger /\ wk'[w].more = more
      /\ wk'[w].kind = IF Reversing(cur, tgt) THEN "c" ELSE "o"
      /\ wk'[w].leg.delta = d /\ wk'[w].leg.reduceOnly = ReduceOnly(cur, tgt)
      /\ wk'[w].leg.before = cur
  BY <1>1, <1>t DEF Works
<1>3. intent[j].safe => ReduceOnly(cur, tgt) BY DEF Plan
<1>4. Reversing(cur, tgt) => d = -cur /\ ReduceOnly(cur, tgt)
  BY <1>t DEF PrimaryDeltas, ReduceOnly, Reversing
<1>5. wk'[w].kind = "c" => Reversing(cur, tgt) BY <1>2
<1>6. wk'[w].kind = "c" => Reversing(wk'[w].led.size, intent'[wk'[w].job].target)
  BY <1>t, <1>2, <1>5
<1>7. wk'[w].more => ~intent'[wk'[w].job].safe BY <1>t, <1>1, <1>2
<1>8. wk'[w].kind = "c" => Closing(wk'[w].leg) BY <1>2, <1>4, <1>5 DEF Closing
<1>9. intent'[wk'[w].job].safe => wk'[w].leg.reduceOnly BY <1>t, <1>2, <1>3
<1> HIDE DEF j, cur, tgt
<1> QED BY <1>6, <1>7, <1>8, <1>9 DEF PlanBinds

(* close_leg_flattened: the open leg follows a close leg only.               *)
LEMMA ApplyFits ==
    ASSUME TypeOK, LegInv, NEW w \in Workers, ApplyFill(w)
    PROVE  /\ PlanBinds(w)'
           /\ pc'[w] = "leg" => /\ wk[w].kind = "c" /\ wk[w].more /\ wk'[w].job = wk[w].job
                                /\ wk'[w].kind = "o"
                                /\ wk'[w].leg.delta \in Trimmed(intent[wk[w].job].target)
<1>t. /\ pc \in [Workers -> PCs] /\ wk \in [Workers -> Works] /\ pc[w] = "apply"
      /\ UNCHANGED intent
  BY DEF TypeOK, WorkersOK, ApplyFill, jobVars
<1> DEFINE e    == ExecOf(w)
           led  == wk[w].led
           mode == ApplyMode(e, led)
           size == IF mode = "applied" THEN execLeg[e].before + execFill[e] ELSE led.size
           new  == IF mode = "done" THEN led ELSE [led EXCEPT !.size = size, !.last = e]
<1>1. \/ \E r \in Results : GoFinish(w, r)
      \/ /\ wk[w].more /\ wk[w].kind = "c" /\ pc' = [pc EXCEPT ![w] = "leg"]
         /\ \E d \in Trimmed(intent[wk[w].job].target) :
               wk' = [wk EXCEPT ![w].led = new, ![w].kind = "o",
                                ![w].leg = [delta |-> d, reduceOnly |-> FALSE,
                                            before |-> 0, last |-> new.last]]
  BY DEF ApplyFill
<1> HIDE DEF new
<1>2. CASE \E r \in Results : GoFinish(w, r)
  <2>1. pc'[w] = "finish" BY <1>2, <1>t DEF GoFinish
  <2> QED BY <2>1 DEF PlanBinds, Planned
<1>3. CASE ~\E r \in Results : GoFinish(w, r)
  <2>1. wk[w].more /\ wk[w].kind = "c" /\ pc' = [pc EXCEPT ![w] = "leg"] BY <1>1, <1>3
  <2>2. PICK d \in Trimmed(intent[wk[w].job].target) :
               wk' = [wk EXCEPT ![w].led = new, ![w].kind = "o",
                                ![w].leg = [delta |-> d, reduceOnly |-> FALSE,
                                            before |-> 0, last |-> new.last]]
    BY <1>1, <1>3
  <2>3. /\ wk'[w].job = wk[w].job /\ wk'[w].more = wk[w].more /\ wk'[w].kind = "o"
        /\ wk'[w].leg.delta = d
    BY <1>t, <2>2 DEF Works
  <2>4. ~intent[wk[w].job].safe BY <1>t, <2>1 DEF LegInv, PlanBinds, Planned
  <2> QED BY <1>t, <2>1, <2>3, <2>4 DEF PlanBinds
<1> QED BY <1>2, <1>3

(* A worker plans for its job, and keeps to its plan.                        *)
LEMMA WorkerFits ==
    ASSUME TypeOK, LegInv, NEW w \in Workers, WorkerStep(w) \/ Crash(w)
    PROVE  PlanBinds(w)'
<1>t. pc \in [Workers -> PCs] /\ wk \in [Workers -> Works] /\ PlanBinds(w)
  BY DEF TypeOK, WorkersOK, LegInv
<1>1. CASE Plan(w) BY <1>1, PlanCloses
<1>2. CASE ApplyFill(w) BY <1>2, ApplyFits
<1>3. ASSUME NEW j \in Jobs, Claim(w, j) PROVE PlanBinds(w)'
  <2>1. pc'[w] = "lockwait" BY <1>3, <1>t DEF Claim
  <2> QED BY <2>1 DEF PlanBinds, Planned
<1>4. CASE AcquireLock(w) \/ ClaimLost(w) \/ InsertConflict(w) \/ Finish(w) \/ Crash(w)
  <2>1. pc'[w] \in {"plan", "idle"}
    BY <1>4, <1>t DEF AcquireLock, ClaimLost, InsertConflict, Finish, Crash
  <2> QED BY <2>1 DEF PlanBinds, Planned
<1>5. CASE LegFresh(w) \/ InsertExecution(w) \/ Authorize(w) \/ Submit(w)
  <2>1. /\ UNCHANGED <<wk, intent>> /\ pc[w] \in {"leg", "insert", "send", "authorized"}
        /\ pc'[w] \in {"insert", "send", "authorized", "await"}
        /\ pc'[w] = "insert" => pc[w] = "leg"
    BY <1>5, <1>t DEF LegFresh, InsertExecution, Authorize, Submit, jobVars
  <2> QED BY <1>t, <2>1 DEF PlanBinds, Planned
<1>6. ASSUME UNCHANGED intent, pc[w] = "plan", \E r \in Results : GoFinish(w, r)
      PROVE  PlanBinds(w)'
  <2>1. pc'[w] = "finish" BY <1>6, <1>t DEF GoFinish
  <2> QED BY <2>1 DEF PlanBinds, Planned
<1>7. ASSUME UNCHANGED intent, Planned(w),
             (\E r \in Results : GoFinish(w, r)) \/ \E out \in ExecStates : Dispatch(w, out)
      PROVE  PlanBinds(w)'
  <2>1. /\ pc'[w] \in {"finish", "apply"} /\ wk'[w].job = wk[w].job
        /\ wk'[w].kind = wk[w].kind /\ wk'[w].led = wk[w].led /\ wk'[w].more = wk[w].more
    BY <1>7, DispatchKeeps
  <2> QED BY <1>t, <1>7, <2>1 DEF PlanBinds, Planned
<1>8. CASE Decline(w) BY <1>6, <1>8 DEF Decline, jobVars
<1>9. CASE PreSubmitCancel(w) \/ SubmitAmbiguous(w) \/ ApplyDeferred(w)
  <2>1. /\ UNCHANGED intent /\ Planned(w)
        /\ (\E r \in Results : GoFinish(w, r)) \/ \E out \in ExecStates : Dispatch(w, out)
    BY <1>9 DEF PreSubmitCancel, SubmitAmbiguous, ApplyDeferred, Planned, jobVars
  <2> QED BY <1>7, <2>1
<1>10. CASE LegStored(w) \/ LegResolve(w) \/ Response(w)
  <2>1. UNCHANGED intent /\ Planned(w) /\ \E out \in ExecStates : Dispatch(w, out)
    BY <1>10 DEF LegStored, LegResolve, Response, QueryOutcomes, Planned, jobVars
  <2> QED BY <1>7, <2>1
<1> QED BY <1>1, <1>2, <1>3, <1>4, <1>5, <1>8, <1>9, <1>10 DEF WorkerStep

(* Every step keeps the legs fitting.                                        *)
LEMMA NextLegs ==
    ASSUME MaxLockLoss = 0, Origins \subseteq {"RECONCILE"}, TypeOK, SubmissionInv, LockedInv,
           RowInv, QueueInv, LegInv, [Next]_vars
    PROVE  LegInv'
<1>1. \A j \in Jobs : Created(j) => intent'[j] = intent[j]
  BY NextCurrent DEF CurrentKept, CurrentMade
<1>2. ASSUME NEW v \in Workers, pc'[v] = pc[v], wk'[v] = wk[v] PROVE PlanBinds(v)'
  <2>1. Planned(v) => intent'[wk[v].job] = intent[wk[v].job]
    BY <1>1 DEF Planned, QueueInv, TypeOK, WorkersOK
  <2>2. PlanBinds(v) BY DEF LegInv
  <2> QED BY <1>2, <2>1, <2>2 DEF PlanBinds, Planned
<1>3. ASSUME NEW w \in Workers, WorkerStep(w) \/ Crash(w) PROVE LegInv'
  <2>1. \A v \in Workers : PlanBinds(v)'
    BY <1>2, <1>3, WorkerFits, WorkerAlone DEF OthersStay
  <2>2. ASSUME NEW j \in Jobs, execState'[<<j, "c">>] # "none"
        PROVE  Closing(execLeg'[<<j, "c">>])
    <3>1. <<j, "c">> \in Execs BY DEF Execs
    <3>2. CASE InsertExecution(w) /\ <<j, "c">> = ExecOf(w)
      <4>1. execLeg'[<<j, "c">>] = wk[w].leg /\ pc[w] = "insert" /\ wk[w].kind = "c"
        BY <3>1, <3>2 DEF InsertExecution, ExecOf, TypeOK, ExecsOK
      <4> QED BY <4>1 DEF LegInv, PlanBinds
    <3>3. CASE ~(InsertExecution(w) /\ <<j, "c">> = ExecOf(w))
      <4>1. execState[<<j, "c">>] # "none" /\ execLeg'[<<j, "c">>] = execLeg[<<j, "c">>]
        BY <1>3, <2>2, <3>1, <3>3, WorkerKeeps DEF RowsKept
      <4> QED BY <4>1 DEF LegInv
    <3> QED BY <3>2, <3>3
  <2> QED BY <2>1, <2>2 DEF LegInv
<1>4. CASE ~\E w \in Workers : WorkerStep(w) \/ Crash(w)
  <2>1. UNCHANGED <<pc, wk>> BY <1>4, OthersWait
  <2>2. RowsKept({}) BY <1>4, OthersKeep DEF Next
  <2>3. \A v \in Workers : PlanBinds(v)' BY <1>2, <2>1
  <2>4. \A j \in Jobs : <<j, "c">> \in Execs BY DEF Execs
  <2>5. \A j \in Jobs : execState'[<<j, "c">>] # "none" => Closing(execLeg'[<<j, "c">>])
    BY <2>2, <2>4 DEF RowsKept, LegInv
  <2> QED BY <2>3, <2>5 DEF LegInv
<1> QED BY <1>3, <1>4

-----------------------------------------------------------------------------
(* One order that opens at a time.                                           *)

(* Something unresolved that is not only to reduce.                          *)
Opens(e) == Unresolved(e) /\ ~execLeg[e].reduceOnly
NoOpen   == \A e \in Execs : ~Opens(e)

AloneInv ==
    /\ \A j \in Jobs : Current(j) /\ ~intent[j].safe =>
          \A e \in Execs : Unresolved(e) => e[1] = j
    /\ \A e, f \in Execs : Opens(e) /\ Opens(f) => e = f

(* Only the insertion of a row adds something unresolved.                    *)
RowsSettle(ins) ==
    \A e \in Execs \ ins : Unresolved(e)' => Unresolved(e) /\ execLeg'[e] = execLeg[e]

(* A worker resolves, or inserts the row of its leg.                         *)
LEMMA WorkerResolves ==
    ASSUME TypeOK, SubmissionInv, LockedInv, RowInv, NEW w \in Workers, WorkerStep(w) \/ Crash(w),
           Protected
    PROVE  RowsSettle(IF InsertExecution(w) THEN {ExecOf(w)} ELSE {})
<1>1. RowsKept(IF InsertExecution(w) THEN {ExecOf(w)} ELSE {}) BY WorkerKeeps
<1>2. execState \in [Execs -> ExecStates] BY DEF TypeOK, ExecsOK
<1>3. OutcomeStays BY DEF Protected
<1> QED BY <1>1, <1>2, <1>3 DEF RowsKept, RowsSettle, OutcomeStays, Unresolved

(* Everybody else resolves.                                                  *)
LEMMA OthersResolve ==
    ASSUME TypeOK, SubmissionInv, LockedInv, RowInv, Protected, [Next]_vars,
           ~\E w \in Workers : WorkerStep(w) \/ Crash(w)
    PROVE  RowsSettle({})
<1>1. RowsKept({}) BY OthersKeep DEF Next
<1>2. execState \in [Execs -> ExecStates] BY DEF TypeOK, ExecsOK
<1>3. OutcomeStays BY DEF Protected
<1> QED BY <1>1, <1>2, <1>3 DEF RowsKept, RowsSettle, OutcomeStays, Unresolved

(* The row of an opening order is the open leg's.                            *)
LEMMA OpensIsOpen ==
    ASSUME LegInv, NEW e \in Execs, Opens(e) PROVE e = <<e[1], "o">> /\ e[1] \in Jobs
<1>1. PICK j \in Jobs, k \in Kinds : e = <<j, k>> BY DEF Execs
<1>2. k # "c"
  <2>1. k = "c" => execState[<<j, "c">>] # "none" BY <1>1 DEF Opens, Unresolved
  <2> QED BY <1>1, <2>1 DEF LegInv, Closing, Opens
<1> QED BY <1>1, <1>2

(* Every step keeps opening orders alone.                                    *)
LEMMA NextAlone ==
    ASSUME MaxLockLoss = 0, Origins \subseteq {"RECONCILE"}, TypeOK, SubmissionInv, LockedInv,
           RowInv, QueueInv, LegInv, AloneInv, [Next]_vars
    PROVE  AloneInv'
<1>1. Protected BY NextProtected
<1>2. ASSUME NEW j \in Jobs, CurrentMade(j), ReconcileCommit PROVE AloneInv'
  <2>1. UNCHANGED <<execState, execLeg, pc, wk>> BY <1>2 DEF ReconcileCommit, execVars
  <2>2. jobState \in [Jobs -> JobStates] BY DEF TypeOK, JobsOK
  <2>3. \A k \in Jobs : Current(k)' => k = j
    BY <1>2, <2>1, <2>2 DEF CurrentMade, Current, Critical
  <2>4. ~intent'[j].safe => \A e \in Execs : ~Unresolved(e) BY <1>2 DEF CurrentMade
  <2>5. (\A k \in Jobs : Current(k) /\ ~intent[k].safe =>
            \A e \in Execs : Unresolved(e) => e[1] = k)'
    BY <2>1, <2>3, <2>4 DEF Unresolved, Current, Critical
  <2>6. (\A e, f \in Execs : Opens(e) /\ Opens(f) => e = f)'
    BY <2>1 DEF AloneInv, Opens, Unresolved
  <2> QED BY <2>5, <2>6 DEF AloneInv
<1>3. ASSUME CurrentKept, RowsSettle({}) PROVE AloneInv'
  <2>1. (\A j \in Jobs : Current(j) /\ ~intent[j].safe =>
            \A e \in Execs : Unresolved(e) => e[1] = j)'
    BY <1>3 DEF CurrentKept, RowsSettle, AloneInv, Unresolved, Current, Critical
  <2>2. (\A e, f \in Execs : Opens(e) /\ Opens(f) => e = f)'
    BY <1>3 DEF RowsSettle, AloneInv, Opens, Unresolved
  <2> QED BY <2>1, <2>2 DEF AloneInv
<1>4. ASSUME NEW w \in Workers, InsertExecution(w), CurrentKept PROVE AloneInv'
  <2>0. PICK i \in Execs : i = ExecOf(w)
    BY <1>4, ExecOfTyped DEF InsertExecution, TypeOK
  <2>1. /\ pc[w] = "insert" /\ Critical(w) /\ i = <<wk[w].job, wk[w].kind>>
        /\ wk[w].job \in Jobs /\ wk[w].kind \in Kinds
        /\ execLeg' = [execLeg EXCEPT ![i] = wk[w].leg]
    BY <1>4, <2>0, ExecOfTyped DEF InsertExecution, Critical, TypeOK, ExecOf
  <2>2. i[1] = wk[w].job /\ Current(wk[w].job) BY <2>1 DEF Current
  <2>3. \A e \in Execs \ {i} : Unresolved(e)' => Unresolved(e) /\ execLeg'[e] = execLeg[e]
    BY <1>1, <1>4, <2>0, WorkerResolves DEF RowsSettle, WorkerStep
  <2>4. \A j \in Jobs : Current(j)' => Current(j) /\ j = wk[w].job
    BY <1>4, <2>1, <2>2 DEF CurrentKept, QueueInv
  <2>5. UNCHANGED intent BY <1>4 DEF InsertExecution, jobVars
  <2>6. (\A j \in Jobs : Current(j) /\ ~intent[j].safe =>
            \A e \in Execs : Unresolved(e) => e[1] = j)'
    <3> SUFFICES ASSUME NEW j \in Jobs, Current(j)', ~intent'[j].safe, NEW e \in Execs,
                        Unresolved(e)'
                 PROVE  e[1] = j
      BY DEF Current, Critical, Unresolved
    <3>1. Current(j) /\ j = wk[w].job /\ ~intent[j].safe BY <2>4, <2>5
    <3>2. CASE e = i BY <2>2, <3>1, <3>2
    <3>3. CASE e # i
      <4>1. Unresolved(e) BY <2>3, <3>3
      <4> QED BY <3>1, <4>1 DEF AloneInv
    <3> QED BY <3>2, <3>3
  <2>7. ASSUME Opens(i)', NEW e \in Execs, Opens(e)' PROVE e = i
    <3>1. ~wk[w].leg.reduceOnly
      BY <2>1, <2>7 DEF Opens, TypeOK, ExecsOK
    <3>2. wk[w].kind = "o" /\ ~intent[wk[w].job].safe
      BY <2>1, <3>1 DEF LegInv, PlanBinds, Closing
    <3>3. CASE e # i
      <4>1. Unresolved(e) /\ Opens(e) BY <2>3, <2>7, <3>3 DEF Opens
      <4>2. e[1] = wk[w].job BY <2>1, <2>2, <3>2, <4>1 DEF AloneInv
      <4>3. e = <<e[1], "o">> BY <4>1, OpensIsOpen
      <4> QED BY <2>1, <3>2, <4>2, <4>3
    <3> QED BY <3>3
  <2>8. \A e \in Execs : Opens(e)' => Opens(e) \/ e = i BY <2>3 DEF Opens
  <2>9. (\A e, f \in Execs : Opens(e) /\ Opens(f) => e = f)'
    <3> SUFFICES ASSUME NEW e \in Execs, NEW f \in Execs, Opens(e)', Opens(f)' PROVE e = f
      BY DEF Opens, Unresolved
    <3>1. CASE e = i \/ f = i BY <2>7, <3>1
    <3>2. CASE e # i /\ f # i BY <2>8, <3>2 DEF AloneInv
    <3> QED BY <3>1, <3>2
  <2> QED BY <2>6, <2>9 DEF AloneInv
<1>5. CurrentKept \/ (ReconcileCommit /\ \E j \in Jobs : CurrentMade(j)) BY NextCurrent
<1>6. ASSUME CurrentKept, NEW w \in Workers, WorkerStep(w) \/ Crash(w) PROVE AloneInv'
  <2>1. CASE InsertExecution(w) BY <1>4, <1>6, <2>1
  <2>2. CASE ~InsertExecution(w)
    <3>1. RowsSettle({}) BY <1>1, <1>6, <2>2, WorkerResolves
    <3> QED BY <1>3, <1>6, <3>1
  <2> QED BY <2>1, <2>2
<1>7. CASE CurrentKept /\ ~\E w \in Workers : WorkerStep(w) \/ Crash(w)
  <2>1. RowsSettle({}) BY <1>1, <1>7, OthersResolve
  <2> QED BY <1>3, <1>7, <2>1
<1> QED BY <1>2, <1>5, <1>6, <1>7

-----------------------------------------------------------------------------
(* Space for what may be opened.                                             *)

(* A leg planned and not yet inserted.                                       *)
NewLeg(w) == pc[w] \in {"leg", "insert"} /\ NoRow(ExecOf(w))

OrderSpace ==
    \A e \in Execs : Opens(e) /\ order[e] \in {"none", "wire"} =>
        Space(execLeg[e].delta, pos, manuals)
LegSpace ==
    \A w \in Workers : NewLeg(w) /\ ~wk[w].leg.reduceOnly => Space(wk[w].leg.delta, pos, manuals)
JobRoom ==
    \A j \in Jobs : Current(j) /\ ~intent[j].safe /\ NoRow(<<j, "o">>) =>
        Room(ledger.size, intent[j].target, pos, manuals)
SnapRoom ==
    /\ res.pc = "snapped" /\ NoOpen => \A t \in Reach : Room(res.snap, t, pos, manuals)
    /\ rec.pc = "held" /\ NoOpen => \A t \in Reach : Room(rec.snap, t, pos, manuals)

SpaceInv == Within(pos, manuals) /\ OrderSpace /\ LegSpace /\ JobRoom /\ SnapRoom

(* A move of the position that takes no room and no space.                   *)
Keeps(p, m, q, n) ==
    /\ Within(q, n)
    /\ \A d \in Int : Space(d, p, m) => Space(d, q, n)
    /\ \A size \in Int, t \in Reach : Room(size, t, p, m) => Room(size, t, q, n)

(* The jobs there are have targets in range.                                 *)
LEMMA CurrentInRange ==
    ASSUME QueueInv, NEW j \in Jobs, Current(j) PROVE intent[j].target \in Reach
<1>1. Created(j) BY DEF Current, QueueInv, Created, Critical
<1> QED BY <1>1 DEF QueueInv

(* Such a move, and nothing else that counts.                                *)
LEMMA QuietSpace ==
    ASSUME TypeOK, QueueInv, SpaceInv, CurrentKept,
           UNCHANGED <<execState, execLeg, pc, wk, ledger, res, rec>>,
           \A e \in Execs : order'[e] \in {"none", "wire"} => order[e] \in {"none", "wire"},
           Keeps(pos, manuals, pos', manuals')
    PROVE  SpaceInv'
<1>t. /\ execLeg \in [Execs -> Legs] /\ wk \in [Workers -> Works] /\ ledger.size \in Int
      /\ res.snap \in Int /\ rec.snap \in Int
  BY DEF TypeOK, ExecsOK, WorkersOK, LedgerOK, Ledgers, MaintenanceOK, Resolutions,
         Reconciliations
<1>k. /\ Within(pos', manuals')
      /\ \A d \in Int : Space(d, pos, manuals) => Space(d, pos', manuals')
      /\ \A size \in Int, t \in Reach :
            Room(size, t, pos, manuals) => Room(size, t, pos', manuals')
  BY DEF Keeps
<1>1. Within(pos, manuals)' BY <1>k DEF Within
<1>2. OrderSpace'
  <2> SUFFICES ASSUME NEW e \in Execs, Opens(e)', order'[e] \in {"none", "wire"}
               PROVE  Space(execLeg'[e].delta, pos', manuals')
    BY DEF OrderSpace, Opens, Unresolved, Space, Within
  <2>1. Opens(e) /\ order[e] \in {"none", "wire"} BY DEF Opens, Unresolved
  <2>2. Space(execLeg[e].delta, pos, manuals) BY <2>1 DEF SpaceInv, OrderSpace
  <2>3. execLeg[e].delta \in Int BY <1>t DEF Legs
  <2> QED BY <1>k, <2>2, <2>3
<1>3. LegSpace'
  <2> SUFFICES ASSUME NEW w \in Workers, NewLeg(w)', ~wk'[w].leg.reduceOnly
               PROVE  Space(wk'[w].leg.delta, pos', manuals')
    BY DEF LegSpace, NewLeg, NoRow, ExecOf, Space, Within
  <2>1. NewLeg(w) /\ ~wk[w].leg.reduceOnly BY DEF NewLeg, NoRow, ExecOf
  <2>2. Space(wk[w].leg.delta, pos, manuals) BY <2>1 DEF SpaceInv, LegSpace
  <2>3. wk[w].leg.delta \in Int BY <1>t DEF Works, Legs
  <2> QED BY <1>k, <2>2, <2>3
<1>4. JobRoom'
  <2> SUFFICES ASSUME NEW j \in Jobs, Current(j)', ~intent'[j].safe, NoRow(<<j, "o">>)'
               PROVE  Room(ledger'.size, intent'[j].target, pos', manuals')
    BY DEF JobRoom, Current, Critical, NoRow, Room, Within, Reversing, ReduceOnly
  <2>1. Current(j) /\ ~intent[j].safe /\ NoRow(<<j, "o">>) /\ intent'[j] = intent[j]
    BY DEF CurrentKept, NoRow
  <2>2. Room(ledger.size, intent[j].target, pos, manuals) BY <2>1 DEF SpaceInv, JobRoom
  <2>3. intent[j].target \in Reach BY <2>1, CurrentInRange
  <2> QED BY <1>t, <1>k, <2>1, <2>2, <2>3
<1>5. SnapRoom'
  <2>1. NoOpen' => NoOpen BY DEF NoOpen, Opens, Unresolved
  <2>2. res'.pc = "snapped" /\ NoOpen' => \A t \in Reach : Room(res'.snap, t, pos', manuals')
    BY <1>t, <1>k, <2>1 DEF SpaceInv, SnapRoom
  <2>3. rec'.pc = "held" /\ NoOpen' => \A t \in Reach : Room(rec'.snap, t, pos', manuals')
    BY <1>t, <1>k, <2>1 DEF SpaceInv, SnapRoom
  <2> QED BY <2>2, <2>3 DEF SnapRoom, NoOpen, Opens, Unresolved, Reach, Room, Within
<1> QED BY <1>1, <1>2, <1>3, <1>4, <1>5 DEF SpaceInv

(* A worker that has a leg to open has an open leg, of a job that may open.  *)
LEMMA LegOpens ==
    ASSUME TypeOK, LegInv, NEW w \in Workers, pc[w] \in {"leg", "insert"},
           ~wk[w].leg.reduceOnly
    PROVE  /\ ExecOf(w) = <<wk[w].job, "o">> /\ wk[w].job \in Jobs
           /\ Current(wk[w].job) /\ ~intent[wk[w].job].safe
<1>1. wk[w].kind \in Kinds /\ wk[w].job \in Jobs BY ExecOfTyped DEF TypeOK
<1>2. PlanBinds(w) BY DEF LegInv
<1>3. wk[w].kind # "c" /\ ~intent[wk[w].job].safe BY <1>2 DEF PlanBinds, Closing
<1> QED BY <1>1, <1>3 DEF ExecOf, Current, Critical

(* A job that may open and has no open leg yet: no opening order is under    *)
(* way at all.                                                               *)
LEMMA NothingOpens ==
    ASSUME LegInv, AloneInv, NEW j \in Jobs, Current(j), ~intent[j].safe, NoRow(<<j, "o">>)
    PROVE  NoOpen
<1> SUFFICES ASSUME NEW e \in Execs, Opens(e) PROVE FALSE BY DEF NoOpen
<1>1. e = <<e[1], "o">> BY OpensIsOpen
<1>2. e[1] = j BY DEF AloneInv, Opens
<1> QED BY <1>1, <1>2 DEF NoRow, Opens, Unresolved

(* The exchange: a reducing fill takes no room.                              *)
LEMMA ReducingFill ==
    ASSUME TypeOK, SpaceInv, NEW e \in Execs, execLeg[e].reduceOnly, Fill(e)
    PROVE  Keeps(pos, manuals, pos', manuals')
<1>t. pos \in Int /\ manuals \in Nat /\ execLeg[e].delta \in Int /\ UNCHANGED manuals
  BY DEF TypeOK, ExchangeOK, SourcesOK, ExecsOK, Legs, Fill, ghosts
<1>1. PICK f \in FillSizes(e) : pos' = pos + f BY DEF Fill
<1>2. f \in Int /\ (f < 0) = (pos > 0) /\ Abs(f) <= Abs(pos) /\ f # 0
  BY <1>t DEF FillSizes, Trimmed
<1>3. PICK q \in Int : q = pos + f BY <1>t, <1>2
<1>4. (0 <= q /\ q <= pos) \/ (pos <= q /\ q <= 0) BY <1>t, <1>2, <1>3 DEF Abs
<1>5. Within(q, manuals)
  <2>1. PICK p \in Reach : Abs(pos) <= Abs(p) + manuals BY DEF SpaceInv, Within
  <2>2. p \in Int BY ReachTyped
  <2>3. Abs(q) <= Abs(pos) BY <1>t, <1>4 DEF Abs
  <2>4. Abs(q) \in Nat /\ Abs(pos) \in Nat /\ Abs(p) \in Nat BY <1>t, <2>2 DEF Abs
  <2>5. Abs(q) <= Abs(p) + manuals BY <1>t, <2>1, <2>3, <2>4
  <2> QED BY <2>5 DEF Within
<1>6. \A d \in Int : Space(d, pos, manuals) => Space(d, q, manuals)
  BY <1>t, <1>4, SpaceReduced
<1>7. \A size \in Int, t \in Reach : Room(size, t, pos, manuals) => Room(size, t, q, manuals)
  BY <1>t, <1>4, RoomReduced
<1> QED BY <1>t, <1>1, <1>3, <1>5, <1>6, <1>7 DEF Keeps

(* The follower: a trade by hand brings its own room.                        *)
LEMMA TradeKeeps ==
    ASSUME TypeOK, SpaceInv, ManualTrade PROVE Keeps(pos, manuals, pos', manuals')
<1>t. pos \in Int /\ manuals \in Nat BY DEF TypeOK, ExchangeOK, SourcesOK
<1>1. PICK x \in {-1, 1} : pos' = pos + x /\ manuals' = manuals + 1 BY DEF ManualTrade
<1>2. Within(pos', manuals')
  <2>1. pos + x \in {pos - 1, pos, pos + 1} BY <1>t
  <2>2. Within(pos, manuals) BY DEF SpaceInv
  <2>3. Within(pos + x, manuals + 1) BY <1>t, <2>1, <2>2, WithinTrade
  <2> QED BY <1>1, <2>3
<1>3. \A d \in Int : Space(d, pos, manuals) => Space(d, pos + x, manuals + 1)
  BY <1>t, SpaceTraded
<1>4. \A size \in Int, t \in Reach :
         Room(size, t, pos, manuals) => Room(size, t, pos + x, manuals + 1)
  BY <1>t, RoomTraded
<1> QED BY <1>1, <1>2, <1>3, <1>4 DEF Keeps

(* The fill of the one opening order: there was space for it, and nothing    *)
(* else is going to open.                                                    *)
LEMMA OpeningFill ==
    ASSUME TypeOK, QueueInv, WireInv, LegInv, AloneInv, SpaceInv, NEW e \in Execs,
           ~execLeg[e].reduceOnly, Fill(e)
    PROVE  SpaceInv'
<1>t. /\ pos \in Int /\ manuals \in Nat /\ execLeg[e].delta \in Int
      /\ UNCHANGED <<manuals, execState, execLeg, pc, wk, ledger, res, rec, jobState, intent>>
  BY DEF TypeOK, ExchangeOK, SourcesOK, ExecsOK, Legs, Fill, ghosts, execVars, jobVars
<1>1. Opens(e) /\ Opens(e)' BY <1>t DEF Fill, WireInv, Opens, Unresolved
<1>2. e = <<e[1], "o">> /\ e[1] \in Jobs BY <1>1, OpensIsOpen
<1>3. ~NoRow(e) BY <1>1 DEF NoRow, Opens, Unresolved
<1>4. Within(pos, manuals)'
  <2>1. PICK f \in FillSizes(e) : pos' = pos + f BY DEF Fill
  <2> DEFINE d == execLeg[e].delta
  <2>2. f \in Int /\ ((pos <= pos + f /\ pos + f <= pos + d) \/ (pos + d <= pos + f /\ pos + f <= pos))
    BY <1>t DEF FillSizes, Trimmed
  <2>3. Within(pos, manuals) /\ Within(pos + d, manuals)
    BY <1>1 DEF SpaceInv, OrderSpace, Space, Fill
  <2>4. Within(pos + f, manuals) BY <1>t, <2>2, <2>3, WithinBetween
  <2> QED BY <1>t, <2>1, <2>4
<1>5. OrderSpace'
  <2> SUFFICES ASSUME NEW x \in Execs, Opens(x)', order'[x] \in {"none", "wire"} PROVE FALSE
    BY DEF OrderSpace, Opens, Unresolved
  <2>1. Opens(x) BY <1>t DEF Opens, Unresolved
  <2>2. x = e BY <1>1, <2>1 DEF AloneInv
  <2>3. order'[e] = "filled" BY DEF Fill, TypeOK, ExchangeOK
  <2> QED BY <2>2, <2>3
<1>6. LegSpace'
  <2> SUFFICES ASSUME NEW w \in Workers, NewLeg(w)', ~wk'[w].leg.reduceOnly PROVE FALSE
    BY DEF LegSpace, NewLeg, NoRow, ExecOf
  <2>1. pc[w] \in {"leg", "insert"} /\ NoRow(ExecOf(w)) /\ ~wk[w].leg.reduceOnly
    BY <1>t DEF NewLeg, NoRow, ExecOf
  <2>2. /\ ExecOf(w) = <<wk[w].job, "o">> /\ wk[w].job \in Jobs
        /\ Current(wk[w].job) /\ ~intent[wk[w].job].safe
    BY <2>1, LegOpens
  <2>3. e[1] = wk[w].job BY <1>1, <2>2 DEF AloneInv, Opens
  <2> QED BY <1>2, <1>3, <2>1, <2>2, <2>3
<1>7. JobRoom'
  <2> SUFFICES ASSUME NEW j \in Jobs, Current(j)', ~intent'[j].safe, NoRow(<<j, "o">>)' PROVE FALSE
    BY DEF JobRoom, Current, Critical, NoRow
  <2>1. Current(j) /\ ~intent[j].safe /\ NoRow(<<j, "o">>)
    BY <1>t DEF Current, Critical, NoRow
  <2>2. NoOpen BY <2>1, NothingOpens
  <2> QED BY <1>1, <2>2 DEF NoOpen
<1>8. SnapRoom'
  <2>1. ~NoOpen' BY <1>1 DEF NoOpen, Opens, Unresolved
  <2> QED BY <2>1 DEF SnapRoom, NoOpen, Opens, Unresolved
<1> QED BY <1>4, <1>5, <1>6, <1>7, <1>8 DEF SpaceInv

(* Every step of the exchange.                                               *)
LEMMA ExchangeSpace ==
    ASSUME TypeOK, QueueInv, WireInv, LegInv, AloneInv, SpaceInv, ExchangeStep
    PROVE  SpaceInv'
<1>1. UNCHANGED <<jobState, intent, execState, execLeg, pc, wk, ledger, res, rec>>
  BY DEF ExchangeStep, Fill, NotFilled, ManualTrade, jobVars, execVars
<1>2. CurrentKept BY <1>1, CurrentStays
<1>3. ASSUME NEW e \in Execs, Fill(e) \/ NotFilled(e)
      PROVE  \A x \in Execs : order'[x] \in {"none", "wire"} => order[x] \in {"none", "wire"}
  BY <1>3, ExchangeMoves
<1>4. ASSUME NEW e \in Execs, Fill(e) PROVE SpaceInv'
  <2>1. CASE execLeg[e].reduceOnly BY <1>1, <1>2, <1>3, <1>4, <2>1, ReducingFill, QuietSpace
  <2>2. CASE ~execLeg[e].reduceOnly BY <1>4, <2>2, OpeningFill
  <2> QED BY <2>1, <2>2
<1>5. ASSUME UNCHANGED <<pos, manuals>> PROVE Keeps(pos, manuals, pos', manuals')
  BY <1>5 DEF Keeps, SpaceInv
<1>6. ASSUME NEW e \in Execs, NotFilled(e) PROVE SpaceInv'
  <2>1. UNCHANGED <<pos, manuals>> BY <1>6 DEF NotFilled, ghosts
  <2> QED BY <1>1, <1>2, <1>3, <1>5, <1>6, <2>1, QuietSpace
<1>7. CASE ManualTrade
  <2>1. UNCHANGED order BY <1>7 DEF ManualTrade
  <2> QED BY <1>1, <1>2, <1>7, <2>1, TradeKeeps, QuietSpace
<1> QED BY <1>4, <1>6, <1>7 DEF ExchangeStep

(* Only Plan, LegFresh and ApplyFill put a worker before a row.              *)
LEMMA LegFrom ==
    ASSUME TypeOK, NEW w \in Workers, WorkerStep(w) \/ Crash(w), pc'[w] \in {"leg", "insert"}
    PROVE  Plan(w) \/ LegFresh(w) \/ ApplyFill(w)
<1>t. pc \in [Workers -> PCs] BY DEF TypeOK, WorkersOK
<1>1. ~\E j \in Jobs : Claim(w, j) BY <1>t DEF Claim
<1>2. ~(AcquireLock(w) \/ ClaimLost(w) \/ InsertExecution(w) \/ InsertConflict(w) \/ Authorize(w)
        \/ Submit(w) \/ Finish(w) \/ Crash(w))
  BY <1>t DEF AcquireLock, ClaimLost, InsertExecution, InsertConflict, Authorize, Submit, Finish,
              Crash
<1>3. ASSUME (\E r \in Results : GoFinish(w, r)) \/ \E out \in ExecStates : Dispatch(w, out)
      PROVE  FALSE
  BY <1>3, DispatchKeeps
<1>4. ~(Decline(w) \/ PreSubmitCancel(w) \/ SubmitAmbiguous(w) \/ ApplyDeferred(w))
  BY <1>3 DEF Decline, PreSubmitCancel, SubmitAmbiguous, ApplyDeferred
<1>5. ~(LegStored(w) \/ LegResolve(w) \/ Response(w))
  BY <1>3 DEF LegStored, LegResolve, Response, QueryOutcomes
<1> QED BY <1>1, <1>2, <1>4, <1>5 DEF WorkerStep

(* sizing.plan: what is planned from the ledger has space.                   *)
LEMMA PlanSpace ==
    ASSUME TypeOK, QueueInv, SpaceInv, NEW w \in Workers, Plan(w),
           NewLeg(w)', ~wk'[w].leg.reduceOnly
    PROVE  Space(wk'[w].leg.delta, pos, manuals)
<1> DEFINE j   == wk[w].job
           cur == ledger.size
           tgt == intent[j].target
<1>t. /\ wk \in [Workers -> Works] /\ cur \in Int /\ pos \in Int /\ manuals \in Nat
      /\ UNCHANGED <<intent, execState>> /\ pc[w] = "plan"
  BY DEF Plan, TypeOK, WorkersOK, LedgerOK, Ledgers, ExchangeOK, SourcesOK, jobVars, execVars
<1>c. j \in Jobs /\ Current(j) BY <1>t DEF TypeOK, WorkersOK, Current, Critical
<1>1. PICK d \in PrimaryDeltas(cur, tgt), more \in BOOLEAN :
         wk' = [wk EXCEPT ![w].led = ledger,
                          ![w].kind = IF Reversing(cur, tgt) THEN "c" ELSE "o",
                          ![w].leg = [delta |-> d, reduceOnly |-> ReduceOnly(cur, tgt),
                                      before |-> cur, last |-> ledger.last],
                          ![w].more = more]
  BY DEF Plan
<1>2. /\ wk'[w].job = j /\ wk'[w].kind = IF Reversing(cur, tgt) THEN "c" ELSE "o"
      /\ wk'[w].leg.delta = d /\ wk'[w].leg.reduceOnly = ReduceOnly(cur, tgt)
  BY <1>1, <1>t DEF Works
<1>3. ~ReduceOnly(cur, tgt) BY <1>2
<1>4. tgt \in Reach /\ tgt \in Int BY <1>c, CurrentInRange, ReachTyped
<1>5. ~Reversing(cur, tgt) BY <1>3, <1>t DEF ReduceOnly, Reversing
<1>6. ~intent[j].safe BY <1>3 DEF Plan
<1>7. NoRow(<<j, "o">>) BY <1>t, <1>2, <1>5 DEF NewLeg, NoRow, ExecOf
<1>8. Room(cur, tgt, pos, manuals) /\ Within(pos, manuals)
  BY <1>c, <1>6, <1>7 DEF SpaceInv, JobRoom
<1>9. d \in Trimmed(tgt - cur) BY <1>3, <1>5 DEF PrimaryDeltas
<1> HIDE DEF j, cur, tgt
<1>10. Space(d, pos, manuals) BY <1>t, <1>3, <1>4, <1>8, <1>9, RoomOpens
<1> QED BY <1>2, <1>10

(* The open leg after a close leg has the room a reversal needs.             *)
LEMMA ApplySpace ==
    ASSUME TypeOK, CopyInv, QueueInv, LegInv, SpaceInv, NEW w \in Workers, ApplyFill(w),
           NewLeg(w)'
    PROVE  Space(wk'[w].leg.delta, pos, manuals)
<1> DEFINE j   == wk[w].job
           tgt == intent[j].target
           d   == wk'[w].leg.delta
<1>t. /\ wk \in [Workers -> Works] /\ pos \in Int /\ manuals \in Nat /\ ledger.size \in Int
      /\ UNCHANGED <<intent, execState>> /\ pc[w] = "apply" /\ pc'[w] \in {"leg", "insert"}
  BY DEF ApplyFill, TypeOK, WorkersOK, LedgerOK, Ledgers, ExchangeOK, SourcesOK, jobVars, NewLeg
<1>c. j \in Jobs /\ Current(j) BY <1>t DEF TypeOK, WorkersOK, Current, Critical
<1>l. pc'[w] = "leg"
  <2>1. pc' = [pc EXCEPT ![w] = "leg"] \/ \E r \in Results : GoFinish(w, r) BY DEF ApplyFill
  <2>2. pc \in [Workers -> PCs] BY DEF TypeOK, WorkersOK
  <2> QED BY <1>t, <2>1, <2>2 DEF GoFinish
<1>1. /\ wk[w].kind = "c" /\ wk[w].more /\ wk'[w].job = j /\ wk'[w].kind = "o"
      /\ d \in Trimmed(tgt)
  BY <1>l, ApplyFits
<1>2. NoRow(<<j, "o">>) BY <1>t, <1>1 DEF NewLeg, NoRow, ExecOf
<1>3. wk[w].led = ledger BY <1>t DEF CopyInv, Planned
<1>4. Reversing(ledger.size, tgt) /\ ~intent[j].safe BY <1>t, <1>1, <1>3 DEF LegInv, PlanBinds, Planned
<1>5. Room(ledger.size, tgt, pos, manuals) /\ Within(pos, manuals)
  BY <1>c, <1>2, <1>4 DEF SpaceInv, JobRoom
<1>6. Within(pos + tgt, manuals) BY <1>4, <1>5 DEF Room
<1>7. tgt \in Reach /\ tgt \in Int BY <1>c, CurrentInRange, ReachTyped
<1> HIDE DEF j, tgt, d
<1>8. /\ d \in Int /\ Abs(d) <= Abs(tgt)
      /\ (pos <= pos + d /\ pos + d <= pos + tgt) \/ (pos + tgt <= pos + d /\ pos + d <= pos)
  BY <1>t, <1>1, <1>7 DEF Trimmed, Abs
<1>9. Within(d, manuals) BY <1>t, <1>7, <1>8, WithinReach
<1>10. Within(pos + d, manuals) BY <1>t, <1>5, <1>6, <1>7, <1>8, WithinBetween
<1> QED BY <1>9, <1>10 DEF Space, d

(* A worker's new leg has space.                                             *)
LEMMA WorkerLegSpace ==
    ASSUME TypeOK, CopyInv, QueueInv, LegInv, SpaceInv, NEW w \in Workers,
           WorkerStep(w) \/ Crash(w), NewLeg(w)', ~wk'[w].leg.reduceOnly
    PROVE  Space(wk'[w].leg.delta, pos, manuals)
<1>1. Plan(w) \/ LegFresh(w) \/ ApplyFill(w) BY LegFrom DEF NewLeg
<1>2. CASE LegFresh(w)
  <2>1. UNCHANGED wk /\ pc[w] = "leg" /\ NoRow(ExecOf(w)) BY <1>2 DEF LegFresh
  <2> QED BY <2>1 DEF NewLeg, SpaceInv, LegSpace
<1> QED BY <1>1, <1>2, PlanSpace, ApplySpace

(* _apply_fill_to_ledger: the ledger after a close leg still has room for    *)
(* the target.                                                               *)
LEMMA ApplyRoom ==
    ASSUME TypeOK, FillInv, RowInv, CopyInv, QueueInv, LegInv, SpaceInv, NEW w \in Workers,
           ApplyFill(w), ~intent[wk[w].job].safe, NoRow(<<wk[w].job, "o">>)
    PROVE  Room(ledger'.size, intent[wk[w].job].target, pos, manuals)
<1> DEFINE j    == wk[w].job
           e    == ExecOf(w)
           led  == wk[w].led
           mode == ApplyMode(e, led)
           size == IF mode = "applied" THEN execLeg[e].before + execFill[e] ELSE led.size
<1>t. /\ ledger \in Ledgers /\ ledger.size \in Int /\ pos \in Int /\ manuals \in Nat
      /\ pc[w] = "apply"
  BY DEF ApplyFill, TypeOK, LedgerOK, Ledgers, ExchangeOK, SourcesOK
<1>c. j \in Jobs /\ Current(j) /\ wk[w].kind \in Kinds /\ e \in Execs
  BY <1>t, ExecOfTyped DEF TypeOK, WorkersOK, Current, Critical
<1>1. led = ledger /\ execState[e] = "FILLED" BY <1>t DEF CopyInv, Planned
<1>2. wk[w].kind = "c" /\ e = <<j, "c">> BY <1>c, <1>1 DEF NoRow, ExecOf
<1>3. Reversing(ledger.size, intent[j].target)
  BY <1>t, <1>1, <1>2 DEF LegInv, PlanBinds, Planned
<1>4. Room(ledger.size, intent[j].target, pos, manuals) BY <1>c DEF SpaceInv, JobRoom
<1>5. intent[j].target \in Reach BY <1>c, CurrentInRange
<1>6. \/ UNCHANGED ledger
      \/ ledger' = [ledger EXCEPT !.size = IF mode = "applied" THEN size ELSE @, !.last = e]
  BY DEF ApplyFill
<1>7. CASE mode = "applied" /\ ~UNCHANGED ledger
  <2>1. led.size = execLeg[e].before BY <1>7 DEF ApplyMode
  <2>2. execFill[e] = xfill[e] /\ order[e] = "filled" BY <1>c, <1>1 DEF FillInv
  <2>3. execLeg[e].delta = -execLeg[e].before BY <1>c, <1>1, <1>2 DEF LegInv, Closing
  <2>4. xfill[e] \in Trimmed(-ledger.size) BY <1>c, <1>1, <2>1, <2>2, <2>3 DEF RowInv
  <2>5. size = ledger.size + xfill[e] BY <1>1, <1>7, <2>1, <2>2
  <2> HIDE DEF mode, size, led
  <2>6. ledger'.size = size BY <1>t, <1>6, <1>7 DEF Ledgers
  <2>7. Room(ledger.size + xfill[e], intent[j].target, pos, manuals)
    BY <1>t, <1>3, <1>4, <1>5, <2>4, RoomClosed
  <2> QED BY <2>5, <2>6, <2>7
<1>8. CASE ~(mode = "applied" /\ ~UNCHANGED ledger)
  <2> HIDE DEF mode, size, led
  <2>1. ledger'.size = ledger.size BY <1>t, <1>6, <1>8 DEF Ledgers
  <2> QED BY <1>4, <2>1
<1> QED BY <1>7, <1>8

(* Every step of a worker.                                                   *)
LEMMA WorkerSpace ==
    ASSUME TypeOK, SubmissionInv, LockedInv, FillInv, RowInv, CopyInv, QueueInv, LegInv, AloneInv,
           SpaceInv, Protected, NEW w \in Workers, WorkerStep(w) \/ Crash(w)
    PROVE  SpaceInv'
<1>1. /\ CurrentKept /\ OthersStay(w) /\ UNCHANGED <<pos, manuals, intent, res, rec>>
      /\ ~Critical(w) => UNCHANGED ledger
  BY WorkerCurrent, WorkerAlone, WorkerJobs, WorkerCopies DEF JobTurns, OthersStay
<1>2. RowsSettle(IF InsertExecution(w) THEN {ExecOf(w)} ELSE {}) BY WorkerResolves
<1>3. \A e \in Execs : NoRow(e)' => NoRow(e)
  <2>1. [Next]_vars BY DEF Next
  <2> QED BY <2>1, NextKeeps DEF NoRow
<1>4. \A e \in Execs : order'[e] \in {"none", "wire"} => order[e] \in {"none", "wire"}
  <2>1. CASE Submit(w) BY <2>1, SubmitMoves DEF TypeOK, ExchangeOK
  <2>2. CASE ~Submit(w) BY <2>2, OrdersStay DEF exchVars
  <2> QED BY <2>1, <2>2
<1>5. Within(pos, manuals)' BY <1>1 DEF SpaceInv, Within
<1>6. OrderSpace'
  <2> SUFFICES ASSUME NEW e \in Execs, Opens(e)', order'[e] \in {"none", "wire"}
               PROVE  Space(execLeg'[e].delta, pos, manuals)
    BY <1>1 DEF OrderSpace, Opens, Unresolved, Space, Within
  <2>1. CASE InsertExecution(w) /\ e = ExecOf(w)
    <3>1. /\ execLeg'[e] = wk[w].leg /\ pc[w] = "insert" /\ NoRow(ExecOf(w))
      BY <2>1 DEF InsertExecution, TypeOK, ExecsOK
    <3>2. ~wk[w].leg.reduceOnly BY <3>1 DEF Opens
    <3> QED BY <3>1, <3>2 DEF SpaceInv, LegSpace, NewLeg
  <2>2. CASE ~(InsertExecution(w) /\ e = ExecOf(w))
    <3>1. Unresolved(e) /\ execLeg'[e] = execLeg[e] BY <1>2, <2>2 DEF RowsSettle, Opens
    <3>2. Opens(e) /\ order[e] \in {"none", "wire"} BY <1>4, <3>1 DEF Opens
    <3> QED BY <3>1, <3>2 DEF SpaceInv, OrderSpace
  <2> QED BY <2>1, <2>2
<1>7. LegSpace'
  <2> SUFFICES ASSUME NEW v \in Workers, NewLeg(v)', ~wk'[v].leg.reduceOnly
               PROVE  Space(wk'[v].leg.delta, pos, manuals)
    BY <1>1 DEF LegSpace, NewLeg, NoRow, ExecOf, Space, Within
  <2>1. CASE v = w BY <2>1, WorkerLegSpace
  <2>2. CASE v # w
    <3>1. pc'[v] = pc[v] /\ wk'[v] = wk[v] BY <1>1, <2>2 DEF OthersStay
    <3>2. pc[v] \in {"leg", "insert"} /\ execState'[ExecOf(v)] = "none"
      BY <3>1 DEF NewLeg, NoRow, ExecOf
    <3>3. ExecOf(v) \in Execs BY <3>2, ExecOfTyped DEF TypeOK
    <3>4. NoRow(ExecOf(v))
      <4>1. PICK x \in Execs : x = ExecOf(v) BY <3>3
      <4> QED BY <1>3, <3>2, <4>1 DEF NoRow
    <3> QED BY <3>1, <3>2, <3>4 DEF SpaceInv, LegSpace, NewLeg
  <2> QED BY <2>1, <2>2
<1>8. JobRoom'
  <2> SUFFICES ASSUME NEW j \in Jobs, Current(j)', ~intent'[j].safe, NoRow(<<j, "o">>)'
               PROVE  Room(ledger'.size, intent[j].target, pos, manuals)
    BY <1>1 DEF JobRoom, Current, Critical, NoRow, Room, Within, Reversing, ReduceOnly
  <2>1. <<j, "o">> \in Execs BY DEF Execs
  <2>2. Current(j) /\ ~intent[j].safe /\ NoRow(<<j, "o">>)
    BY <1>1, <1>3, <2>1 DEF CurrentKept
  <2>3. CASE ApplyFill(w)
    <3>1. pc[w] = "apply" BY <2>3 DEF ApplyFill
    <3>2. wk[w].job \in Jobs /\ Current(wk[w].job)
      BY <3>1 DEF TypeOK, WorkersOK, Current, Critical
    <3>3. wk[w].job = j BY <2>2, <3>2 DEF QueueInv
    <3> QED BY <2>2, <2>3, <3>3, ApplyRoom
  <2>4. CASE ~ApplyFill(w)
    <3>1. UNCHANGED ledger
      BY <2>4 DEF WorkerStep, Claim, AcquireLock, ClaimLost, Decline, Plan, LegFresh, LegStored,
         LegResolve, InsertExecution, InsertConflict, Authorize, PreSubmitCancel, Submit,
         SubmitAmbiguous, Response, ApplyDeferred, Finish, Crash
    <3> QED BY <2>2, <3>1 DEF SpaceInv, JobRoom
  <2> QED BY <2>3, <2>4
<1>9. SnapRoom'
  <2>1. ASSUME res.pc # "idle" \/ rec.pc = "held" PROVE NoOpen' => NoOpen
    <3>1. ~Critical(w) BY <2>1, ActorsAssumption DEF LockedInv, LockInv
    <3>2. UNCHANGED execState
      <4>1. RowMoves(w) BY WorkerRows DEF LockedInv
      <4>2. \A e \in Execs : execState'[e] = execState[e] BY <3>1, <4>1 DEF RowMoves
      <4>3. execState' \in [Execs -> ExecStates] /\ execState \in [Execs -> ExecStates]
        BY WorkerStepTyped, OtherStepTyped DEF TypeOK, ExecsOK
      <4> QED BY <4>2, <4>3
    <3>3. ~InsertExecution(w) BY <3>1 DEF InsertExecution, Critical
    <3>4. \A e \in Execs : execState[e] # "none" => execLeg'[e] = execLeg[e]
      BY NextKeeps DEF Next
    <3> QED BY <3>2, <3>4 DEF NoOpen, Opens, Unresolved
  <2>2. res'.pc = "snapped" /\ NoOpen' => \A t \in Reach : Room(res'.snap, t, pos, manuals)
    BY <1>1, <2>1 DEF SpaceInv, SnapRoom
  <2>3. rec'.pc = "held" /\ NoOpen' => \A t \in Reach : Room(rec'.snap, t, pos, manuals)
    BY <1>1, <2>1 DEF SpaceInv, SnapRoom
  <2> QED BY <1>1, <2>2, <2>3 DEF SnapRoom, NoOpen, Opens, Unresolved, Reach, Room, Within
<1> QED BY <1>5, <1>6, <1>7, <1>8, <1>9 DEF SpaceInv

(* Resolver and reconciler move no worker and no position: what is left is   *)
(* the ledger and their snapshots.                                           *)
LEMMA HolderSpace ==
    ASSUME TypeOK, SpaceInv, UNCHANGED <<pos, manuals, order, pc, wk>>, RowsSettle({}),
           RowsKept({}), JobRoom', SnapRoom'
    PROVE  SpaceInv'
<1>1. Within(pos, manuals)' BY DEF SpaceInv, Within
<1>2. OrderSpace'
  <2> SUFFICES ASSUME NEW e \in Execs, Opens(e)', order'[e] \in {"none", "wire"}
               PROVE  Space(execLeg'[e].delta, pos, manuals)
    BY DEF OrderSpace, Opens, Unresolved, Space, Within
  <2>1. Unresolved(e) /\ execLeg'[e] = execLeg[e] BY DEF RowsSettle, Opens
  <2>2. Opens(e) /\ order[e] \in {"none", "wire"} BY <2>1 DEF Opens
  <2> QED BY <2>1, <2>2 DEF SpaceInv, OrderSpace
<1>3. LegSpace'
  <2> SUFFICES ASSUME NEW v \in Workers, NewLeg(v)', ~wk'[v].leg.reduceOnly
               PROVE  Space(wk[v].leg.delta, pos, manuals)
    BY DEF LegSpace, NewLeg, NoRow, ExecOf, Space, Within
  <2>1. pc[v] \in {"leg", "insert"} /\ execState'[ExecOf(v)] = "none"
    BY DEF NewLeg, NoRow, ExecOf
  <2>2. ExecOf(v) \in Execs BY <2>1, ExecOfTyped DEF TypeOK
  <2>3. execState[ExecOf(v)] = "none" BY <2>1, <2>2 DEF RowsKept
  <2> QED BY <2>1, <2>3 DEF SpaceInv, LegSpace, NewLeg, NoRow
<1> QED BY <1>1, <1>2, <1>3 DEF SpaceInv

(* SyncLedger: a snapshot with room for every target makes a ledger with     *)
(* room for the current one.                                                 *)
LEMMA SyncRoom ==
    ASSUME TypeOK, QueueInv, LegInv, AloneInv, SpaceInv, CurrentKept, RowsKept({}),
           UNCHANGED <<pos, manuals>>, NEW snap \in Int,
           UNCHANGED ledger \/ ledger'.size = snap,
           ~UNCHANGED ledger /\ NoOpen => \A t \in Reach : Room(snap, t, pos, manuals)
    PROVE  JobRoom'
<1> SUFFICES ASSUME NEW j \in Jobs, Current(j)', ~intent'[j].safe, NoRow(<<j, "o">>)'
             PROVE  Room(ledger'.size, intent'[j].target, pos, manuals)
  BY DEF JobRoom, Current, Critical, NoRow, Room, Within, Reversing, ReduceOnly
<1>1. <<j, "o">> \in Execs BY DEF Execs
<1>2. Current(j) /\ ~intent[j].safe /\ NoRow(<<j, "o">>) /\ intent'[j] = intent[j]
  BY <1>1 DEF CurrentKept, RowsKept, NoRow
<1>3. intent[j].target \in Reach BY <1>2, CurrentInRange
<1>4. NoOpen BY <1>2, NothingOpens
<1>5. CASE UNCHANGED ledger BY <1>2, <1>5 DEF SpaceInv, JobRoom
<1>6. CASE ~UNCHANGED ledger BY <1>2, <1>3, <1>4, <1>6
<1> QED BY <1>5, <1>6

(* A snapshot of now has room for every target.                              *)
LEMMA SnapNow ==
    ASSUME TypeOK, SpaceInv PROVE \A t \in Reach : Room(pos, t, pos, manuals)
<1>1. pos \in Int /\ manuals \in Nat /\ Within(pos, manuals)
  BY DEF TypeOK, ExchangeOK, SourcesOK, SpaceInv
<1> QED BY <1>1, RoomNow

(* Every step of the resolver.                                               *)
LEMMA ResolverSpace ==
    ASSUME TypeOK, SubmissionInv, LockedInv, RowInv, QueueInv, LegInv, AloneInv, SpaceInv,
           Protected, ResolverStep, RowsSettle({}), RowsKept({})
    PROVE  SpaceInv'
<1>t. res \in Resolutions /\ res.snap \in Int BY DEF TypeOK, MaintenanceOK, Resolutions
<1>1. UNCHANGED <<pos, manuals, order, pc, wk, rec, jobState, intent>>
  BY DEF ResolverStep, ResolveQuery, ResolveSnapshot, ResolveUnverified, ResolveNotFilled,
         ResolveFilled, Quarantine, ResolveSkip, jobVars, exchVars, ghosts
<1>2. CurrentKept BY <1>1, CurrentStays
<1>3. UNCHANGED ledger \/ (res.pc = "snapped" /\ ledger'.size = res.snap)
  <2>1. CASE ResolveFilled BY <2>1 DEF ResolveFilled, SyncLedger
  <2>2. CASE Quarantine BY <2>2 DEF Quarantine, SyncLedger
  <2>3. CASE ~ResolveFilled /\ ~Quarantine
    BY <2>3 DEF ResolverStep, ResolveQuery, ResolveSnapshot, ResolveUnverified,
                ResolveNotFilled, ResolveSkip
  <2> QED BY <2>1, <2>2, <2>3
<1>4. JobRoom'
  <2>1. ~UNCHANGED ledger /\ NoOpen => \A t \in Reach : Room(res.snap, t, pos, manuals)
    BY <1>3 DEF SpaceInv, SnapRoom
  <2> QED BY <1>t, <1>1, <1>2, <1>3, <2>1, SyncRoom
<1>5. rec'.pc # "held"
  <2>1. res.pc # "idle" \/ LockFree
    BY DEF ResolverStep, ResolveQuery, ResolveSnapshot, ResolveUnverified, ResolveNotFilled,
           ResolveFilled, Quarantine, ResolveSkip
  <2> QED BY <1>1, <2>1, ActorsAssumption DEF LockedInv, LockInv, LockFree
<1>6. res'.pc = "snapped" => res'.snap = pos
  <2>1. CASE \E e \in Execs : ResolveQuery(e) BY <2>1 DEF ResolveQuery, ResIdle
  <2>2. CASE ResolveSnapshot BY <1>t, <2>2 DEF ResolveSnapshot, Resolutions
  <2>3. CASE ResolveUnverified BY <1>t, <2>3 DEF ResolveUnverified, Resolutions
  <2>4. CASE ResolveNotFilled \/ ResolveFilled \/ Quarantine \/ ResolveSkip
    BY <2>4 DEF ResolveNotFilled, ResolveFilled, Quarantine, ResolveSkip, ResIdle
  <2> QED BY <2>1, <2>2, <2>3, <2>4 DEF ResolverStep
<1>7. SnapRoom'
  <2>1. res'.pc = "snapped" => \A t \in Reach : Room(res'.snap, t, pos, manuals)
    BY <1>6, SnapNow
  <2> QED BY <1>1, <1>5, <2>1 DEF SnapRoom, Reach, Room, Within
<1> QED BY <1>1, <1>4, <1>7, HolderSpace

(* reconcile_observed_follower: a job that may open is made from a snapshot  *)
(* with nothing unresolved.                                                  *)
LEMMA MadeRoom ==
    ASSUME TypeOK, QueueInv, SpaceInv, ReconcileCommit, NEW j \in Jobs, CurrentMade(j)
    PROVE  JobRoom'
<1>1. /\ rec.pc = "held" /\ ledger'.size = rec.snap
      /\ UNCHANGED <<pos, manuals, pc, wk, execState>>
  BY DEF ReconcileCommit, SyncLedger, exchVars, ghosts, execVars
<1>2. jobState \in [Jobs -> JobStates] BY DEF TypeOK, JobsOK
<1> SUFFICES ASSUME NEW k \in Jobs, Current(k)', ~intent'[k].safe
             PROVE  Room(ledger'.size, intent'[k].target, pos, manuals)
  BY <1>1 DEF JobRoom, Current, Critical, NoRow, Room, Within, Reversing, ReduceOnly
<1>3. k = j BY <1>1, <1>2 DEF CurrentMade, Current, Critical
<1>4. intent'[k].target = rec.mpos /\ rec.mpos \in Reach
  BY <1>1, <1>3 DEF CurrentMade, QueueInv
<1>5. NoOpen BY <1>3 DEF CurrentMade, NoOpen, Opens
<1> QED BY <1>1, <1>4, <1>5 DEF SpaceInv, SnapRoom

(* Every step of the reconciler.                                             *)
LEMMA ReconcilerSpace ==
    ASSUME TypeOK, SubmissionInv, LockedInv, RowInv, QueueInv, LegInv, AloneInv, SpaceInv,
           Protected, ReconcilerStep, RowsSettle({}), RowsKept({}),
           CurrentKept \/ (ReconcileCommit /\ \E j \in Jobs : CurrentMade(j))
    PROVE  SpaceInv'
<1>t. rec \in Reconciliations /\ rec.snap \in Int
  BY DEF TypeOK, MaintenanceOK, Reconciliations
<1>1. UNCHANGED <<pos, manuals, order, pc, wk, res, execState, execLeg>>
  BY DEF ReconcilerStep, ReconcileStart, ReconcileMaster, ReconcileSnapshot, ReconcileCommit,
         ReconcileAbort, exchVars, ghosts, execVars
<1>2. UNCHANGED ledger \/ (rec.pc = "held" /\ ledger'.size = rec.snap)
  BY DEF ReconcilerStep, ReconcileStart, ReconcileMaster, ReconcileSnapshot, ReconcileCommit,
         ReconcileAbort, SyncLedger
<1>3. JobRoom'
  <2>1. ~UNCHANGED ledger /\ NoOpen => \A t \in Reach : Room(rec.snap, t, pos, manuals)
    BY <1>2 DEF SpaceInv, SnapRoom
  <2>2. CASE CurrentKept BY <1>t, <1>1, <1>2, <2>1, <2>2, SyncRoom
  <2> QED BY <2>2, MadeRoom
<1>4. rec'.pc = "held" => rec'.snap = pos
  <2>1. CASE ReconcileStart BY <2>1 DEF ReconcileStart, RecIdle
  <2>2. CASE ReconcileMaster BY <1>t, <2>2 DEF ReconcileMaster, Reconciliations
  <2>3. CASE ReconcileSnapshot BY <1>t, <2>3 DEF ReconcileSnapshot, Reconciliations
  <2>4. CASE ReconcileCommit BY <2>4 DEF ReconcileCommit, RecIdle
  <2>5. CASE ReconcileAbort BY <2>5 DEF ReconcileAbort, RecIdle
  <2> QED BY <2>1, <2>2, <2>3, <2>4, <2>5 DEF ReconcilerStep
<1>5. SnapRoom'
  <2>1. rec'.pc = "held" => \A t \in Reach : Room(rec'.snap, t, pos, manuals)
    BY <1>4, SnapNow
  <2>2. res'.pc = "snapped" /\ NoOpen' => \A t \in Reach : Room(res'.snap, t, pos, manuals)
    BY <1>1 DEF SpaceInv, SnapRoom, NoOpen, Opens, Unresolved
  <2> QED BY <1>1, <2>1, <2>2 DEF SnapRoom, NoOpen, Opens, Unresolved, Reach, Room, Within
<1> QED BY <1>1, <1>3, <1>5, HolderSpace

(* Every step keeps space for what may be opened.                            *)
LEMMA NextSpace ==
    ASSUME MaxLockLoss = 0, Origins \subseteq {"RECONCILE"}, TypeOK, SubmissionInv, LockedInv,
           FillInv, RowInv, CopyInv, QueueInv, WireInv, LegInv, AloneInv, SpaceInv, [Next]_vars
    PROVE  SpaceInv'
<1>1. Protected BY NextProtected
<1>2. ~LoseLock BY DEF LoseLock, TypeOK, SourcesOK
<1>3. CASE \E w \in Workers : WorkerStep(w) \/ Crash(w) BY <1>1, <1>3, WorkerSpace
<1>4. CASE ExchangeStep BY <1>4, ExchangeSpace
<1>5. ASSUME ~\E w \in Workers : WorkerStep(w) \/ Crash(w)
      PROVE  /\ RowsSettle({}) /\ RowsKept({})
             /\ CurrentKept \/ (ReconcileCommit /\ \E j \in Jobs : CurrentMade(j))
  BY <1>1, <1>5, OthersResolve, OthersKeep, NextCurrent DEF Next
<1>6. CASE (ResolverStep \/ ReconcilerStep) /\ ~\E w \in Workers : WorkerStep(w) \/ Crash(w)
  BY <1>1, <1>5, <1>6, ResolverSpace, ReconcilerSpace
<1>7. CASE (\E p \in Positions : MasterMove(p)) \/ (\E j \in Jobs : JobStep(j)) \/ UNCHANGED vars
  <2>1. UNCHANGED <<execState, execLeg, pc, wk, ledger, res, rec, order, pos, manuals>>
    BY <1>7, QueueCurrent DEF MasterMove, vars, execVars, exchVars, ghosts
  <2>2. CurrentKept
    <3>1. CASE (\E p \in Positions : MasterMove(p)) \/ UNCHANGED vars
      BY <3>1, CurrentStays DEF MasterMove, vars, jobVars
    <3> QED BY <1>7, <3>1, QueueCurrent
  <2>3. Keeps(pos, manuals, pos', manuals') BY <2>1 DEF Keeps, SpaceInv
  <2> QED BY <2>1, <2>2, <2>3, QuietSpace
<1> QED BY <1>2, <1>3, <1>4, <1>6, <1>7, OnlyReconciler DEF Next

(* At first there is nothing to do, and the position is in range.            *)
LEMMA InitExposure == Init => CopyInv /\ QueueInv /\ WireInv /\ LegInv /\ AloneInv /\ SpaceInv
<1> SUFFICES ASSUME Init PROVE CopyInv /\ QueueInv /\ WireInv /\ LegInv /\ AloneInv /\ SpaceInv
  OBVIOUS
<1>1. /\ \A w \in Workers : pc[w] = "idle"
      /\ \A j \in Jobs : jobState[j] = "none"
      /\ \A e \in Execs : execState[e] = "none" /\ order[e] = "none"
      /\ res.pc = "idle" /\ rec.pc = "idle" /\ manuals = 0
      /\ pos \in Reach /\ master \in Reach
  BY DEF Init, ResIdle, RecIdle, Reach
<1>2. CopyInv BY <1>1 DEF CopyInv, Planned
<1>3. \A j \in Jobs : ~Current(j) BY <1>1 DEF Current, Critical
<1>4. QueueInv BY <1>1, <1>3 DEF QueueInv, Created
<1>5. WireInv BY <1>1 DEF WireInv
<1>6. LegInv
  <2>1. \A j \in Jobs : <<j, "c">> \in Execs BY DEF Execs
  <2> QED BY <1>1, <2>1 DEF LegInv, PlanBinds, Planned
<1>7. AloneInv BY <1>1, <1>3 DEF AloneInv, Opens, Unresolved
<1>8. Within(pos, manuals)
  <2>1. pos \in Int BY <1>1, ReachTyped
  <2>2. Abs(pos) <= Abs(pos) + 0 BY <2>1 DEF Abs
  <2> QED BY <1>1, <2>2 DEF Within
<1>9. OrderSpace /\ LegSpace /\ JobRoom /\ SnapRoom
  BY <1>1, <1>3 DEF OrderSpace, LegSpace, JobRoom, SnapRoom, Opens, Unresolved, NewLeg
<1> QED BY <1>2, <1>4, <1>5, <1>6, <1>7, <1>8, <1>9 DEF SpaceInv

(* The ambiguity guards of reconcile_observed_follower: an order whose       *)
(* outcome is not known is never followed by one that could double its       *)
(* effect, so the follower holds no more than master or follower may, plus   *)
(* the follower's own trades. For any number of jobs, workers, retries,      *)
(* crashes and trades by hand, while no lock connection drops and the        *)
(* reconciler makes the jobs.                                                *)
THEOREM ExposureStaysBounded ==
    ASSUME MaxLockLoss = 0, Origins \subseteq {"RECONCILE"} PROVE Spec => []ExposureBounded
<1> DEFINE L == TypeOK /\ SubmissionInv /\ LockedInv /\ FillInv /\ RowInv /\ CopyInv
           I == L /\ QueueInv /\ WireInv /\ LegInv /\ AloneInv /\ SpaceInv
<1>1. Init => I
  BY InitTyped, InitSubmission, InitLocked, InitFills, InitRows, InitExposure
<1>2. L /\ [Next]_vars => L'
  BY NextTyped, NextSubmission, NextProtected, NextFills, NextRows, NextCopies DEF Protected
<1>3. I /\ [Next]_vars => (QueueInv /\ WireInv /\ LegInv /\ AloneInv /\ SpaceInv)'
  BY NextQueue, NextWire, NextLegs, NextAlone, NextSpace
<1>4. I /\ [Next]_vars => I' BY <1>2, <1>3
<1>5. I => ExposureBounded BY DEF SpaceInv, Within, Reach, ExposureBounded
<1> HIDE DEF I
<1> QED BY <1>1, <1>4, <1>5, PTL DEF Spec
=============================================================================
