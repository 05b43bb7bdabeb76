------------------------ MODULE RisexExecutionProofs ------------------------
(***************************************************************************)
(* Theorems about RisexExecution for any number of jobs, attempts and      *)
(* disturbances.                                                           *)
(***************************************************************************)
EXTENDS RisexExecution, FiniteSetTheorems, TLAPS

(* The bounds are numbers, and there is a job.                               *)
Bounds == MaxJobs \in Nat \ {0} /\ MaxAttempts \in Nat /\ MaxEvents \in Nat

JobStates == {"NONE", "READY", "PROCESSING"} \cup JobDone

Tasks == [pc : {"idle", "recover", "window", "plan", "intent", "post", "await", "truth",
                "read", "settle", "finish"},
          j : Jobs, out : Outs, dirty : BOOLEAN, snap : Snapshots]

Resolvers == [pc : {"idle", "evidence", "snapshot", "settle", "finish"},
              j : Jobs, out : Outs, dirty : BOOLEAN, snap : Snapshots]

-----------------------------------------------------------------------------
(* The invariants *)

(* A job that is offered has an attempt left.                                *)
JobsTyped ==
    /\ job \in [Jobs -> [state : JobStates, att : 0..MaxAttempts + 1, epoch : 0..MaxEvents + 1]]
    /\ \A j \in Jobs : job[j].state = "READY" => job[j].att <= MaxAttempts

RowsTyped ==
    row \in [Jobs -> [st : {"NONE", "SUBMITTING", "FILLED", "CANCELED"},
                      sub : {"NONE", "PRE_POST_COMMITTED", "POST_IN_FLIGHT", "ACKNOWLEDGED",
                             "TERMINAL_EVIDENCE_PERSISTED", "PRE_SUBMIT_BLOCKED"},
                      out : Outs]]

OrdersTyped ==
    /\ ord \in [Jobs -> {"NONE", "SENT", "FILLED", "CANCELED", "LOST"}]
    /\ indexed \subseteq Jobs /\ posts \in [Jobs -> Nat]

(* Own trades and rotations are disturbances, which are counted.             *)
CountersTyped ==
    /\ events \in 0..MaxEvents /\ ext \in 0..events
    /\ gen \in 1..events + 1 /\ active \in 0..gen

TasksTyped ==
    /\ cw \in Tasks /\ rs \in Resolvers
    /\ ac \in [pc : {"idle", "observed"}, epoch : 0..MaxEvents + 1, snap : Snapshots]

TypeInv ==
    /\ JobsTyped /\ RowsTyped /\ OrdersTyped /\ CountersTyped /\ TasksTyped
    /\ ledger \in Snapshots

(* The row of a job tells how far its order came: nothing left before the    *)
(* row released it, and what is stored or settled is what the provider did.  *)
RowTruth(j) ==
    /\ row[j].st = "NONE" => row[j].sub = "NONE"
    /\ row[j].sub = "NONE" => row[j].st = "NONE"
    /\ row[j].sub = "PRE_POST_COMMITTED" => row[j].st = "SUBMITTING"
    /\ row[j].sub = "PRE_SUBMIT_BLOCKED" => row[j].st = "CANCELED"
    /\ row[j].sub \in {"NONE", "PRE_POST_COMMITTED", "PRE_SUBMIT_BLOCKED"} =>
          posts[j] = 0 /\ row[j].out = "NONE"
    /\ posts[j] <= 1
    /\ posts[j] = 0 => ord[j] = "NONE"
    /\ row[j].out # "NONE" => row[j].out = ord[j]
    /\ row[j].st \in {"FILLED", "CANCELED"} /\ row[j].sub # "PRE_SUBMIT_BLOCKED" =>
          row[j].st = ord[j]
    /\ j \in indexed => Handled(j)

(* What the consume loop knows of the row of its job. While it plans, the    *)
(* job has no row and no execution is unresolved; before the POST nothing    *)
(* was posted; after a definitive answer the outcome is stored.              *)
WorkerKnows ==
    LET r == row[cw.j]
    IN /\ cw.pc = "plan" => r.st = "NONE" /\ \A k \in Jobs : ~Unresolved(k)
       /\ cw.pc = "intent" => r.sub = "PRE_POST_COMMITTED"
       /\ cw.pc = "post" => r.sub = "POST_IN_FLIGHT" /\ posts[cw.j] = 0
       /\ cw.pc = "await" => r.sub = "POST_IN_FLIGHT" /\ posts[cw.j] = 1
       /\ cw.pc \in {"truth", "read", "settle"} => r.out # "NONE"

(* The resolver goes on only with an order the provider has handled.         *)
ResolverKnows ==
    rs.pc \in {"snapshot", "settle"} => rs.out = ord[rs.j] /\ Handled(rs.j)

(* a is an observation not newer than b.                                     *)
NotNewer(a, b) == a.fills \subseteq b.fills /\ a.ext <= b.ext

(* A snapshot about to be settled holds the fill it settles and, unless a    *)
(* write of the ledger spoiled it, all the ledger holds.                     *)
FreshEnough(task) ==
    task.pc = "settle" => /\ NotNewer(task.snap, Position)
                          /\ ord[task.j] = "FILLED" => task.j \in task.snap.fills
                          /\ ~task.dirty => NotNewer(ledger, task.snap)

(* The ledger and the observation of an activation are past positions.       *)
LedgerObserved ==
    NotNewer(ledger, Position) /\ (ac.pc = "observed" => NotNewer(ac.snap, Position))

AtMostOneUnresolved == \A j, k \in Jobs : Unresolved(j) /\ Unresolved(k) => j = k

Inv ==
    /\ \A j \in Jobs : RowTruth(j)
    /\ WorkerKnows /\ ResolverKnows
    /\ AtMostOneUnresolved
    /\ FreshEnough(cw) /\ FreshEnough(rs) /\ LedgerObserved

-----------------------------------------------------------------------------
(* Typing *)

(* TypeInv is stronger than the types the runs check.                        *)
LEMMA TypeInvTypes == ASSUME Bounds, TypeInv PROVE TypeOK
BY DEF Bounds, TypeInv, JobsTyped, RowsTyped, OrdersTyped, CountersTyped, TasksTyped, TypeOK,
       Tasks, Resolvers, JobStates

(* A task that starts and the provider's position have their types.          *)
LEMMA TaskTyped ==
    ASSUME Bounds
    PROVE  /\ NoTask \in Tasks /\ NoTask \in Resolvers
           /\ OrdersTyped /\ CountersTyped => Position \in Snapshots
<1>1. NoTask \in Tasks /\ NoTask \in Resolvers
  BY DEF Bounds, NoTask, Tasks, Resolvers, Jobs, Outs, Snapshots
<1>2. OrdersTyped /\ CountersTyped => Position \in Snapshots
  BY DEF Bounds, OrdersTyped, CountersTyped, Snapshots, Position
<1> QED BY <1>1, <1>2

(* The initial state has its types.                                          *)
LEMMA InitTyped == ASSUME Bounds, Init PROVE TypeInv
<1>1. JobsTyped BY DEF Bounds, Init, JobsTyped, JobStates
<1>2. RowsTyped BY DEF Init, RowsTyped, NoRow, Outs
<1>3. OrdersTyped BY DEF Init, OrdersTyped
<1>4. CountersTyped BY DEF Bounds, Init, CountersTyped
<1>5. ledger \in Snapshots BY <1>3, <1>4, TaskTyped DEF Init
<1>6. TasksTyped
  BY TaskTyped DEF Bounds, Init, TasksTyped, NoAct, Snapshots
<1> QED BY <1>1, <1>2, <1>3, <1>4, <1>5, <1>6 DEF TypeInv

(* EndJob, RetryOrDead: a job moves to another state.                        *)
LEMMA JobMoves ==
    ASSUME Bounds, JobsTyped, NEW j \in Jobs, NEW s \in JobStates,
           s = "READY" => job[j].att <= MaxAttempts, job' = [job EXCEPT ![j].state = s]
    PROVE  JobsTyped'
BY DEF Bounds, JobsTyped

(* Defer: a job is offered again with its attempt given back.                *)
LEMMA DeferTyped ==
    ASSUME Bounds, JobsTyped, NEW j \in Jobs, Defer(j)
    PROVE  JobsTyped' /\ cw' = NoTask
<1> DEFINE n == IF job[j].att > 0 THEN job[j].att - 1 ELSE 0
           r == [job[j] EXCEPT !.state = "READY", !.att = n]
<1>1. job[j].att \in 0..MaxAttempts + 1 BY DEF JobsTyped
<1>2. n \in 0..MaxAttempts + 1 /\ n <= MaxAttempts BY <1>1 DEF Bounds
<1>3. job' = [job EXCEPT ![j] = r] BY DEF Defer, JobsTyped
<1> HIDE DEF n
<1>4. r \in [state : JobStates, att : 0..MaxAttempts + 1, epoch : 0..MaxEvents + 1]
  BY <1>2 DEF JobsTyped, JobStates
<1>5. r.att = n BY DEF JobsTyped
<1> HIDE DEF r
<1>6. JobsTyped' BY <1>2, <1>3, <1>4, <1>5 DEF JobsTyped
<1> QED BY <1>6 DEF Defer

(* Step: the worker goes on with its job.                                    *)
LEMMA StepTyped ==
    ASSUME Bounds, cw \in Tasks, Step("window") \/ Step("truth") \/ Step("plan") \/ Step("intent")
                   \/ Step("post") \/ Step("read") \/ Step("finish")
    PROVE  cw' \in Tasks /\ cw'.j = cw.j /\ UNCHANGED job
BY TaskTyped DEF Step, Tasks, NoTask

(* EndJob: the job ends, or is offered again while attempts are left.        *)
LEMMA EndTyped ==
    ASSUME Bounds, JobsTyped, NEW j \in Jobs, NEW s, EndJob(j, s),
           s \in {"DONE", "SKIPPED", "DEAD", RetryOrDead(j)}
    PROVE  JobsTyped' /\ cw' = NoTask
<1>1. s \in JobStates /\ (s = "READY" => job[j].att <= MaxAttempts)
  BY DEF RetryOrDead, JobStates, JobDone, Bounds, JobsTyped
<1> QED BY <1>1, JobMoves DEF EndJob

(* What a step leaves alone keeps its type.                                  *)
LEMMA Stutter ==
    /\ JobsTyped /\ UNCHANGED job => JobsTyped'
    /\ RowsTyped /\ UNCHANGED row => RowsTyped'
    /\ OrdersTyped /\ UNCHANGED <<ord, indexed, posts>> => OrdersTyped'
    /\ CountersTyped /\ UNCHANGED <<events, ext, gen, active>> => CountersTyped'
    /\ TasksTyped /\ UNCHANGED <<rs, ac>> /\ cw' \in Tasks => TasksTyped'
    /\ TasksTyped /\ UNCHANGED <<cw, ac>> /\ rs' \in Resolvers => TasksTyped'
BY DEF JobsTyped, RowsTyped, OrdersTyped, CountersTyped, TasksTyped

(* The steps of the consume loop keep the types.                             *)
LEMMA WorkerTyped == ASSUME Bounds, TypeInv, WorkerStep \/ TruthFails PROVE TypeInv'
<1> USE DEF TypeInv
<1>0. cw \in Tasks /\ cw.j \in Jobs /\ NoTask \in Tasks /\ Position \in Snapshots
  BY TaskTyped DEF TasksTyped, Tasks
<1>1. CASE Recover \/ Prepare
  <2>1. \/ \E s \in {"DONE", "SKIPPED"} : EndJob(cw.j, s)
        \/ Step("truth") \/ Step("window") \/ Step("plan") \/ Defer(cw.j)
    BY <1>1 DEF Recover, Prepare, Recovered, FinishState
  <2>2. JobsTyped' /\ cw' \in Tasks BY <1>0, <2>1, EndTyped, DeferTyped, StepTyped, Stutter
  <2> QED BY <1>1, <2>2, Stutter DEF Recover, Prepare
<1>2. CASE WindowClosed \/ PlanFails \/ IntentStale \/ FinishJob
  <2>1. \/ \E s \in {"DONE", "SKIPPED", "DEAD", RetryOrDead(cw.j)} : EndJob(cw.j, s)
        \/ Defer(cw.j)
    BY <1>2 DEF WindowClosed, PlanFails, IntentStale, FinishJob, FinishState
  <2>2. JobsTyped' /\ cw' \in Tasks BY <1>0, <2>1, EndTyped, DeferTyped
  <2> QED BY <1>2, <2>2, Stutter DEF WindowClosed, PlanFails, IntentStale, FinishJob
<1>3. CASE Persist
  <2>1. EndJob(cw.j, RetryOrDead(cw.j)) \/ Step("intent") BY <1>3 DEF Persist
  <2>2. JobsTyped' /\ cw' \in Tasks BY <1>0, <2>1, EndTyped, StepTyped, Stutter
  <2>3. RowsTyped' BY <1>0, <1>3 DEF Persist, RowsTyped, Outs
  <2> QED BY <1>3, <2>2, <2>3, Stutter DEF Persist
<1>4. CASE ClaimFirstPost
  <2>1. EndJob(cw.j, "SKIPPED") \/ Step("post") \/ Defer(cw.j) BY <1>4 DEF ClaimFirstPost
  <2>2. JobsTyped' /\ cw' \in Tasks BY <1>0, <2>1, EndTyped, DeferTyped, StepTyped, Stutter
  <2>3. RowsTyped' BY <1>0, <1>4 DEF ClaimFirstPost, RowsTyped
  <2> QED BY <1>4, <2>2, <2>3, Stutter DEF ClaimFirstPost
<1>5. CASE PostRefused \/ ResponseLost
  BY <1>0, <1>5, Stutter DEF PostRefused, ResponseLost
<1>6. CASE Post
  <2>1. cw' \in Tasks BY <1>0, <1>6 DEF Post, Tasks
  <2>2. OrdersTyped' BY <1>0, <1>6 DEF Post, OrdersTyped
  <2> QED BY <1>6, <2>1, <2>2, Stutter DEF Post
<1>7. CASE Response
  <2>1. PICK out \in Classify(ord[cw.j]) :
           /\ row' = [row EXCEPT ![cw.j].sub = IF out = "NONE" THEN "ACKNOWLEDGED"
                                               ELSE "TERMINAL_EVIDENCE_PERSISTED",
                                 ![cw.j].out = out]
           /\ Step("truth") \/ Defer(cw.j)
    BY <1>7 DEF Response
  <2>2. JobsTyped' /\ cw' \in Tasks BY <1>0, <2>1, DeferTyped, StepTyped, Stutter
  <2>3. out \in Outs BY DEF Classify, Outs
  <2>4. RowsTyped' BY <1>0, <2>1, <2>3 DEF RowsTyped
  <2> QED BY <1>7, <2>2, <2>4, Stutter DEF Response
<1>8. CASE TruthBaseline BY <1>8, <1>0, StepTyped, Stutter DEF TruthBaseline
<1>9. CASE TruthRead
  <2>1. cw' \in Tasks BY <1>0, <1>9 DEF TruthRead, Tasks
  <2> QED BY <1>9, <2>1, Stutter DEF TruthRead
<1>10. CASE TruthFails
  <2>1. JobsTyped' /\ cw' \in Tasks BY <1>0, <1>10, DeferTyped, Stutter DEF TruthFails
  <2>2. CountersTyped' BY <1>10 DEF TruthFails, Disturb, CountersTyped, Bounds
  <2> QED BY <1>10, <2>1, <2>2, Stutter DEF TruthFails
<1>11. CASE TruthSettle
  <2>1. JobsTyped' /\ cw' \in Tasks
    BY <1>0, <1>11, DeferTyped, StepTyped, Stutter DEF TruthSettle
  <2>2. ledger' \in Snapshots BY <1>0, <1>11 DEF TruthSettle, Tasks
  <2>3. RowsTyped' BY <1>0, <1>11 DEF TruthSettle, RowsTyped, Outs
  <2>4. rs' \in Resolvers BY <1>11 DEF TruthSettle, Spoil, TasksTyped, Resolvers
  <2>5. TasksTyped' BY <1>11, <2>1, <2>4 DEF TruthSettle, TasksTyped
  <2> QED BY <1>11, <2>1, <2>2, <2>3, <2>5, Stutter DEF TruthSettle
<1> QED BY <1>1, <1>2, <1>3, <1>4, <1>5, <1>6, <1>7, <1>8, <1>9, <1>10, <1>11 DEF WorkerStep

(* The queue and the provider keep the types.                                *)
LEMMA JobStepTyped ==
    ASSUME Bounds, TypeInv, NEW j \in Jobs,
           CreateJob(j) \/ ExpireJob(j) \/ ReleaseStale(j) \/ Claim(j) \/ Land(j) \/ Index(j)
    PROVE  TypeInv'
<1> USE DEF TypeInv
<1>1. CASE CreateJob(j)
  <2>1. active \in 0..MaxEvents + 1 BY DEF CountersTyped, Bounds
  <2>2. JobsTyped' BY <1>1, <2>1 DEF CreateJob, JobsTyped, JobStates, Bounds
  <2> QED BY <1>1, <2>2, Stutter DEF CreateJob, TasksTyped
<1>2. CASE ExpireJob(j)
  <2>1. JobsTyped' BY <1>2, JobMoves DEF ExpireJob, JobStates, JobDone
  <2> QED BY <1>2, <2>1, Stutter DEF ExpireJob, TasksTyped
<1>3. CASE ReleaseStale(j)
  <2>1. RetryOrDead(j) \in JobStates /\ (RetryOrDead(j) = "READY" => job[j].att <= MaxAttempts)
    BY DEF RetryOrDead, JobStates, JobDone, Bounds, JobsTyped
  <2>2. JobsTyped' BY <1>3, <2>1, JobMoves DEF ReleaseStale
  <2>3. CountersTyped' BY <1>3 DEF ReleaseStale, Disturb, CountersTyped, Bounds
  <2> QED BY <1>3, <2>2, <2>3, Stutter DEF ReleaseStale, TasksTyped
<1>4. CASE Claim(j)
  <2>1. CASE job' = [job EXCEPT ![j].state = "SKIPPED"] /\ UNCHANGED cw
    <3>1. JobsTyped' BY <2>1, JobMoves DEF JobStates, JobDone
    <3> QED BY <1>4, <2>1, <3>1, Stutter DEF Claim, TasksTyped
  <2>2. CASE /\ job' = [job EXCEPT ![j].state = "PROCESSING", ![j].att = @ + 1]
             /\ cw' = [NoTask EXCEPT !.pc = "recover", !.j = j]
    <3>1. job[j].att + 1 \in 0..MaxAttempts + 1 BY <1>4 DEF Claim, JobsTyped, Bounds
    <3>2. JobsTyped' BY <2>2, <3>1 DEF JobsTyped, JobStates
    <3>3. cw' \in Tasks BY <2>2, TaskTyped DEF Tasks
    <3> QED BY <1>4, <3>2, <3>3, Stutter DEF Claim
  <2> QED BY <1>4, <2>1, <2>2 DEF Claim
<1>5. CASE Land(j)
  <2>1. OrdersTyped' BY <1>5 DEF Land, OrdersTyped
  <2> QED BY <1>5, <2>1, Stutter DEF Land, TasksTyped
<1>6. CASE Index(j)
  <2>1. OrdersTyped' BY <1>6 DEF Index, OrdersTyped
  <2> QED BY <1>6, <2>1, Stutter DEF Index, TasksTyped
<1> QED BY <1>1, <1>2, <1>3, <1>4, <1>5, <1>6

(* The resolver keeps the types: it takes an outcome only from the history.  *)
LEMMA ResolverTyped == ASSUME Bounds, TypeInv, Inv, ResolverStep \/ ResolveFails PROVE TypeInv'
<1> USE DEF TypeInv
<1>0. rs \in Resolvers /\ rs.j \in Jobs /\ NoTask \in Resolvers /\ Position \in Snapshots
  BY TaskTyped DEF TasksTyped, Resolvers
<1>1. ASSUME NEW j \in Jobs, ResolveLoad(j) PROVE TypeInv'
  <2>1. rs' \in Resolvers BY <1>0, <1>1 DEF ResolveLoad, Resolvers
  <2> QED BY <1>1, <2>1, Stutter DEF ResolveLoad
<1>2. CASE ResolveEvidence
  <2>1. rs.j \in indexed => ord[rs.j] \in Outs BY <1>0 DEF Inv, RowTruth, Handled, Outs
  <2>2. rs' \in Resolvers BY <1>0, <1>2, <2>1 DEF ResolveEvidence, Resolvers
  <2> QED BY <1>2, <2>2, Stutter DEF ResolveEvidence
<1>3. CASE ResolveSnapshot
  <2>1. rs' \in Resolvers BY <1>0, <1>3 DEF ResolveSnapshot, Resolvers
  <2> QED BY <1>3, <2>1, Stutter DEF ResolveSnapshot
<1>4. CASE ResolveSettle
  <2>1. RowsTyped' BY <1>0, <1>4 DEF ResolveSettle, RowsTyped, Resolvers, Outs
  <2>2. ledger' \in Snapshots BY <1>0, <1>4 DEF ResolveSettle, Resolvers
  <2>3. rs' \in Resolvers BY <1>0, <1>4 DEF ResolveSettle, Resolvers
  <2>4. cw' \in Tasks BY <1>4 DEF ResolveSettle, Spoil, TasksTyped, Tasks
  <2>5. TasksTyped' BY <1>4, <2>3, <2>4 DEF ResolveSettle, TasksTyped
  <2> QED BY <1>4, <2>1, <2>2, <2>5, Stutter DEF ResolveSettle
<1>5. CASE ResolveFinish
  <2>1. UNCHANGED job \/ \E s \in {"DONE", "SKIPPED"} : job' = [job EXCEPT ![rs.j].state = s]
    BY <1>5 DEF ResolveFinish, FinishState
  <2>2. JobsTyped' BY <1>0, <2>1, JobMoves, Stutter DEF JobStates, JobDone
  <2> QED BY <1>0, <1>5, <2>2, Stutter DEF ResolveFinish
<1>6. CASE ResolveFails
  <2>1. CountersTyped' BY <1>6 DEF ResolveFails, Disturb, CountersTyped, Bounds
  <2> QED BY <1>0, <1>6, <2>1, Stutter DEF ResolveFails
<1> QED BY <1>1, <1>2, <1>3, <1>4, <1>5, <1>6 DEF ResolverStep

(* Requests of the user, own trades and crashes keep the types.              *)
LEMMA OtherTyped ==
    ASSUME Bounds, TypeInv,
           \/ Rotate \/ Unlink \/ ActivateObserve \/ ActivateCommit \/ OwnTrade \/ Crash
           \/ UNCHANGED vars
    PROVE  TypeInv'
<1> USE DEF TypeInv
<1>0. NoTask \in Tasks /\ NoTask \in Resolvers /\ Position \in Snapshots BY TaskTyped
<1>1. CASE Rotate \/ Unlink \/ OwnTrade
  <2>1. CountersTyped' BY <1>1 DEF Rotate, Unlink, OwnTrade, Disturb, CountersTyped, Bounds
  <2> QED BY <1>1, <2>1, Stutter DEF Rotate, Unlink, OwnTrade, TasksTyped
<1>2. CASE ActivateObserve
  <2>1. CountersTyped' BY <1>2 DEF ActivateObserve, Disturb, CountersTyped, Bounds
  <2>2. active \in 0..MaxEvents + 1 BY DEF CountersTyped, Bounds
  <2>3. TasksTyped' BY <1>0, <1>2, <2>2 DEF ActivateObserve, TasksTyped
  <2> QED BY <1>2, <2>1, <2>3, Stutter DEF ActivateObserve
<1>3. CASE ActivateCommit
  <2>1. ledger' \in Snapshots BY <1>3 DEF ActivateCommit, TasksTyped
  <2>2. cw' \in Tasks BY <1>3 DEF ActivateCommit, Spoil, TasksTyped, Tasks
  <2>3. rs' \in Resolvers BY <1>3 DEF ActivateCommit, Spoil, TasksTyped, Resolvers
  <2>4. ac' \in [pc : {"idle", "observed"}, epoch : 0..MaxEvents + 1, snap : Snapshots]
    BY <1>3 DEF ActivateCommit, NoAct, Snapshots, Bounds
  <2> QED BY <1>3, <2>1, <2>2, <2>3, <2>4, Stutter DEF ActivateCommit, TasksTyped
<1>4. CASE Crash
  <2>1. CountersTyped' BY <1>4 DEF Crash, Disturb, CountersTyped, Bounds
  <2> QED BY <1>0, <1>4, <2>1, Stutter DEF Crash, TasksTyped
<1>5. CASE UNCHANGED vars BY <1>5, Stutter DEF vars, TasksTyped
<1> QED BY <1>1, <1>2, <1>3, <1>4, <1>5

(* Every step keeps the types.                                               *)
LEMMA NextTyped == ASSUME Bounds, TypeInv, Inv, [Next]_vars PROVE TypeInv'
BY WorkerTyped, JobStepTyped, ResolverTyped, OtherTyped DEF Next

-----------------------------------------------------------------------------
(* The invariant *)

(* Initially nothing was posted and nobody knows anything.                   *)
LEMMA InitInv == ASSUME Bounds, Init PROVE Inv
<1>1. NotNewer(ledger, Position) BY DEF Init, NotNewer, Position, Bounds
<1>2. \A j \in Jobs : RowTruth(j) BY DEF Init, RowTruth, NoRow
<1>3. AtMostOneUnresolved BY DEF Init, AtMostOneUnresolved, Unresolved, NoRow
<1> QED BY <1>1, <1>2, <1>3 DEF Init, Inv, WorkerKnows, ResolverKnows, FreshEnough,
                              LedgerObserved, NoTask, NoAct

(* Where a new task is.                                                      *)
LEMMA TaskPCs ==
    /\ NoTask.pc = "idle"
    /\ \A j : [NoTask EXCEPT !.pc = "evidence", !.j = j].pc = "evidence"
    /\ \A j : [NoTask EXCEPT !.pc = "finish", !.j = j].pc = "finish"
    /\ \A j : [NoTask EXCEPT !.pc = "recover", !.j = j].pc = "recover"
BY DEF NoTask

(* Where EndJob, Defer and Step leave the worker.                            *)
LEMMA WorkerPCs ==
    /\ \A j, st : EndJob(j, st) => cw'.pc = "idle"
    /\ \A j : Defer(j) => cw'.pc = "idle"
    /\ \A pc : Step(pc) => cw'.pc = pc /\ cw'.j = cw.j
<1>1. NoTask.pc = "idle" BY DEF NoTask
<1>2. \A pc : Step(pc) => cw'.pc = pc /\ cw'.j = cw.j BY DEF Step, NoTask
<1>3. \A j, st : EndJob(j, st) => cw'.pc = "idle" BY <1>1 DEF EndJob
<1>4. \A j : Defer(j) => cw'.pc = "idle" BY <1>1 DEF Defer
<1> QED BY <1>2, <1>3, <1>4

(* The steps that leave rows, orders and posts alone.                        *)
Quiet == UNCHANGED <<row, ord, indexed, posts>>

(* Persist, the claim, the POST, its answer, the two settlements, and the    *)
(* provider's own steps are the others.                                      *)
LEMMA QuietSteps ==
    ASSUME [Next]_vars
    PROVE  \/ Quiet
           \/ Persist \/ ClaimFirstPost \/ Post \/ Response \/ TruthSettle \/ ResolveSettle
           \/ \E j \in Jobs : Land(j) \/ Index(j)
<1> USE DEF Quiet
<1>1. CASE UNCHANGED vars BY <1>1 DEF vars
<1>2. CASE \E j \in Jobs : CreateJob(j) \/ ExpireJob(j) \/ ReleaseStale(j) \/ Claim(j)
  BY <1>2 DEF CreateJob, ExpireJob, ReleaseStale, Claim
<1>3. CASE \/ Recover \/ WindowClosed \/ Prepare \/ PlanFails \/ IntentStale \/ PostRefused
           \/ ResponseLost \/ TruthBaseline \/ TruthRead \/ TruthFails \/ FinishJob
  BY <1>3 DEF Recover, WindowClosed, Prepare, PlanFails, IntentStale, PostRefused,
              ResponseLost, TruthBaseline, TruthRead, TruthFails, FinishJob
<1>4. CASE \/ \E j \in Jobs : ResolveLoad(j)
           \/ ResolveEvidence \/ ResolveSnapshot \/ ResolveFinish \/ ResolveFails
  BY <1>4 DEF ResolveLoad, ResolveEvidence, ResolveSnapshot, ResolveFinish, ResolveFails
<1>5. CASE \/ Rotate \/ Unlink \/ ActivateObserve \/ ActivateCommit \/ OwnTrade \/ Crash
  BY <1>5 DEF Rotate, Unlink, ActivateObserve, ActivateCommit, OwnTrade, Crash
<1> QED BY <1>1, <1>2, <1>3, <1>4, <1>5 DEF Next, WorkerStep, ResolverStep

(* Every step keeps the rows true.                                           *)
LEMMA RowsStayTrue ==
    ASSUME Bounds, TypeInv, Inv, [Next]_vars
    PROVE  \A j \in Jobs : RowTruth(j)'
<1> SUFFICES ASSUME NEW j \in Jobs PROVE RowTruth(j)' OBVIOUS
<1> USE DEF RowTruth, Handled
<1>0. /\ \A k \in Jobs : RowTruth(k)
      /\ cw.j \in Jobs /\ rs.j \in Jobs
      /\ WorkerKnows /\ ResolverKnows
      /\ RowsTyped /\ OrdersTyped
  BY DEF Inv, TypeInv, TasksTyped, Tasks, Resolvers
<1>1. CASE Quiet BY <1>0, <1>1 DEF Quiet
<1>2. CASE Persist BY <1>0, <1>2 DEF Persist, Unprepared, RowsTyped
<1>3. CASE ClaimFirstPost
  BY <1>0, <1>3 DEF ClaimFirstPost, Unresolved, RowsTyped
<1>4. CASE Post BY <1>0, <1>4 DEF Post, WorkerKnows, OrdersTyped
<1>5. CASE Response
  <2>1. PICK out \in Classify(ord[cw.j]) :
           row' = [row EXCEPT ![cw.j].sub = IF out = "NONE" THEN "ACKNOWLEDGED"
                                            ELSE "TERMINAL_EVIDENCE_PERSISTED",
                              ![cw.j].out = out]
    BY <1>5 DEF Response
  <2>2. out = "NONE" \/ out = ord[cw.j] BY DEF Classify
  <2> QED BY <1>0, <1>5, <2>1, <2>2 DEF Response, WorkerKnows, RowsTyped
<1>6. CASE TruthSettle BY <1>0, <1>6 DEF TruthSettle, WorkerKnows, RowsTyped, Outs
<1>7. CASE ResolveSettle BY <1>0, <1>7 DEF ResolveSettle, ResolverKnows, RowsTyped, Unresolved
<1>8. ASSUME NEW k \in Jobs, Land(k) PROVE RowTruth(j)'
  <2>1. PICK o \in {"FILLED", "CANCELED", "LOST"} : ord' = [ord EXCEPT ![k] = o]
    BY <1>8 DEF Land
  <2>2. ord[k] = "SENT" /\ UNCHANGED <<row, posts, indexed>> BY <1>8 DEF Land
  <2>3. CASE j = k
    <3>1. ord'[j] = o BY <2>1, <2>3 DEF OrdersTyped, TypeInv
    <3>2. row[j].st \in {"FILLED", "CANCELED"} => row[j].sub = "PRE_SUBMIT_BLOCKED"
      BY <1>0, <2>2, <2>3
    <3>3. row[j].out = "NONE" BY <1>0, <2>2, <2>3 DEF RowsTyped, Outs
    <3> QED BY <1>0, <2>2, <2>3, <3>1, <3>2, <3>3
  <2>4. CASE j # k BY <1>0, <2>1, <2>2, <2>4 DEF OrdersTyped
  <2> QED BY <2>3, <2>4
<1>9. ASSUME NEW k \in Jobs, Index(k) PROVE RowTruth(j)' BY <1>0, <1>9 DEF Index
<1> QED BY <1>1, <1>2, <1>3, <1>4, <1>5, <1>6, <1>7, <1>8, <1>9, QuietSteps

(* Every step keeps what the consume loop knows.                             *)
LEMMA WorkerStaysInformed ==
    ASSUME Bounds, TypeInv, Inv, [Next]_vars
    PROVE  WorkerKnows'
<1>0. /\ \A k \in Jobs : RowTruth(k)
      /\ cw.j \in Jobs /\ rs.j \in Jobs
      /\ WorkerKnows /\ ResolverKnows
      /\ RowsTyped /\ OrdersTyped /\ cw \in Tasks
  BY DEF Inv, TypeInv, TasksTyped, Tasks, Resolvers
<1> USE DEF WorkerKnows, Unresolved
<1>1. CASE UNCHANGED <<row, posts>> /\ cw'.pc = cw.pc /\ cw'.j = cw.j
  BY <1>0, <1>1
<1>2. CASE cw'.pc \in {"idle", "recover", "window", "finish"} BY <1>0, <1>2
<1>i. NoTask.pc = "idle" BY DEF NoTask
<1>s. \A pc : Step(pc) => cw'.pc = pc /\ cw'.j = cw.j BY <1>0 DEF Step, NoTask
<1>e. \A j, st : EndJob(j, st) \/ Defer(j) => cw'.pc = "idle" BY <1>i DEF EndJob, Defer
<1>3. CASE \/ \E j \in Jobs : \/ CreateJob(j) \/ ExpireJob(j) \/ ReleaseStale(j) \/ Land(j)
                              \/ Index(j) \/ ResolveLoad(j)
           \/ ResolveEvidence \/ ResolveSnapshot \/ ResolveFinish \/ ResolveFails
           \/ Rotate \/ Unlink \/ ActivateObserve \/ OwnTrade \/ UNCHANGED vars
  BY <1>1, <1>3 DEF CreateJob, ExpireJob, ReleaseStale, Land, Index, ResolveLoad, ResolveEvidence,
       ResolveSnapshot, ResolveFinish, ResolveFails, Rotate, Unlink, ActivateObserve, OwnTrade, vars
<1>4. CASE \/ WindowClosed \/ PlanFails \/ IntentStale \/ PostRefused \/ ResponseLost
           \/ TruthFails \/ FinishJob \/ Crash
  BY <1>2, <1>4, <1>i, <1>e DEF WindowClosed, PlanFails, IntentStale, PostRefused, ResponseLost,
       TruthFails, FinishJob, Crash
<1>5. ASSUME NEW j \in Jobs, Claim(j) PROVE WorkerKnows'
  <2>1. (UNCHANGED cw /\ UNCHANGED <<row, posts>>) \/ cw'.pc = "recover" BY <1>5 DEF Claim, NoTask
  <2> QED BY <1>1, <1>2, <2>1
<1>6. CASE ActivateCommit
  <2>1. UNCHANGED <<row, posts>> /\ cw'.pc = cw.pc /\ cw'.j = cw.j
    BY <1>0, <1>6 DEF ActivateCommit, Spoil, Tasks
  <2> QED BY <1>1, <2>1
<1>7. CASE Recover
  <2>1. UNCHANGED <<row, posts>> BY <1>7 DEF Recover
  <2>2. cw'.pc \in {"idle", "window"} \/ (Step("truth") /\ row[cw.j].out # "NONE")
    BY <1>7, <1>s, <1>e DEF Recover, Recovered
  <2> QED BY <1>0, <1>2, <1>s, <2>1, <2>2
<1>8. CASE Prepare
  <2>1. UNCHANGED <<row, posts>> BY <1>8 DEF Prepare
  <2>2. \/ cw'.pc = "idle" \/ (Step("truth") /\ row[cw.j].out # "NONE")
        \/ Step("plan") /\ Unprepared(cw.j) /\ ~PeerUnresolved(cw.j)
    BY <1>8, <1>e DEF Prepare, Recovered
  <2>3. CASE Step("plan") /\ Unprepared(cw.j) /\ ~PeerUnresolved(cw.j)
    BY <1>0, <1>s, <2>1, <2>3 DEF Unprepared, PeerUnresolved
  <2> QED BY <1>0, <1>2, <1>s, <2>1, <2>2, <2>3
<1>9. CASE Persist
  <2>1. cw'.pc = "idle" \/ (Step("intent") /\ row'[cw.j].sub = "PRE_POST_COMMITTED")
    BY <1>0, <1>9, <1>e DEF Persist, RowsTyped
  <2> QED BY <1>2, <1>s, <2>1
<1>10. CASE ClaimFirstPost
  <2>1. \/ cw'.pc = "idle"
        \/ Step("post") /\ row'[cw.j].sub = "POST_IN_FLIGHT" /\ posts'[cw.j] = 0
    BY <1>0, <1>10, <1>e DEF ClaimFirstPost, RowsTyped, RowTruth
  <2> QED BY <1>2, <1>s, <2>1
<1>11. CASE Post
  <2>1. cw'.pc = "await" /\ cw'.j = cw.j BY <1>0, <1>11 DEF Post, Tasks
  <2>2. row' = row /\ posts'[cw.j] = 1 BY <1>0, <1>11 DEF Post, OrdersTyped
  <2> QED BY <1>0, <1>11, <2>1, <2>2 DEF Post
<1>12. CASE Response
  <2>1. PICK out \in Classify(ord[cw.j]) :
           /\ row' = [row EXCEPT ![cw.j].sub = IF out = "NONE" THEN "ACKNOWLEDGED"
                                               ELSE "TERMINAL_EVIDENCE_PERSISTED",
                                 ![cw.j].out = out]
           /\ IF out = "NONE" THEN Defer(cw.j) ELSE Step("truth")
    BY <1>12 DEF Response
  <2>2. cw'.pc = "idle" \/ (Step("truth") /\ row'[cw.j].out # "NONE")
    BY <1>0, <1>e, <2>1 DEF RowsTyped
  <2> QED BY <1>2, <1>s, <2>2
<1>13. CASE TruthBaseline
  BY <1>0, <1>13, <1>s DEF TruthBaseline
<1>14. CASE TruthRead
  <2>1. cw'.pc = "settle" /\ cw'.j = cw.j BY <1>0, <1>14 DEF TruthRead, Tasks
  <2> QED BY <1>0, <1>14, <2>1 DEF TruthRead
<1>15. CASE TruthSettle
  <2>1. cw'.pc \in {"idle", "finish"} BY <1>15, <1>s, <1>e DEF TruthSettle
  <2> QED BY <1>2, <2>1
<1>16. CASE ResolveSettle
  <2>1. cw'.pc = cw.pc /\ cw'.j = cw.j /\ posts' = posts
    BY <1>0, <1>16 DEF ResolveSettle, Spoil, Tasks
  <2>2. UNCHANGED row \/ (Unresolved(rs.j) /\ row' = [row EXCEPT ![rs.j].st = rs.out] /\ rs.pc = "settle")
    BY <1>16 DEF ResolveSettle
  <2>3. CASE Unresolved(rs.j) /\ row' = [row EXCEPT ![rs.j].st = rs.out] /\ rs.pc = "settle"
    <3>1. \A k \in Jobs : row'[k].sub = row[k].sub /\ row'[k].out = row[k].out
                          /\ (k # rs.j => row'[k] = row[k])
      BY <1>0, <2>3 DEF RowsTyped
    <3>2. cw.pc # "plan" BY <1>0, <2>3
    <3> QED BY <1>0, <2>1, <3>1, <3>2
  <2> QED BY <1>1, <2>1, <2>2, <2>3
<1> QED BY <1>3, <1>4, <1>5, <1>6, <1>7, <1>8, <1>9, <1>10, <1>11, <1>12, <1>13, <1>14, <1>15, <1>16
        DEF Next, WorkerStep, ResolverStep

(* What the provider has handled stays, and its position only grows.         *)
LEMMA ProviderMonotonic ==
    ASSUME Bounds, TypeInv, Inv, [Next]_vars
    PROVE  /\ \A k \in Jobs : Handled(k) => ord'[k] = ord[k]
           /\ NotNewer(Position, Position')
<1>0. /\ \A k \in Jobs : RowTruth(k)
      /\ cw.j \in Jobs /\ WorkerKnows /\ OrdersTyped /\ CountersTyped
  BY DEF Inv, TypeInv, TasksTyped, Tasks
<1>1. ord' = ord \/ (\E j \in Jobs : Land(j)) \/ Post
  BY QuietSteps DEF Quiet, Persist, ClaimFirstPost, Response, TruthSettle, ResolveSettle, Index
<1>2. \A k \in Jobs : Handled(k) => ord'[k] = ord[k]
  <2>1. CASE ord' = ord BY <2>1
  <2>2. CASE \E j \in Jobs : Land(j) BY <1>0, <2>2 DEF Land, Handled, OrdersTyped
  <2>3. CASE Post
    <3>1. ord[cw.j] = "NONE" BY <1>0, <2>3 DEF Post, WorkerKnows, RowTruth
    <3> QED BY <1>0, <2>3, <3>1 DEF Post, Handled, OrdersTyped
  <2> QED BY <1>1, <2>1, <2>2, <2>3
<1>3. ext' = ext \/ ext' = ext + 1
  <2>1. CASE OwnTrade BY <2>1 DEF OwnTrade
  <2>2. CASE ~OwnTrade
    BY <2>2 DEF Next, WorkerStep, ResolverStep, CreateJob, ExpireJob, ReleaseStale, Claim, Land, Index,
         Recover, WindowClosed, Prepare, PlanFails, Persist, IntentStale, ClaimFirstPost,
         PostRefused, Post, Response, ResponseLost, TruthBaseline, TruthRead, TruthFails, TruthSettle,
         FinishJob, ResolveLoad, ResolveEvidence, ResolveSnapshot, ResolveSettle, ResolveFinish,
         ResolveFails, Rotate, Unlink, ActivateObserve, ActivateCommit, Crash, vars
  <2> QED BY <2>1, <2>2
<1> QED BY <1>0, <1>2, <1>3 DEF NotNewer, Position, Handled, CountersTyped

(* Every step keeps what the resolver knows.                                 *)
LEMMA ResolverStaysInformed ==
    ASSUME Bounds, TypeInv, Inv, [Next]_vars
    PROVE  ResolverKnows'
<1>0. /\ \A k \in Jobs : RowTruth(k)
      /\ rs.j \in Jobs /\ rs \in Resolvers /\ ResolverKnows
  BY DEF Inv, TypeInv, TasksTyped, Resolvers
<1>1. \/ rs'.pc = rs.pc /\ rs'.j = rs.j /\ rs'.out = rs.out
      \/ rs'.pc \in {"idle", "evidence", "finish"}
      \/ ResolveEvidence \/ ResolveSnapshot
  <2>1. CASE UNCHANGED rs BY <2>1
  <2>2. CASE TruthSettle \/ ActivateCommit
    BY <1>0, <2>2 DEF TruthSettle, ActivateCommit, Spoil, Resolvers
  <2>3. CASE \/ \E j \in Jobs : ResolveLoad(j)
             \/ ResolveSettle \/ ResolveFinish \/ ResolveFails \/ Crash
    <3>1. CASE \E j \in Jobs : ResolveLoad(j) BY <3>1, TaskPCs DEF ResolveLoad
    <3>2. CASE ResolveSettle
      <4>1. rs' = NoTask \/ rs' = [NoTask EXCEPT !.pc = "finish", !.j = rs.j]
        BY <3>2 DEF ResolveSettle
      <4>2. CASE rs' = NoTask BY <4>2, TaskPCs
      <4>3. CASE rs' = [NoTask EXCEPT !.pc = "finish", !.j = rs.j]
        <5>1. rs'.pc = "finish" BY <4>3 DEF NoTask
        <5> QED BY <5>1
      <4> QED BY <4>1, <4>2, <4>3
    <3>3. CASE ResolveFinish BY <3>3, TaskPCs DEF ResolveFinish
    <3>4. CASE ResolveFails BY <3>4, TaskPCs DEF ResolveFails
    <3>5. CASE Crash BY <3>5, TaskPCs DEF Crash
    <3> QED BY <2>3, <3>1, <3>2, <3>3, <3>4, <3>5
  <2>4. CASE \E j \in Jobs : CreateJob(j) \/ ExpireJob(j) \/ ReleaseStale(j) \/ Claim(j)
                              \/ Land(j) \/ Index(j)
    BY <2>1, <2>4 DEF CreateJob, ExpireJob, ReleaseStale, Claim, Land, Index
  <2>5. CASE WorkerStep \/ TruthFails
    BY <2>1, <2>2, <2>5 DEF WorkerStep, Recover, WindowClosed, Prepare, PlanFails, Persist,
         IntentStale, ClaimFirstPost, PostRefused, Post, Response, ResponseLost, TruthBaseline,
         TruthRead, TruthFails, FinishJob
  <2>6. CASE Rotate \/ Unlink \/ ActivateObserve \/ OwnTrade \/ UNCHANGED vars
    BY <2>1, <2>6 DEF Rotate, Unlink, ActivateObserve, OwnTrade, vars
  <2> QED BY <2>2, <2>3, <2>4, <2>5, <2>6 DEF Next, ResolverStep
<1>2. CASE rs'.pc = rs.pc /\ rs'.j = rs.j /\ rs'.out = rs.out
  BY <1>0, <1>2, ProviderMonotonic DEF ResolverKnows, Handled
<1>3. CASE rs'.pc \in {"idle", "evidence", "finish"} BY <1>3 DEF ResolverKnows
<1>4. CASE ResolveEvidence
  BY <1>0, <1>4 DEF ResolveEvidence, Resolvers, ResolverKnows, Handled, RowTruth, NoTask
<1>5. CASE ResolveSnapshot
  BY <1>0, <1>5 DEF ResolveSnapshot, Resolvers, ResolverKnows, Handled
<1> QED BY <1>1, <1>2, <1>3, <1>4, <1>5

(* A row becomes unresolved only while no other is.                          *)
LEMMA OneStaysUnresolved ==
    ASSUME Bounds, TypeInv, Inv, [Next]_vars
    PROVE  AtMostOneUnresolved'
<1>0. /\ cw.j \in Jobs /\ rs.j \in Jobs
      /\ WorkerKnows /\ ResolverKnows /\ AtMostOneUnresolved /\ RowsTyped
  BY DEF Inv, TypeInv, TasksTyped, Tasks, Resolvers
<1> USE DEF AtMostOneUnresolved, Unresolved
<1>1. CASE \A k \in Jobs : row'[k].st = "SUBMITTING" => row[k].st = "SUBMITTING" BY <1>0, <1>1
<1>2. CASE Persist BY <1>0, <1>2 DEF Persist, WorkerKnows, RowsTyped
<1>3. CASE UNCHANGED row BY <1>1, <1>3
<1>4. CASE ClaimFirstPost BY <1>0, <1>1, <1>4 DEF ClaimFirstPost, RowsTyped
<1>5. CASE Response BY <1>0, <1>1, <1>5 DEF Response, RowsTyped
<1>6. CASE TruthSettle BY <1>0, <1>1, <1>6 DEF TruthSettle, RowsTyped, Outs
<1>7. CASE ResolveSettle BY <1>0, <1>1, <1>7 DEF ResolveSettle, RowsTyped, ResolverKnows, Handled
<1> QED BY <1>2, <1>3, <1>4, <1>5, <1>6, <1>7, QuietSteps DEF Quiet, Post, Land, Index

(* NotNewer is transitive.                                                   *)
LEMMA NotNewerTransitive ==
    ASSUME Bounds, NEW a \in Snapshots, NEW b \in Snapshots, NEW c \in Snapshots,
           NotNewer(a, b), NotNewer(b, c)
    PROVE  NotNewer(a, c)
BY DEF Bounds, NotNewer, Snapshots

(* The ledger is replaced only by the snapshot of a settlement or of an      *)
(* activation, which spoils the snapshots other tasks hold.                  *)
LEMMA LedgerWriters ==
    ASSUME [Next]_vars, ~UNCHANGED ledger
    PROVE  \/ TruthSettle /\ ledger' = cw.snap /\ Settleable(cw) /\ rs' = Spoil(rs)
              /\ Step("finish") /\ UNCHANGED ac
           \/ ResolveSettle /\ ledger' = rs.snap /\ Settleable(rs) /\ cw' = Spoil(cw)
              /\ rs' = [NoTask EXCEPT !.pc = "finish", !.j = rs.j] /\ UNCHANGED ac
           \/ ActivateCommit /\ ledger' = ac.snap /\ cw' = Spoil(cw) /\ rs' = Spoil(rs)
<1>1. CASE TruthSettle BY <1>1 DEF TruthSettle
<1>2. CASE ResolveSettle BY <1>2 DEF ResolveSettle
<1>3. CASE ActivateCommit BY <1>3 DEF ActivateCommit
<1>4. CASE \E j \in Jobs : CreateJob(j) \/ ExpireJob(j) \/ ReleaseStale(j) \/ Claim(j)
                            \/ Land(j) \/ Index(j) \/ ResolveLoad(j)
  BY <1>4 DEF CreateJob, ExpireJob, ReleaseStale, Claim, Land, Index, ResolveLoad
<1>5. CASE \/ Recover \/ WindowClosed \/ Prepare \/ PlanFails \/ Persist \/ IntentStale
           \/ ClaimFirstPost \/ PostRefused \/ Post \/ Response \/ ResponseLost
           \/ TruthBaseline \/ TruthRead \/ TruthFails \/ FinishJob
  BY <1>5 DEF Recover, WindowClosed, Prepare, PlanFails, Persist, IntentStale, ClaimFirstPost,
       PostRefused, Post, Response, ResponseLost, TruthBaseline, TruthRead, TruthFails, FinishJob
<1>6. CASE \/ ResolveEvidence \/ ResolveSnapshot \/ ResolveFinish \/ ResolveFails
           \/ Rotate \/ Unlink \/ ActivateObserve \/ OwnTrade \/ Crash \/ UNCHANGED vars
  BY <1>6 DEF ResolveEvidence, ResolveSnapshot, ResolveFinish, ResolveFails, Rotate, Unlink,
       ActivateObserve, OwnTrade, Crash, vars
<1> QED BY <1>1, <1>2, <1>3, <1>4, <1>5, <1>6 DEF Next, WorkerStep, ResolverStep

(* A task at its settlement was there before, with its snapshot, or has just *)
(* read the position.                                                        *)
LEMMA SettlesWithSnapshot ==
    ASSUME TypeInv, [Next]_vars
    PROVE  /\ cw'.pc = "settle" =>
                 \/ TruthRead
                 \/ cw.pc = "settle" /\ cw'.j = cw.j /\ cw'.snap = cw.snap /\ (cw' = cw \/ cw' = Spoil(cw))
           /\ rs'.pc = "settle" =>
                 \/ ResolveSnapshot
                 \/ rs.pc = "settle" /\ rs'.j = rs.j /\ rs'.snap = rs.snap /\ (rs' = rs \/ rs' = Spoil(rs))
<1>0. cw \in Tasks /\ rs \in Resolvers BY DEF TypeInv, TasksTyped
<1>c. cw' = Spoil(cw) => cw'.pc = cw.pc /\ cw'.j = cw.j /\ cw'.snap = cw.snap
  BY <1>0 DEF Spoil, Tasks
<1>r. rs' = Spoil(rs) => rs'.pc = rs.pc /\ rs'.j = rs.j /\ rs'.snap = rs.snap
  BY <1>0 DEF Spoil, Resolvers
<1>1. cw'.pc = "settle" => TruthRead \/ cw' = cw \/ cw' = Spoil(cw)
  <2>1. CASE \E j \in Jobs : CreateJob(j) \/ ExpireJob(j) \/ ReleaseStale(j) \/ Claim(j)
                              \/ Land(j) \/ Index(j) \/ ResolveLoad(j)
    BY <2>1, TaskPCs DEF CreateJob, ExpireJob, ReleaseStale, Claim, Land, Index, ResolveLoad
  <2>2. CASE \/ Recover \/ WindowClosed \/ Prepare \/ PlanFails \/ Persist \/ IntentStale
             \/ ClaimFirstPost \/ Response \/ TruthBaseline \/ TruthSettle \/ FinishJob
    <3>1. CASE Recover \/ Prepare BY <3>1, WorkerPCs DEF Recover, Prepare, Recovered
    <3>2. CASE WindowClosed \/ PlanFails \/ IntentStale \/ FinishJob
      BY <3>2, WorkerPCs DEF WindowClosed, PlanFails, IntentStale, FinishJob
    <3>3. CASE Persist BY <3>3, WorkerPCs DEF Persist
    <3>4. CASE ClaimFirstPost BY <3>4, WorkerPCs DEF ClaimFirstPost
    <3>5. CASE Response
      <4>1. Defer(cw.j) \/ Step("truth") BY <3>5 DEF Response
      <4> QED BY <4>1, WorkerPCs
    <3>6. CASE TruthBaseline BY <3>6, WorkerPCs DEF TruthBaseline
    <3>7. CASE TruthSettle
      <4>1. Defer(cw.j) \/ Step("finish") BY <3>7 DEF TruthSettle
      <4> QED BY <4>1, WorkerPCs
    <3> QED BY <2>2, <3>1, <3>2, <3>3, <3>4, <3>5, <3>6, <3>7
  <2>5. CASE PostRefused \/ Post \/ ResponseLost \/ TruthFails
    BY <1>0, <2>5, TaskPCs, WorkerPCs DEF PostRefused, Post, ResponseLost, TruthFails, Tasks
  <2>3. CASE \/ ResolveEvidence \/ ResolveSnapshot \/ ResolveSettle \/ ResolveFinish \/ ResolveFails
             \/ Rotate \/ Unlink \/ ActivateObserve \/ ActivateCommit \/ OwnTrade \/ Crash
             \/ UNCHANGED vars
    BY <2>3, TaskPCs DEF ResolveEvidence, ResolveSnapshot, ResolveSettle, ResolveFinish, ResolveFails,
         Rotate, Unlink, ActivateObserve, ActivateCommit, OwnTrade, Crash, vars
  <2> QED BY <2>1, <2>2, <2>5, <2>3 DEF Next, WorkerStep, ResolverStep
<1>2. rs'.pc = "settle" => ResolveSnapshot \/ rs' = rs \/ rs' = Spoil(rs)
  <2>1. CASE \E j \in Jobs : CreateJob(j) \/ ExpireJob(j) \/ ReleaseStale(j) \/ Claim(j)
                              \/ Land(j) \/ Index(j)
    BY <2>1 DEF CreateJob, ExpireJob, ReleaseStale, Claim, Land, Index
  <2>2. CASE WorkerStep \/ TruthFails
    BY <2>2 DEF WorkerStep, TruthFails, Recover, WindowClosed, Prepare, PlanFails, Persist,
         IntentStale, ClaimFirstPost, PostRefused, Post, Response, ResponseLost, TruthBaseline,
         TruthRead, TruthSettle, FinishJob
  <2>3. CASE \/ \E j \in Jobs : ResolveLoad(j)
             \/ ResolveEvidence \/ ResolveSettle \/ ResolveFinish \/ ResolveFails
    BY <1>0, <2>3, TaskPCs DEF ResolveLoad, ResolveEvidence, ResolveSettle, ResolveFinish, ResolveFails,
         Resolvers
  <2>4. CASE \/ Rotate \/ Unlink \/ ActivateObserve \/ ActivateCommit \/ OwnTrade \/ Crash
             \/ UNCHANGED vars
    BY <2>4, TaskPCs DEF Rotate, Unlink, ActivateObserve, ActivateCommit, OwnTrade, Crash, vars
  <2> QED BY <2>1, <2>2, <2>3, <2>4 DEF Next, ResolverStep
<1> QED BY <1>1, <1>2, <1>c, <1>r

(* Snapshots about to be settled stay fresh enough, and ledger and           *)
(* activation hold past positions.                                           *)
LEMMA ObservationsStayPast ==
    ASSUME Bounds, TypeInv, TypeInv', Inv, [Next]_vars
    PROVE  FreshEnough(cw)' /\ FreshEnough(rs)' /\ LedgerObserved'
<1>0. /\ \A k \in Jobs : RowTruth(k)
      /\ WorkerKnows /\ ResolverKnows /\ FreshEnough(cw) /\ FreshEnough(rs) /\ LedgerObserved
      /\ cw \in Tasks /\ rs \in Resolvers /\ cw.j \in Jobs /\ rs.j \in Jobs
      /\ ledger \in Snapshots /\ ledger' \in Snapshots /\ cw.snap \in Snapshots
      /\ rs.snap \in Snapshots /\ ac.snap \in Snapshots
      /\ Position \in Snapshots /\ Position' \in Snapshots
  <2>1. Position \in Snapshots BY TaskTyped DEF TypeInv
  <2>2. Position' \in Snapshots
    BY DEF TypeInv, OrdersTyped, CountersTyped, Snapshots, Position, Bounds
  <2> QED BY <2>1, <2>2 DEF Inv, TypeInv, TasksTyped, Tasks, Resolvers
<1>1. NotNewer(Position, Position') /\ \A k \in Jobs : Handled(k) => ord'[k] = ord[k]
  BY ProviderMonotonic
<1>p. ASSUME NEW a \in Snapshots, NotNewer(a, Position) PROVE NotNewer(a, Position')
  BY <1>0, <1>1, <1>p, NotNewerTransitive
<1>2. LedgerObserved'
  <2>1. NotNewer(ledger', Position')
    <3>1. CASE UNCHANGED ledger BY <1>0, <1>p, <3>1 DEF LedgerObserved
    <3>2. CASE ~UNCHANGED ledger
      <4>1. \/ ledger' = cw.snap /\ cw.pc = "settle"
            \/ ledger' = rs.snap /\ rs.pc = "settle"
            \/ ledger' = ac.snap /\ ac.pc = "observed"
        BY <3>2, LedgerWriters DEF TruthSettle, ResolveSettle, ActivateCommit
      <4> QED BY <1>0, <1>p, <4>1 DEF FreshEnough, LedgerObserved
    <3> QED BY <3>1, <3>2
  <2>2. ac'.pc = "observed" => NotNewer(ac'.snap, Position')
    <3>1. ac' = ac \/ ActivateObserve \/ ac' = NoAct
      BY DEF Next, WorkerStep, ResolverStep, CreateJob, ExpireJob, ReleaseStale, Claim, Land, Index,
         Recover, WindowClosed, Prepare, PlanFails, Persist, IntentStale, ClaimFirstPost,
         PostRefused, Post, Response, ResponseLost, TruthBaseline, TruthRead, TruthFails, TruthSettle,
         FinishJob, ResolveLoad, ResolveEvidence, ResolveSnapshot, ResolveSettle, ResolveFinish,
         ResolveFails, Rotate, Unlink, ActivateCommit, OwnTrade, Crash, vars
    <3>2. CASE ActivateObserve
      <4>1. ac'.snap = Position BY <3>2 DEF ActivateObserve
      <4> QED BY <1>1, <4>1
    <3> QED BY <1>0, <1>p, <3>1, <3>2 DEF LedgerObserved, NoAct
  <2> QED BY <2>1, <2>2 DEF LedgerObserved
<1>3. FreshEnough(cw)'
  <2> SUFFICES ASSUME cw'.pc = "settle" PROVE FreshEnough(cw)' BY DEF FreshEnough
  <2>1. CASE TruthRead
    <3>1. cw'.snap = Position /\ cw'.j = cw.j /\ UNCHANGED <<ledger, ord, ext>>
      BY <1>0, <2>1 DEF TruthRead, Tasks
    <3>2. Position' = Position BY <3>1 DEF Position
    <3>3. NotNewer(Position, Position) BY <1>1, <3>2
    <3>4. ord[cw.j] = "FILLED" => cw.j \in Position.fills BY <1>0 DEF Position
    <3> QED BY <1>0, <3>1, <3>2, <3>3, <3>4 DEF FreshEnough, LedgerObserved
  <2>2. CASE cw.pc = "settle" /\ cw'.j = cw.j /\ cw'.snap = cw.snap /\ (cw' = cw \/ cw' = Spoil(cw))
    <3>1. NotNewer(cw'.snap, Position') BY <1>0, <1>p, <2>2 DEF FreshEnough
    <3>2. Handled(cw.j)
      BY <1>0, <2>2 DEF WorkerKnows, RowTruth, Handled, TypeInv, RowsTyped, Outs
    <3>3. ord'[cw'.j] = "FILLED" => cw'.j \in cw'.snap.fills BY <1>0, <1>1, <2>2, <3>2 DEF FreshEnough
    <3>4. ~cw'.dirty => NotNewer(ledger', cw'.snap)
      <4>1. CASE UNCHANGED ledger /\ cw' = cw BY <1>0, <2>2, <4>1 DEF FreshEnough
      <4>2. CASE cw' = Spoil(cw) BY <1>0, <2>2, <4>2 DEF Spoil, Tasks
      <4>3. CASE ~UNCHANGED ledger
        <5>1. cw' = Spoil(cw) BY <4>3, LedgerWriters, WorkerPCs
        <5> QED BY <4>2, <5>1
      <4> QED BY <2>2, <4>1, <4>2, <4>3
    <3> QED BY <3>1, <3>3, <3>4 DEF FreshEnough
  <2> QED BY <2>1, <2>2, SettlesWithSnapshot
<1>4. FreshEnough(rs)'
  <2> SUFFICES ASSUME rs'.pc = "settle" PROVE FreshEnough(rs)' BY DEF FreshEnough
  <2>1. CASE ResolveSnapshot
    <3>1. rs'.snap = Position /\ rs'.j = rs.j /\ UNCHANGED <<ledger, ord, ext>>
      BY <1>0, <2>1 DEF ResolveSnapshot, Resolvers
    <3>2. Position' = Position BY <3>1 DEF Position
    <3>3. NotNewer(Position, Position) BY <1>1, <3>2
    <3>4. ord[rs.j] = "FILLED" => rs.j \in Position.fills BY <1>0 DEF Position
    <3> QED BY <1>0, <3>1, <3>2, <3>3, <3>4 DEF FreshEnough, LedgerObserved
  <2>2. CASE rs.pc = "settle" /\ rs'.j = rs.j /\ rs'.snap = rs.snap /\ (rs' = rs \/ rs' = Spoil(rs))
    <3>1. NotNewer(rs'.snap, Position') BY <1>0, <1>p, <2>2 DEF FreshEnough
    <3>2. Handled(rs.j) BY <1>0, <2>2 DEF ResolverKnows
    <3>3. ord'[rs'.j] = "FILLED" => rs'.j \in rs'.snap.fills BY <1>0, <1>1, <2>2, <3>2 DEF FreshEnough
    <3>4. ~rs'.dirty => NotNewer(ledger', rs'.snap)
      <4>1. CASE UNCHANGED ledger /\ rs' = rs BY <1>0, <2>2, <4>1 DEF FreshEnough
      <4>2. CASE rs' = Spoil(rs) BY <1>0, <2>2, <4>2 DEF Spoil, Resolvers
      <4>3. CASE ~UNCHANGED ledger
        <5>1. rs' = Spoil(rs) BY <4>3, LedgerWriters, TaskPCs
        <5> QED BY <4>2, <5>1
      <4> QED BY <2>2, <4>1, <4>2, <4>3
    <3> QED BY <3>1, <3>3, <3>4 DEF FreshEnough
  <2> QED BY <2>1, <2>2, SettlesWithSnapshot
<1> QED BY <1>2, <1>3, <1>4

(* Every step keeps the invariant.                                           *)
LEMMA NextInv == ASSUME Bounds, TypeInv, Inv, [Next]_vars PROVE TypeInv' /\ Inv'
<1>1. TypeInv' BY NextTyped
<1>2. \A j \in Jobs : RowTruth(j)' BY RowsStayTrue
<1>3. WorkerKnows' /\ ResolverKnows' BY WorkerStaysInformed, ResolverStaysInformed
<1>4. AtMostOneUnresolved' BY OneStaysUnresolved
<1>5. FreshEnough(cw)' /\ FreshEnough(rs)' /\ LedgerObserved' BY <1>1, ObservationsStayPast
<1> QED BY <1>1, <1>2, <1>3, <1>4, <1>5 DEF Inv

(* Every behaviour keeps the types and the invariant.                        *)
LEMMA Invariance == ASSUME Bounds PROVE Spec => [](TypeInv /\ Inv)
<1>1. Init => TypeInv /\ Inv BY InitTyped, InitInv
<1>2. TypeInv /\ Inv /\ [Next]_vars => (TypeInv /\ Inv)' BY NextInv
<1> QED BY <1>1, <1>2, PTL DEF Spec

-----------------------------------------------------------------------------
(* The theorems *)

(* Jobs, rows, orders, tasks and counters keep their types: the attempt      *)
(* counter stays within MAX_JOB_RETRIES + 1 and a stored outcome is one the  *)
(* provider can give.                                                        *)
THEOREM TypeCorrect == ASSUME Bounds PROVE Spec => []TypeOK
<1>1. TypeInv /\ Inv => TypeOK BY TypeInvTypes
<1> QED BY <1>1, Invariance, PTL

(* claim_risex_first_post: over every retry, lease expiry, crash and restart *)
(* the order of a job is posted at most once.                                *)
THEOREM PostedOnce == ASSUME Bounds PROVE Spec => []AtMostOnePost
<1>1. TypeInv /\ Inv => AtMostOnePost BY DEF Inv, RowTruth, AtMostOnePost
<1> QED BY <1>1, Invariance, PTL

(* The unresolved rows are none or one.                                      *)
LEMMA InvOneUnresolved == ASSUME Inv PROVE OneUnresolved
<1> DEFINE U == {j \in Jobs : Unresolved(j)}
<1>1. CASE U = {} BY <1>1, FS_EmptySet DEF OneUnresolved
<1>2. CASE U # {}
  <2>1. PICK j \in U : TRUE BY <1>2
  <2>2. U = {j} BY <2>1 DEF Inv, AtMostOneUnresolved
  <2> QED BY <2>2, FS_Singleton DEF OneUnresolved
<1> QED BY <1>1, <1>2

(* prepare_risex_worker_submission: a user and an asset never have two       *)
(* unresolved executions.                                                    *)
THEOREM OneUnresolvedAtATime == ASSUME Bounds PROVE Spec => []OneUnresolved
<1>1. TypeInv /\ Inv => OneUnresolved BY InvOneUnresolved
<1> QED BY <1>1, Invariance, PTL

(* A step settles a row only with what the provider did, with a ledger that  *)
(* holds the fill, and never with an older observation.                      *)
LEMMA StepConverges == ASSUME Bounds, TypeInv, Inv, [Next]_vars PROVE Converges
<1>0. /\ \A k \in Jobs : RowTruth(k)
      /\ WorkerKnows /\ ResolverKnows /\ FreshEnough(cw) /\ FreshEnough(rs)
      /\ cw.j \in Jobs /\ rs.j \in Jobs /\ RowsTyped /\ OrdersTyped /\ ledger \in Snapshots
  BY DEF Inv, TypeInv, TasksTyped, Tasks, Resolvers
<1>1. ASSUME NEW j \in Jobs, row'[j].st # row[j].st, row'[j].st \in {"FILLED", "CANCELED"}
      PROVE  IF row'[j].sub = "PRE_SUBMIT_BLOCKED" THEN ord[j] = "NONE"
             ELSE row'[j].st = ord[j] /\ (ord[j] = "FILLED" => j \in ledger'.fills)
  <2>1. CASE ClaimFirstPost
    <3>1. j = cw.j /\ row[j].sub = "PRE_POST_COMMITTED" /\ row'[j].sub = "PRE_SUBMIT_BLOCKED"
      BY <1>0, <1>1, <2>1 DEF ClaimFirstPost, RowsTyped
    <3> QED BY <1>0, <3>1 DEF RowTruth
  <2>2. CASE TruthSettle
    <3>1. /\ j = cw.j /\ row'[j].st = row[j].out /\ row'[j].sub = row[j].sub
          /\ cw.pc = "settle" /\ ledger' = cw.snap
      BY <1>0, <1>1, <2>2 DEF TruthSettle, RowsTyped
    <3>2. row[j].out = ord[j] /\ row[j].sub # "PRE_SUBMIT_BLOCKED"
      BY <1>0, <3>1 DEF WorkerKnows, RowTruth
    <3> QED BY <1>0, <3>1, <3>2 DEF FreshEnough
  <2>3. CASE ResolveSettle
    <3>1. /\ j = rs.j /\ row'[j].st = rs.out /\ row'[j].sub = row[j].sub
          /\ rs.pc = "settle" /\ ledger' = rs.snap
      BY <1>0, <1>1, <2>3 DEF ResolveSettle, RowsTyped
    <3>2. rs.out = ord[j] /\ row[j].sub # "PRE_SUBMIT_BLOCKED"
      BY <1>0, <3>1 DEF ResolverKnows, Handled, RowTruth
    <3> QED BY <1>0, <3>1, <3>2 DEF FreshEnough
  <2>4. CASE Persist BY <1>0, <1>1, <2>4 DEF Persist, RowsTyped
  <2>5. CASE Response BY <1>0, <1>1, <2>5 DEF Response, RowsTyped
  <2>6. CASE UNCHANGED row BY <1>1, <2>6
  <2> QED BY <2>1, <2>2, <2>3, <2>4, <2>5, <2>6, QuietSteps DEF Quiet, Post, Land, Index
<1>2. ac' = ac => ledger.fills \subseteq ledger'.fills /\ ledger.ext <= ledger'.ext
  <2>1. CASE UNCHANGED ledger BY <1>0, <2>1 DEF Snapshots, Bounds
  <2>2. CASE ~UNCHANGED ledger
    <3>1. \/ ledger' = cw.snap /\ cw.pc = "settle" /\ ~cw.dirty
          \/ ledger' = rs.snap /\ rs.pc = "settle" /\ ~rs.dirty
          \/ ac.pc = "observed" /\ ac' = NoAct
      BY <2>2, LedgerWriters DEF TruthSettle, ResolveSettle, ActivateCommit, Settleable
    <3> QED BY <1>0, <3>1 DEF FreshEnough, NotNewer, NoAct
  <2> QED BY <2>1, <2>2
<1> QED BY <1>1, <1>2 DEF Converges

(* settle_risex_execution_under_accounting_lock: whatever the interleaving,  *)
(* a settled row tells what the provider did, a released fill is in the      *)
(* ledger, and no settlement replaces an observation by an older one.        *)
THEOREM SettlementSound == ASSUME Bounds PROVE Spec => SettlementConverges
<1>1. TypeInv /\ Inv /\ [Next]_vars => [Converges]_vars BY StepConverges
<1> QED BY <1>1, Invariance, PTL DEF Spec, SettlementConverges

-----------------------------------------------------------------------------
(* The refinement *)

(* The image of the state: what the journal of SubmissionJournal would hold. *)
Phases  == [j \in Jobs |-> Phase(j)]
Left    == [j \in Jobs |-> posts[j] > 0]
Results == [j \in Jobs |-> Result(j)]

(* A step that moves one image of one job is an EXCEPT on the image.         *)
LEMMA OneMoves ==
    ASSUME NEW j \in Jobs, NEW v
    PROVE  /\ Phase(j)' = v /\ (\A k \in Jobs \ {j} : Phase(k)' = Phase(k)) =>
                 Phases' = [Phases EXCEPT ![j] = v]
           /\ (posts[j] > 0)' = v /\ (\A k \in Jobs \ {j} : posts'[k] = posts[k]) =>
                 Left' = [Left EXCEPT ![j] = v]
           /\ Result(j)' = v /\ (\A k \in Jobs \ {j} : Result(k)' = Result(k)) =>
                 Results' = [Results EXCEPT ![j] = v]
<1> HIDE DEF Phase, Result
<1> QED BY DEF Phases, Left, Results

(* The image depends on the row, the posts and the order of the job only.    *)
LEMMA ImageOf ==
    /\ \A k \in Jobs : row'[k].st = row[k].st /\ row'[k].sub = row[k].sub => Phase(k)' = Phase(k)
    /\ \A k \in Jobs : ord'[k] = ord[k] => Result(k)' = Result(k)
    /\ (\A k \in Jobs : Phase(k)' = Phase(k)) => Phases' = Phases
    /\ posts' = posts => Left' = Left
    /\ (\A k \in Jobs : Result(k)' = Result(k)) => Results' = Results
<1>1. \A k \in Jobs : row'[k].st = row[k].st /\ row'[k].sub = row[k].sub => Phase(k)' = Phase(k)
  BY DEF Phase
<1>2. \A k \in Jobs : ord'[k] = ord[k] => Result(k)' = Result(k) BY DEF Result
<1>3. (\A k \in Jobs : Phase(k)' = Phase(k)) => Phases' = Phases BY DEF Phases
<1>4. posts' = posts => Left' = Left BY DEF Left
<1>5. (\A k \in Jobs : Result(k)' = Result(k)) => Results' = Results BY DEF Results
<1> QED BY <1>1, <1>2, <1>3, <1>4, <1>5

(* Initially the journal is empty.                                           *)
LEMMA InitJournal == ASSUME Bounds, Init PROVE Journal!Init
<1>1. \A j \in Jobs : Phase(j) = "absent" BY DEF Init, Phase, NoRow
<1>2. \A j \in Jobs : (posts[j] > 0) = FALSE BY DEF Init
<1>3. \A j \in Jobs : Result(j) = "none" BY DEF Init, Result
<1> QED BY <1>1, <1>2, <1>3 DEF Journal!Init

(* The journal entry of a job in each state of its row.                      *)
LEMMA PhaseIs ==
    ASSUME RowsTyped, NEW j \in Jobs, RowTruth(j)
    PROVE  /\ row[j].st = "NONE" => Phase(j) = "absent"
           /\ row[j].sub = "PRE_SUBMIT_BLOCKED" => Phase(j) = "blocked"
           /\ row[j].sub = "PRE_POST_COMMITTED" => Phase(j) = "recorded"
           /\ row[j].st = "SUBMITTING" /\ row[j].sub # "PRE_POST_COMMITTED" => Phase(j) = "released"
           /\ row[j].st \in {"FILLED", "CANCELED"} /\ row[j].sub # "PRE_SUBMIT_BLOCKED" =>
                 Phase(j) = "settled"
BY DEF RowsTyped, RowTruth, Phase

(* A step of the worker, the resolver or the provider is a step of the       *)
(* journal or leaves it alone.                                               *)
LEMMA StepImplements ==
    ASSUME Bounds, TypeInv, Inv, TypeInv', Inv', [Next]_vars
    PROVE  [Journal!Next]_(Journal!vars)
<1>0. /\ \A k \in Jobs : RowTruth(k)
      /\ WorkerKnows /\ ResolverKnows
      /\ cw.j \in Jobs /\ rs.j \in Jobs /\ RowsTyped /\ OrdersTyped
  BY DEF Inv, TypeInv, TasksTyped, Tasks, Resolvers
<1>p. (\A k \in Jobs : RowTruth(k))' /\ RowsTyped' BY DEF Inv, TypeInv
<1>u. Phases' = Phases /\ Left' = Left /\ Results' = Results => UNCHANGED Journal!vars
  BY DEF Journal!vars, Phases, Left, Results
<1>1. CASE Quiet BY <1>1, <1>u, ImageOf DEF Quiet
<1>2. CASE Persist
  <2>1. UNCHANGED <<posts, ord>> BY <1>2 DEF Persist
  <2>2. Left' = Left /\ Results' = Results BY <2>1, ImageOf
  <2>3. CASE Unprepared(cw.j)
    <3>0. PICK j \in Jobs : j = cw.j BY <1>0
    <3>1. row' = [row EXCEPT ![j] =
                    [st |-> "SUBMITTING", sub |-> "PRE_POST_COMMITTED", out |-> "NONE"]]
      BY <1>2, <2>3, <3>0 DEF Persist
    <3>2. Phase(j) = "absent" BY <1>0, <2>3, <3>0, PhaseIs DEF Unprepared
    <3>r. row'[j].sub = "PRE_POST_COMMITTED" BY <1>0, <3>1 DEF RowsTyped
    <3>3. Phase(j)' = "recorded" BY <1>p, <3>r DEF Phase, RowTruth, RowsTyped
    <3>4. \A k \in Jobs \ {j} : Phase(k)' = Phase(k) BY <1>0, <3>1, ImageOf DEF RowsTyped
    <3>5. Phases' = [Phases EXCEPT ![j] = "recorded"] BY <3>3, <3>4, OneMoves
    <3>6. Journal!Record(j) BY <2>2, <3>2, <3>5 DEF Journal!Record, Phases, Left, Results
    <3> QED BY <3>6 DEF Journal!Next
  <2>4. CASE ~Unprepared(cw.j)
    <3>1. UNCHANGED row BY <1>2, <2>4 DEF Persist
    <3> QED BY <1>u, <2>2, <3>1, ImageOf
  <2> QED BY <2>3, <2>4
<1>3. CASE ClaimFirstPost
  <2>0. PICK j \in Jobs : j = cw.j BY <1>0
  <2>1. UNCHANGED <<posts, ord>> BY <1>3 DEF ClaimFirstPost
  <2>2. Left' = Left /\ Results' = Results BY <2>1, ImageOf
  <2>3. CASE UNCHANGED row BY <1>u, <2>2, <2>3, ImageOf
  <2>4. CASE ~UNCHANGED row
    <3>1. /\ row[j].sub = "PRE_POST_COMMITTED"
          /\ \/ row' = [row EXCEPT ![j].st = "CANCELED", ![j].sub = "PRE_SUBMIT_BLOCKED"]
             \/ row' = [row EXCEPT ![j].sub = "POST_IN_FLIGHT"]
      BY <1>3, <2>0, <2>4 DEF ClaimFirstPost
    <3>2. Phase(j) = "recorded" BY <1>0, <3>1, PhaseIs
    <3>3. row[j].st = "SUBMITTING" BY <1>0, <3>1 DEF RowTruth
    <3>4. /\ \/ row'[j].sub = "PRE_SUBMIT_BLOCKED"
             \/ row'[j].sub = "POST_IN_FLIGHT" /\ row'[j].st = "SUBMITTING"
          /\ \A k \in Jobs \ {j} : row'[k] = row[k]
      BY <1>0, <3>1, <3>3 DEF RowsTyped
    <3>5. \A k \in Jobs \ {j} : Phase(k)' = Phase(k) BY <3>4, ImageOf
    <3>6. CASE Phase(j)' = "blocked"
      <4>1. Phases' = [Phases EXCEPT ![j] = "blocked"] BY <3>5, <3>6, OneMoves
      <4>2. Journal!Block(j) BY <2>2, <3>2, <4>1 DEF Journal!Block, Phases, Left, Results
      <4> QED BY <4>2 DEF Journal!Next
    <3>7. CASE Phase(j)' = "released"
      <4>1. Phases' = [Phases EXCEPT ![j] = "released"] BY <3>5, <3>7, OneMoves
      <4>2. Journal!Release(j) BY <2>2, <3>2, <4>1 DEF Journal!Release, Phases, Left, Results
      <4> QED BY <4>2 DEF Journal!Next
    <3>8. Phase(j)' \in {"blocked", "released"} BY <1>p, <3>4 DEF Phase, RowTruth, RowsTyped
    <3> QED BY <3>6, <3>7, <3>8
  <2> QED BY <2>3, <2>4
<1>4. CASE Post
  <2>0. PICK j \in Jobs : j = cw.j BY <1>0
  <2>1. /\ UNCHANGED row
        /\ posts' = [posts EXCEPT ![j] = @ + 1] /\ ord' = [ord EXCEPT ![j] = "SENT"]
        /\ row[j].sub = "POST_IN_FLIGHT" /\ posts[j] = 0
    BY <1>0, <1>4, <2>0 DEF Post, WorkerKnows
  <2>2. Phases' = Phases BY <2>1, ImageOf
  <2>3. ord[j] = "NONE" /\ row[j].st = "SUBMITTING"
    BY <1>0, <2>1 DEF RowTruth, RowsTyped
  <2>4. Results' = Results
    <3>1. ord'[j] = "SENT" /\ \A k \in Jobs \ {j} : ord'[k] = ord[k] BY <1>0, <2>1 DEF OrdersTyped
    <3>2. Result(j)' = Result(j) BY <2>3, <3>1 DEF Result
    <3> QED BY <3>1, <3>2, ImageOf
  <2>5. Phase(j) = "released" BY <1>0, <2>1, <2>3, PhaseIs
  <2>6. (posts[j] > 0) = FALSE /\ (posts'[j] > 0) = TRUE
        /\ \A k \in Jobs \ {j} : posts'[k] = posts[k]
    BY <1>0, <2>1 DEF OrdersTyped
  <2>7. Left' = [Left EXCEPT ![j] = TRUE] BY <2>6, OneMoves
  <2>8. Journal!Submit(j) BY <2>2, <2>4, <2>5, <2>6, <2>7 DEF Journal!Submit, Phases, Left, Results
  <2> QED BY <2>8 DEF Journal!Next
<1>5. CASE Response
  <2>1. UNCHANGED <<posts, ord>> BY <1>5 DEF Response
  <2>0. PICK j \in Jobs : j = cw.j BY <1>0
  <2>2. PICK out \in Classify(ord[j]) :
           row' = [row EXCEPT ![j].sub = IF out = "NONE" THEN "ACKNOWLEDGED"
                                         ELSE "TERMINAL_EVIDENCE_PERSISTED",
                              ![j].out = out]
    BY <1>5, <2>0 DEF Response
  <2>3. row[j].sub = "POST_IN_FLIGHT" BY <1>0, <1>5, <2>0 DEF Response, WorkerKnows
  <2>4. /\ row'[j].st = row[j].st
        /\ row'[j].sub \in {"ACKNOWLEDGED", "TERMINAL_EVIDENCE_PERSISTED"}
        /\ \A k \in Jobs \ {j} : row'[k] = row[k]
    BY <1>0, <2>2 DEF RowsTyped
  <2>5. row[j].st \in {"SUBMITTING", "FILLED", "CANCELED"} BY <1>0, <2>3 DEF RowsTyped, RowTruth
  <2>6. Phase(j) = IF row[j].st = "SUBMITTING" THEN "released" ELSE "settled"
    BY <1>0, <2>3, <2>5, PhaseIs
  <2>7. Phase(j)' = IF row[j].st = "SUBMITTING" THEN "released" ELSE "settled"
    BY <1>p, <2>4, <2>5 DEF Phase, RowTruth, RowsTyped
  <2>8. \A k \in Jobs : Phase(k)' = Phase(k) BY <2>4, <2>6, <2>7, ImageOf
  <2> QED BY <1>u, <2>1, <2>8, ImageOf
<1>s. ASSUME NEW j \in Jobs, NEW o \in {"FILLED", "CANCELED"}, o = ord[j],
             row' = [row EXCEPT ![j].st = o], UNCHANGED <<posts, ord>>
      PROVE  [Journal!Next]_(Journal!vars)
  <2>2. Left' = Left /\ Results' = Results BY <1>s, ImageOf
  <2>3. row[j].sub \notin {"NONE", "PRE_POST_COMMITTED", "PRE_SUBMIT_BLOCKED"}
    BY <1>0, <1>s DEF RowTruth
  <2>4. /\ row'[j].st = o /\ row'[j].sub = row[j].sub
        /\ \A k \in Jobs \ {j} : row'[k] = row[k]
    BY <1>0, <1>s DEF RowsTyped
  <2>5. Phase(j)' = "settled" BY <1>p, <2>3, <2>4 DEF Phase, RowTruth, RowsTyped
  <2>6. \A k \in Jobs \ {j} : Phase(k)' = Phase(k) BY <2>4, ImageOf
  <2>7. CASE row[j].st = "SUBMITTING"
    <3>1. Phase(j) = "released" BY <1>0, <2>3, <2>7, PhaseIs
    <3>2. Phases' = [Phases EXCEPT ![j] = "settled"] BY <2>5, <2>6, OneMoves
    <3>3. Result(j) # "none" BY <1>s DEF Result
    <3>4. Journal!Settle(j)
      BY <2>2, <3>1, <3>2, <3>3 DEF Journal!Settle, Phases, Left, Results
    <3> QED BY <3>4 DEF Journal!Next
  <2>8. CASE row[j].st # "SUBMITTING"
    <3>1. row[j].st \in {"FILLED", "CANCELED"} BY <1>0, <2>3, <2>8 DEF RowTruth, RowsTyped
    <3>2. Phase(j) = "settled" BY <1>0, <2>3, <3>1, PhaseIs
    <3> QED BY <1>u, <2>2, <2>5, <2>6, <3>2, ImageOf
  <2> QED BY <2>7, <2>8
<1>6. CASE TruthSettle
  <2>1. UNCHANGED <<posts, ord>> BY <1>6 DEF TruthSettle
  <2>2. UNCHANGED row \/ row' = [row EXCEPT ![cw.j].st = row[cw.j].out] BY <1>6 DEF TruthSettle
  <2>3. row[cw.j].out = ord[cw.j] /\ row[cw.j].out \in {"FILLED", "CANCELED"}
    BY <1>0, <1>6 DEF TruthSettle, WorkerKnows, RowTruth, RowsTyped, Outs
  <2> QED BY <1>0, <1>s, <1>u, <2>1, <2>2, <2>3, ImageOf
<1>7. CASE ResolveSettle
  <2>1. UNCHANGED <<posts, ord>> BY <1>7 DEF ResolveSettle
  <2>2. UNCHANGED row \/ row' = [row EXCEPT ![rs.j].st = rs.out] BY <1>7 DEF ResolveSettle
  <2>3. rs.out = ord[rs.j] /\ rs.out \in {"FILLED", "CANCELED"}
    BY <1>0, <1>7 DEF ResolveSettle, ResolverKnows, Handled
  <2> QED BY <1>0, <1>s, <1>u, <2>1, <2>2, <2>3, ImageOf
<1>8. ASSUME NEW j \in Jobs, Land(j) PROVE [Journal!Next]_(Journal!vars)
  <2>1. PICK o \in {"FILLED", "CANCELED", "LOST"} : ord' = [ord EXCEPT ![j] = o] BY <1>8 DEF Land
  <2>2. ord[j] = "SENT" /\ UNCHANGED <<row, posts>> BY <1>8 DEF Land
  <2>3. Phases' = Phases /\ Left' = Left BY <2>2, ImageOf
  <2>4. ord'[j] = o /\ \A k \in Jobs \ {j} : ord'[k] = ord[k] BY <1>0, <2>1 DEF OrdersTyped
  <2>5. \A k \in Jobs \ {j} : Result(k)' = Result(k) BY <2>4, ImageOf
  <2>6. Result(j) = "none" BY <2>2 DEF Result
  <2>7. (posts[j] > 0) = TRUE BY <1>0, <2>2 DEF RowTruth, OrdersTyped
  <2>8. CASE o = "LOST"
    <3>1. Result(j)' = "none" BY <2>4, <2>8 DEF Result
    <3> QED BY <1>u, <2>3, <2>5, <2>6, <3>1, ImageOf
  <2>9. CASE o # "LOST"
    <3>1. PICK r \in {"filled", "canceled"} : Result(j)' = r BY <2>4, <2>9 DEF Result
    <3>2. Results' = [Results EXCEPT ![j] = r] BY <2>5, <3>1, OneMoves
    <3>3. Journal!Execute(j, r)
      BY <2>3, <2>6, <2>7, <3>2 DEF Journal!Execute, Phases, Left, Results
    <3> QED BY <3>3 DEF Journal!Next
  <2> QED BY <2>8, <2>9
<1>9. ASSUME NEW j \in Jobs, Index(j) PROVE [Journal!Next]_(Journal!vars)
  BY <1>9, <1>u, ImageOf DEF Index
<1> QED BY <1>1, <1>2, <1>3, <1>4, <1>5, <1>6, <1>7, <1>8, <1>9, QuietSteps

(* The order path implements the write-ahead journal: recorded before it is  *)
(* released, released before it leaves, leaving at most once, settled with   *)
(* its own result, over every interleaving, retry and crash.                 *)
THEOREM JournalImplemented == ASSUME Bounds PROVE Spec => ImplementsJournal
<1>1. Init => Journal!Init BY InitJournal
<1>2. TypeInv /\ Inv /\ (TypeInv /\ Inv)' /\ [Next]_vars => [Journal!Next]_(Journal!vars)
  BY StepImplements
<1> QED BY <1>1, <1>2, Invariance, PTL DEF Spec, ImplementsJournal, Journal!Spec
=============================================================================
