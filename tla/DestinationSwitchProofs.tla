----------------------- MODULE DestinationSwitchProofs -----------------------
(***************************************************************************)
(* Proofs about the copy controls and the destination switch, for any      *)
(* number of jobs, epochs and requests: nothing is left behind at a        *)
(* destination, and a pause lets at most one increase through.             *)
(*                                                                         *)
(* The argument is about the newest epoch. The user's destination is its   *)
(* destination, an order is at the exchange only under an unresolved row,  *)
(* and an unresolved row of the newest epoch keeps a switch from starting  *)
(* and cannot appear while one runs, because inserting it needs the user   *)
(* row. So the epochs that are closed by a switch have no order under way. *)
(***************************************************************************)
EXTENDS DestinationSwitch, SequenceTheorems, TLAPS

Bounds == MaxEpochs \in Nat \ {0} /\ Home \in Dests

Users  == [dest : Dests, active : 0..MaxEpochs, copy : {"ACTIVE", "PAUSED", "SHADOW"},
           acct : BOOLEAN, since : 1..MaxEpochs]
Epochs == [dest : Dests, bound : BOOLEAN, since : 1..MaxEpochs]
Jobs   == [origin : {"STRATEGY", "CLOSE_ALL"}, target : {0, 1}, dest : Dests,
           born : 1..MaxEpochs, epoch : 0..MaxEpochs,
           st : Pending \cup {"DONE", "SKIPPED", "DEAD"},
           row : {"NONE", "FINAL"} \cup Unresolved,
           ord : {"NONE", "SENT", "DONE", "REJECTED"}, delta : Int]
Works  == [pc : {"idle", "check", "insert", "authorize", "post", "await"}, j : Nat]
Fans   == [pc : {"idle", "insert"}, dest : Dests, born : 0..MaxEpochs]
Switches == [pc : {"idle", "read", "commit"}, to : Dests, from : Nat]

UserTypes == /\ user \in Users /\ epochs \in Seq(Epochs) /\ Len(epochs) \in 1..MaxEpochs
             /\ sw \in Switches /\ (sw.pc # "idle" => Len(epochs) < MaxEpochs)
JobTypes  == /\ jobs \in Seq(Jobs) /\ wk \in Works
             /\ fan \in Fans /\ (fan.pc = "insert" => fan.born \in 1..MaxEpochs)
BookTypes == ledger \in Int /\ pos \in [Dests -> Int] /\ late \in Nat

(* The newest epoch is the user's.                                           *)
EpochsInv ==
    /\ epochs[Len(epochs)].dest = user.dest
    /\ user.active \in {0, Len(epochs)}

(* A job is bound to an epoch it was born in, for good, before it has a row; *)
(* an order is at the exchange only under an unresolved row.                 *)
JobsInv ==
    \A j \in 1..Len(jobs) :
        /\ jobs[j].epoch <= Len(epochs)
        /\ jobs[j].epoch # 0 => /\ epochs[jobs[j].epoch].dest = jobs[j].dest
                                /\ epochs[jobs[j].epoch].since <= jobs[j].born
        /\ jobs[j].epoch = 0 => jobs[j].row = "NONE"
        /\ jobs[j].row = "NONE" => jobs[j].ord = "NONE"
        /\ jobs[j].ord = "SENT" => jobs[j].row \in Unresolved

WorkerInv ==
    /\ wk.j \in 0..Len(jobs)
    /\ wk.pc # "idle" => wk.j \in 1..Len(jobs) /\ Cur.epoch # 0
    /\ wk.pc = "insert" => Cur.row = "NONE"
    /\ wk.pc \in {"authorize", "post"} => Cur.row = "SUBMITTING" /\ Cur.ord = "NONE"
    /\ wk.pc = "await" => Cur.row \in Unresolved

(* An order sent, or past its last check, is of the newest epoch or of one   *)
(* closed by linking again.                                                  *)
OrdersInv ==
    \A j \in 1..Len(jobs) :
        jobs[j].ord = "SENT" \/ (wk.pc = "post" /\ wk.j = j) =>
            jobs[j].epoch = Len(epochs) \/ Relinked(jobs[j].epoch)

LeftByRelink == \E j \in 1..Len(jobs) : jobs[j].ord = "DONE" /\ Relinked(jobs[j].epoch)

(* A switch under way leaves from the newest epoch, where no order is        *)
(* unresolved and none can be inserted while it holds the user row.          *)
SwitchInv ==
    sw.pc # "idle" =>
        /\ sw.from = Len(epochs) /\ sw.to # user.dest
        /\ \A j \in 1..Len(jobs) : jobs[j].epoch = Len(epochs) => jobs[j].row \notin Unresolved
        /\ sw.pc = "commit" => pos[user.dest] = 0 \/ LeftByRelink

LeftInv == \A d \in Dests \ {user.dest} : pos[d] = 0 \/ LeftByRelink

(* The one late increase has been sent, and what the worker has decided on   *)
(* since is none; the ledger it was decided on does not move under it.       *)
Decided == {"insert", "authorize", "post"}
DecidedInv ==
    user.copy = "PAUSED" =>
        /\ late \in {0, 1}
        /\ late = 1 /\ wk.pc \in Decided => ~Increases(Cur.delta)

TypeInv == UserTypes /\ JobTypes /\ BookTypes
Inv == /\ TypeInv /\ EpochsInv /\ JobsInv /\ WorkerInv /\ OrdersInv
       /\ SwitchInv /\ LeftInv /\ DecidedInv

-----------------------------------------------------------------------------
(* Steps *)

(* What a step may make of job j, with the epochs and the user's destination *)
(* as they are.                                                              *)
MayBecome(j, a, b) ==
    /\ b.dest = a.dest /\ b.born = a.born
    /\ \/ b.epoch = a.epoch
       \/ /\ a.epoch = 0 /\ b.epoch = user.active /\ b.epoch # 0
          /\ epochs[user.active].since <= a.born /\ a.dest = user.dest
    /\ b.epoch = 0 => b.row = "NONE"
    /\ b.row = "NONE" => b.ord = "NONE"
    /\ b.ord = "SENT" => b.row \in Unresolved /\ (a.ord = "SENT" \/ (wk.pc = "post" /\ wk.j = j))
    /\ a.ord = "DONE" => b.ord = "DONE"
    /\ b.row \in Unresolved => a.row \in Unresolved \/ (sw.pc = "idle" /\ b.epoch = a.epoch)

IsNew(b) == b.epoch = 0 /\ b.row = "NONE" /\ b.ord = "NONE"

JobsMove ==
    /\ Len(jobs) <= Len(jobs')
    /\ \A j \in 1..Len(jobs) : MayBecome(j, jobs[j], jobs'[j])
    /\ \A j \in 1..Len(jobs') : j > Len(jobs) => IsNew(jobs'[j])

SameEpochs == UNCHANGED epochs /\ user'.dest = user.dest /\ user'.active = user.active

(* A job replaced by a job.                                                  *)
LEMMA SetJob ==
    ASSUME JobTypes, NEW j \in 1..Len(jobs), NEW c \in Jobs, jobs' = [jobs EXCEPT ![j] = c]
    PROVE  /\ jobs' \in Seq(Jobs) /\ Len(jobs') = Len(jobs) /\ jobs'[j] = c
           /\ \A i \in 1..Len(jobs) : i # j => jobs'[i] = jobs[i]
BY ExceptSeq DEF JobTypes

(* A job added to the jobs.                                                  *)
LEMMA AddJob ==
    ASSUME JobTypes, NEW c \in Jobs, jobs' = Append(jobs, c)
    PROVE  /\ jobs' \in Seq(Jobs) /\ Len(jobs') = Len(jobs) + 1 /\ jobs'[Len(jobs) + 1] = c
           /\ \A i \in 1..Len(jobs) : jobs'[i] = jobs[i]
BY AppendProperties DEF JobTypes

(* The numbers of the jobs and their fields.                                 *)
LEMMA JobFacts ==
    ASSUME Inv
    PROVE  /\ Len(jobs) \in Nat /\ DOMAIN jobs = 1..Len(jobs)
           /\ \A j \in 1..Len(jobs) : jobs[j] \in Jobs
BY DEF Inv, TypeInv, JobTypes

(* A job that no step touches may stay.                                      *)
LEMMA StaysItself ==
    ASSUME Inv, NEW j \in 1..Len(jobs)
    PROVE  MayBecome(j, jobs[j], jobs[j])
BY DEF Inv, JobsInv, MayBecome

(* One job changes as it may.                                                *)
LEMMA OneMoves ==
    ASSUME Inv, NEW j \in 1..Len(jobs), NEW c \in Jobs, jobs' = [jobs EXCEPT ![j] = c],
           MayBecome(j, jobs[j], c)
    PROVE  JobsMove
<1>1. /\ Len(jobs') = Len(jobs) /\ jobs'[j] = c
      /\ \A i \in 1..Len(jobs) : i # j => jobs'[i] = jobs[i]
  BY SetJob DEF Inv, TypeInv
<1>2. Len(jobs) \in Nat BY JobFacts
<1>3. ASSUME NEW i \in 1..Len(jobs) PROVE MayBecome(i, jobs[i], jobs'[i])
  BY <1>1, StaysItself
<1> QED BY <1>1, <1>2, <1>3 DEF JobsMove

(* A new job is added.                                                       *)
LEMMA NewMoves ==
    ASSUME Inv, NEW c \in Jobs, jobs' = Append(jobs, c), IsNew(c)
    PROVE  JobsMove
<1>1. /\ Len(jobs') = Len(jobs) + 1 /\ jobs'[Len(jobs) + 1] = c
      /\ \A i \in 1..Len(jobs) : jobs'[i] = jobs[i]
  BY AddJob DEF Inv, TypeInv
<1>2. Len(jobs) \in Nat BY JobFacts
<1>3. ASSUME NEW i \in 1..Len(jobs) PROVE MayBecome(i, jobs[i], jobs'[i])
  BY <1>1, StaysItself
<1>4. ASSUME NEW i \in 1..Len(jobs'), i > Len(jobs) PROVE IsNew(jobs'[i])
  <2>1. i = Len(jobs) + 1 BY <1>1, <1>2, <1>4
  <2> QED BY <1>1, <2>1
<1> QED BY <1>1, <1>2, <1>3, <1>4 DEF JobsMove

(* The jobs are left alone.                                                  *)
LEMMA NoneMoves == ASSUME Inv, UNCHANGED jobs PROVE JobsMove
<1>1. Len(jobs) \in Nat BY JobFacts
<1>2. \A i \in 1..Len(jobs) : MayBecome(i, jobs[i], jobs'[i]) BY StaysItself
<1> QED BY <1>1, <1>2 DEF JobsMove

-----------------------------------------------------------------------------
(* What such steps keep *)

(* The jobs keep their bindings and rows.                                    *)
LEMMA JobsStay == ASSUME Inv, JobsMove, SameEpochs PROVE JobsInv'
<1> SUFFICES ASSUME NEW j \in 1..Len(jobs')
    PROVE  /\ jobs'[j].epoch <= Len(epochs)
           /\ jobs'[j].epoch # 0 => /\ epochs[jobs'[j].epoch].dest = jobs'[j].dest
                                    /\ epochs[jobs'[j].epoch].since <= jobs'[j].born
           /\ jobs'[j].epoch = 0 => jobs'[j].row = "NONE"
           /\ jobs'[j].row = "NONE" => jobs'[j].ord = "NONE"
           /\ jobs'[j].ord = "SENT" => jobs'[j].row \in Unresolved
  BY DEF JobsInv, SameEpochs
<1>1. CASE j <= Len(jobs)
  <2>1. j \in 1..Len(jobs) BY <1>1, JobFacts
  <2>2. MayBecome(j, jobs[j], jobs'[j]) BY <2>1 DEF JobsMove
  <2>3. CASE jobs'[j].epoch = jobs[j].epoch
    BY <2>1, <2>2, <2>3 DEF MayBecome, Inv, JobsInv
  <2>4. CASE jobs'[j].epoch # jobs[j].epoch
    <3>1. /\ jobs'[j].epoch = Len(epochs) /\ jobs'[j].epoch = user.active /\ jobs[j].dest = user.dest
          /\ epochs[user.active].since <= jobs[j].born
      BY <2>2, <2>4 DEF MayBecome, Inv, EpochsInv
    <3>2. epochs[Len(epochs)].dest = user.dest /\ Len(epochs) \in Nat
      BY DEF Inv, EpochsInv, TypeInv, UserTypes
    <3> QED BY <2>2, <3>1, <3>2 DEF MayBecome
  <2> QED BY <2>3, <2>4
<1>2. CASE ~(j <= Len(jobs))
  <2>1. IsNew(jobs'[j]) BY <1>2, JobFacts DEF JobsMove
  <2>2. Len(epochs) \in Nat BY DEF Inv, TypeInv, UserTypes
  <2> QED BY <2>1, <2>2 DEF IsNew
<1> QED BY <1>1, <1>2

(* The orders under way stay in their epochs.                                *)
LEMMA OrdersStay ==
    ASSUME Inv, JobsMove, SameEpochs,
           wk'.pc = "post" => \/ wk' = wk
                              \/ wk'.j \in 1..Len(jobs) /\ jobs'[wk'.j].epoch = Len(epochs)
    PROVE  OrdersInv'
<1> SUFFICES ASSUME NEW j \in 1..Len(jobs'),
                    jobs'[j].ord = "SENT" \/ (wk'.pc = "post" /\ wk'.j = j)
             PROVE  jobs'[j].epoch = Len(epochs) \/ Relinked(jobs'[j].epoch)
  BY DEF OrdersInv, SameEpochs, Relinked
<1>1. wk'.pc = "post" => wk'.j \in 1..Len(jobs) BY DEF Inv, WorkerInv
<1>2. j \in 1..Len(jobs)
  <2>1. CASE j > Len(jobs)
    <3>1. jobs'[j].ord # "SENT" BY <2>1 DEF JobsMove, IsNew
    <3> QED BY <1>1, <2>1, <3>1
  <2> QED BY <2>1, JobFacts
<1>3. MayBecome(j, jobs[j], jobs'[j]) BY <1>2 DEF JobsMove
<1>4. CASE wk'.pc = "post" /\ wk'.j = j /\ wk' # wk BY <1>4
<1>5. CASE ~(wk'.pc = "post" /\ wk'.j = j /\ wk' # wk)
  <2>1. jobs[j].ord = "SENT" \/ (wk.pc = "post" /\ wk.j = j) BY <1>3, <1>5 DEF MayBecome
  <2>2. jobs[j].epoch = Len(epochs) \/ Relinked(jobs[j].epoch) BY <1>2, <2>1 DEF Inv, OrdersInv
  <2>3. jobs[j].epoch # 0 BY <1>2, <2>1 DEF Inv, JobsInv, WorkerInv, Cur, Unresolved
  <2>4. jobs'[j].epoch = jobs[j].epoch BY <1>3, <2>3 DEF MayBecome
  <2> QED BY <2>2, <2>4
<1> QED BY <1>4, <1>5

(* What linking has left stays left.                                         *)
LEMMA LeftStays == ASSUME Inv, JobsMove, SameEpochs, LeftByRelink PROVE LeftByRelink'
<1>1. PICK j \in 1..Len(jobs) : jobs[j].ord = "DONE" /\ Relinked(jobs[j].epoch)
  BY DEF LeftByRelink
<1>2. MayBecome(j, jobs[j], jobs'[j]) BY DEF JobsMove
<1>3. jobs'[j].ord = "DONE" BY <1>1, <1>2 DEF MayBecome
<1>4. jobs[j].epoch # 0 BY <1>1 DEF Inv, JobsInv
<1>5. jobs'[j].epoch = jobs[j].epoch BY <1>2, <1>4 DEF MayBecome
<1>6. j \in 1..Len(jobs') BY JobFacts DEF JobsMove
<1>7. /\ jobs'[j].epoch < Len(epochs')
      /\ epochs'[jobs'[j].epoch + 1].dest = epochs'[jobs'[j].epoch].dest
  BY <1>1, <1>5 DEF Relinked, SameEpochs
<1> QED BY <1>3, <1>6, <1>7 DEF LeftByRelink, Relinked

(* The positions left behind, when no order is filled.                       *)
LEMMA PlacesStay == ASSUME Inv, JobsMove, SameEpochs, UNCHANGED pos PROVE LeftInv'
BY LeftStays DEF Inv, LeftInv, SameEpochs

(* A switch under way, when it makes no step itself.                         *)
LEMMA SwitchStays ==
    ASSUME Inv, JobsMove, SameEpochs, UNCHANGED <<sw, pos>>
    PROVE  SwitchInv'
<1>1. SUFFICES ASSUME sw.pc # "idle"
               PROVE  /\ sw.from = Len(epochs) /\ sw.to # user.dest
                      /\ \A j \in 1..Len(jobs') : jobs'[j].epoch = Len(epochs) => jobs'[j].row \notin Unresolved
                      /\ sw.pc = "commit" => pos[user.dest] = 0 \/ LeftByRelink'
  BY DEF SwitchInv, SameEpochs
<1>2. ASSUME NEW j \in 1..Len(jobs'), jobs'[j].epoch = Len(epochs) PROVE jobs'[j].row \notin Unresolved
  <2>1. CASE j > Len(jobs) BY <2>1 DEF JobsMove, IsNew, Unresolved
  <2>2. CASE ~(j > Len(jobs))
    <3>1. j \in 1..Len(jobs) BY <2>2, JobFacts
    <3>2. MayBecome(j, jobs[j], jobs'[j]) BY <3>1 DEF JobsMove
    <3>3. jobs[j].epoch = 0 => jobs[j].row = "NONE" BY <3>1 DEF Inv, JobsInv
    <3>4. jobs[j].epoch = Len(epochs) => jobs[j].row \notin Unresolved
      BY <1>1, <3>1 DEF Inv, SwitchInv
    <3> QED BY <1>1, <1>2, <3>2, <3>3, <3>4 DEF MayBecome, Unresolved
  <2> QED BY <2>1, <2>2
<1> QED BY <1>1, <1>2, LeftStays DEF Inv, SwitchInv
(* The worker is where it was, or idle, and its job has the same row.        *)
LEMMA WorkerStays ==
    ASSUME Inv, JobsMove,
           \/ wk' = NoWork
           \/ /\ wk' = wk
              /\ wk.pc # "idle" => /\ jobs'[wk.j].row = jobs[wk.j].row
                                   /\ \/ jobs'[wk.j].ord = jobs[wk.j].ord
                                      \/ jobs[wk.j].ord = "SENT"
    PROVE  WorkerInv'
<1>0. wk'.j \in 0..Len(jobs')
  <2>1. wk.j \in 0..Len(jobs) /\ Len(jobs) \in Nat /\ Len(jobs) <= Len(jobs')
    BY JobFacts DEF Inv, WorkerInv, JobsMove
  <2>2. wk'.j = wk.j \/ wk'.j = 0 BY DEF NoWork
  <2>3. \A n : n \in 0..Len(jobs) => n \in 0..Len(jobs') BY <2>1
  <2>4. 0 \in 0..Len(jobs) BY <2>1
  <2> QED BY <2>1, <2>2, <2>3, <2>4
<1>1. CASE wk'.pc = "idle" BY <1>0, <1>1 DEF WorkerInv
<1>2. CASE wk'.pc # "idle"
  <2>1. wk' = wk /\ wk.j \in 1..Len(jobs) /\ wk.j \in 1..Len(jobs')
    BY <1>2, JobFacts DEF Inv, WorkerInv, JobsMove, NoWork
  <2>2. jobs'[wk.j].epoch = jobs[wk.j].epoch /\ jobs[wk.j].epoch # 0
    <3>1. MayBecome(wk.j, jobs[wk.j], jobs'[wk.j]) BY <2>1 DEF JobsMove
    <3>2. jobs[wk.j].epoch # 0 BY <1>2, <2>1 DEF Inv, WorkerInv, Cur
    <3> QED BY <3>1, <3>2 DEF MayBecome
  <2>3. /\ wk.pc = "insert" => jobs[wk.j].row = "NONE"
        /\ wk.pc \in {"authorize", "post"} => jobs[wk.j].row = "SUBMITTING" /\ jobs[wk.j].ord = "NONE"
        /\ wk.pc = "await" => jobs[wk.j].row \in Unresolved
    BY DEF Inv, WorkerInv, Cur
  <2>4. /\ jobs'[wk.j].row = jobs[wk.j].row
        /\ jobs'[wk.j].ord = jobs[wk.j].ord \/ jobs[wk.j].ord = "SENT"
    BY <1>2, <2>1 DEF NoWork
  <2>5. wk'.pc = wk.pc /\ wk'.j = wk.j BY <2>1
  <2>6. /\ wk.pc \in {"authorize", "post"} => jobs'[wk.j].row = "SUBMITTING" /\ jobs'[wk.j].ord = "NONE"
        /\ wk.pc = "insert" => jobs'[wk.j].row = "NONE"
        /\ wk.pc = "await" => jobs'[wk.j].row \in Unresolved
    BY <2>3, <2>4
  <2> QED BY <1>0, <2>1, <2>2, <2>5, <2>6 DEF WorkerInv, Cur
<1> QED BY <1>1, <1>2

(* The decision under way stays what it was.                                 *)
LEMMA DecidedStays ==
    ASSUME Inv, JobsMove, late' \in Nat,
           user'.copy = "PAUSED" => (user.copy = "PAUSED" /\ late' = late) \/ late' = 0,
           wk'.pc \in Decided => /\ ledger' = ledger /\ wk'.j = wk.j /\ wk.pc \in Decided
                                 /\ jobs'[wk.j].delta = jobs[wk.j].delta
    PROVE  DecidedInv'
<1> SUFFICES ASSUME user'.copy = "PAUSED"
             PROVE  /\ late' \in {0, 1}
                    /\ late' = 1 /\ wk'.pc \in Decided =>
                          ~(Abs(ledger' + jobs'[wk'.j].delta) > Abs(ledger'))
  BY DEF DecidedInv, Increases, Cur
<1>1. CASE late' = 0 BY <1>1
<1>2. CASE user.copy = "PAUSED" /\ late' = late
  BY <1>2 DEF Inv, DecidedInv, Increases, Cur
<1> QED BY <1>1, <1>2
(* A step with the same epochs, positions and switch.                        *)
LEMMA StepKeeps ==
    ASSUME Inv, UserTypes', JobTypes', BookTypes', JobsMove, SameEpochs, UNCHANGED <<sw, pos>>,
           WorkerInv', DecidedInv',
           wk'.pc = "post" => \/ wk' = wk
                              \/ wk'.j \in 1..Len(jobs) /\ jobs'[wk'.j].epoch = Len(epochs)
    PROVE  Inv'
<1>1. EpochsInv' BY DEF Inv, EpochsInv, SameEpochs
<1> QED BY <1>1, JobsStay, OrdersStay, PlacesStay, SwitchStays DEF Inv, TypeInv

-----------------------------------------------------------------------------
(* Queue *)

(* A job is made with the destination and the epoch count it was read with.  *)
LEMMA NewJobTyped ==
    ASSUME Bounds, NEW o \in {"STRATEGY", "CLOSE_ALL"}, NEW t \in {0, 1}, NEW d \in Dests,
           NEW b \in 1..MaxEpochs
    PROVE  NewJob(o, t, d, b) \in Jobs /\ IsNew(NewJob(o, t, d, b))
<1>1. 0 \in 0..MaxEpochs /\ 0 \in Int BY DEF Bounds
<1> QED BY <1>1 DEF NewJob, Jobs, IsNew, Pending

(* Steps that leave user, epochs, switch, worker, ledger and positions alone *)
(* and change no row or order of a job.                                      *)
LEMMA QuietKeeps ==
    ASSUME Inv, JobTypes', JobsMove, UNCHANGED <<user, epochs, sw, pos, ledger, late, wk>>,
           \A j \in 1..Len(jobs) : /\ jobs'[j].row = jobs[j].row
                                   /\ jobs'[j].delta = jobs[j].delta
                                   /\ jobs'[j].ord = jobs[j].ord
    PROVE  Inv'
<1>1. UserTypes' /\ BookTypes' BY DEF Inv, TypeInv, UserTypes, BookTypes
<1>2. SameEpochs BY DEF SameEpochs
<1>3. wk.pc # "idle" => wk.j \in 1..Len(jobs) BY DEF Inv, WorkerInv
<1>4. WorkerInv' BY <1>3, WorkerStays
<1>5. wk.pc \in Decided => wk.pc # "idle" BY DEF Decided
<1>6. late' \in Nat BY <1>1 DEF BookTypes
<1>7. DecidedInv' BY <1>3, <1>5, <1>6, DecidedStays
<1> QED BY <1>1, <1>2, <1>4, <1>7, StepKeeps

(* The fan-out of a master fill.                                             *)
LEMMA FanKeeps == ASSUME Bounds, Inv, FanRead \/ FanInsert PROVE Inv'
<1> USE DEF Inv, TypeInv, JobTypes
<1>1. CASE FanRead
  <2>1. user.dest \in Dests /\ Len(epochs) \in 1..MaxEpochs /\ Len(epochs) \in 0..MaxEpochs
    BY DEF UserTypes, Users
  <2>2. JobTypes' BY <1>1, <2>1 DEF FanRead, Fans
  <2> QED BY <1>1, <2>2, NoneMoves, QuietKeeps DEF FanRead
<1>2. CASE FanInsert
  <2>1. fan' \in Fans /\ fan'.pc = "idle"
    <3>1. 0 \in 0..MaxEpochs BY DEF Bounds
    <3> QED BY <1>2, <3>1 DEF FanInsert, NoFan, Fans, Bounds
  <2>2. CASE UNCHANGED jobs
    <3>1. JobTypes' BY <1>2, <2>1, <2>2 DEF FanInsert
    <3> QED BY <1>2, <2>2, <3>1, NoneMoves, QuietKeeps DEF FanInsert
  <2>3. CASE \E t \in {0, 1} : jobs' = Append(jobs, NewJob("STRATEGY", t, fan.dest, fan.born))
    <3>1. PICK c \in Jobs : jobs' = Append(jobs, c) /\ IsNew(c)
      BY <1>2, <2>3, NewJobTyped DEF FanInsert, Fans
    <3>2. jobs' \in Seq(Jobs) /\ \A i \in 1..Len(jobs) : jobs'[i] = jobs[i] BY <3>1, AddJob
    <3>3. JobTypes' BY <1>2, <2>1, <3>2 DEF FanInsert
    <3>4. JobsMove BY <3>1, NewMoves
    <3> QED BY <1>2, <3>2, <3>3, <3>4, QuietKeeps DEF FanInsert
  <2> QED BY <1>2, <2>2, <2>3 DEF FanInsert
<1> QED BY <1>1, <1>2

(* Publication and its repair.                                               *)
LEMMA QueueKeeps ==
    ASSUME Inv, NEW j \in 1..Len(jobs), Publish(j) \/ RepairStale(j)
    PROVE  Inv'
<1>0. jobs[j] \in Jobs BY JobFacts
<1> DEFINE skipped == [jobs[j] EXCEPT !.st = "SKIPPED"]
           bound == [jobs[j] EXCEPT !.epoch = user.active]
<1>1. /\ skipped \in Jobs /\ skipped.row = jobs[j].row /\ skipped.ord = jobs[j].ord
      /\ skipped.delta = jobs[j].delta /\ MayBecome(j, jobs[j], skipped)
  <2>1. /\ skipped \in Jobs /\ skipped.row = jobs[j].row /\ skipped.ord = jobs[j].ord
        /\ skipped.delta = jobs[j].delta /\ skipped.dest = jobs[j].dest
        /\ skipped.born = jobs[j].born /\ skipped.epoch = jobs[j].epoch
    BY <1>0 DEF Jobs
  <2> QED BY <2>1, StaysItself DEF MayBecome
<1>2. ASSUME Publish(j), Bindable(jobs[j])
      PROVE  /\ bound \in Jobs /\ bound.row = jobs[j].row /\ bound.ord = jobs[j].ord
             /\ bound.delta = jobs[j].delta /\ MayBecome(j, jobs[j], bound)
  <2>1. user.active \in 0..MaxEpochs BY DEF Inv, TypeInv, UserTypes, Users
  <2>2. /\ bound \in Jobs /\ bound.row = jobs[j].row /\ bound.ord = jobs[j].ord
        /\ bound.delta = jobs[j].delta /\ bound.dest = jobs[j].dest
        /\ bound.born = jobs[j].born /\ bound.epoch = user.active
    BY <1>0, <2>1 DEF Jobs
  <2>3. user.active # 0 /\ epochs[user.active].since <= jobs[j].born /\ jobs[j].dest = user.dest
    <3>1. user.active # 0 /\ jobs[j].born >= epochs[user.active].since /\ jobs[j].dest = user.dest
      BY <1>2 DEF Bindable
    <3>2. user.active \in 1..Len(epochs) /\ epochs \in Seq(Epochs)
      BY <3>1 DEF Inv, EpochsInv, TypeInv, UserTypes
    <3>3. epochs[user.active] \in Epochs BY <3>2
    <3>4. epochs[user.active].since \in Nat /\ jobs[j].born \in Nat BY <1>0, <3>3 DEF Epochs, Jobs
    <3> QED BY <3>1, <3>4
  <2>4. jobs[j].epoch = 0 /\ jobs[j].row = "NONE" /\ jobs[j].ord = "NONE"
    BY <1>2 DEF Publish, Inv, JobsInv
  <2> QED BY <2>2, <2>3, <2>4 DEF MayBecome, Unresolved
<1>3. PICK c \in Jobs : /\ jobs' = [jobs EXCEPT ![j] = c]
                        /\ c.row = jobs[j].row /\ c.ord = jobs[j].ord /\ c.delta = jobs[j].delta
                        /\ MayBecome(j, jobs[j], c)
  <2>1. CASE Publish(j)
    <3>1. CASE Bindable(jobs[j])
      <4>1. jobs' = [jobs EXCEPT ![j] = bound] BY <2>1, <3>1 DEF Publish
      <4> HIDE DEF bound
      <4> QED BY <1>2, <2>1, <3>1, <4>1
    <3>2. CASE ~Bindable(jobs[j])
      <4>1. jobs' = [jobs EXCEPT ![j] = skipped] BY <2>1, <3>2 DEF Publish
      <4> HIDE DEF skipped
      <4> QED BY <1>1, <4>1
    <3> QED BY <3>1, <3>2
  <2>2. CASE RepairStale(j)
    <3>1. jobs' = [jobs EXCEPT ![j] = skipped] BY <2>2 DEF RepairStale
    <3> HIDE DEF skipped
    <3> QED BY <1>1, <3>1
  <2> QED BY <2>1, <2>2
<1>4. UNCHANGED <<user, epochs, ledger, pos, wk, fan, sw, late>> BY DEF Publish, RepairStale
<1>5. /\ jobs' \in Seq(Jobs) /\ jobs'[j] = c
      /\ \A i \in 1..Len(jobs) : i # j => jobs'[i] = jobs[i]
  BY <1>3, SetJob DEF Inv, TypeInv
<1>6. JobTypes' BY <1>4, <1>5 DEF Inv, TypeInv, JobTypes
<1>7. JobsMove BY <1>3, OneMoves
<1>8. ASSUME NEW i \in 1..Len(jobs)
      PROVE  jobs'[i].row = jobs[i].row /\ jobs'[i].delta = jobs[i].delta /\ jobs'[i].ord = jobs[i].ord
  BY <1>3, <1>5
<1> QED BY <1>4, <1>6, <1>7, <1>8, QuietKeeps
-----------------------------------------------------------------------------
(* The worker *)

(* A step of the worker changes its own job and moves on.                    *)
LEMMA WorkerMoves ==
    ASSUME Inv, wk.pc # "idle", NEW c \in Jobs, jobs' = [jobs EXCEPT ![wk.j] = c],
           MayBecome(wk.j, jobs[wk.j], c), UNCHANGED <<user, epochs, fan, sw, pos>>,
           wk' \in Works, ledger' \in Int, late' \in Nat,
           wk'.j = wk.j \/ wk' = NoWork,
           wk'.pc = "insert" => c.row = "NONE",
           wk'.pc \in {"authorize", "post"} => c.row = "SUBMITTING" /\ c.ord = "NONE",
           wk'.pc = "await" => c.row \in Unresolved,
           wk'.pc = "post" => c.epoch = Len(epochs),
           DecidedInv'
    PROVE  Inv'
<1>1. wk.j \in 1..Len(jobs) /\ jobs[wk.j].epoch # 0 BY DEF Inv, WorkerInv, Cur
<1>2. jobs' \in Seq(Jobs) /\ Len(jobs') = Len(jobs) /\ jobs'[wk.j] = c
  BY <1>1, SetJob DEF Inv, TypeInv
<1>3. JobsMove BY <1>1, OneMoves
<1>4. UserTypes' /\ JobTypes' /\ BookTypes'
  BY <1>2 DEF Inv, TypeInv, UserTypes, JobTypes, BookTypes
<1>5. c.epoch # 0 BY <1>1 DEF MayBecome
<1>6. WorkerInv' BY <1>1, <1>2, <1>5, JobFacts DEF WorkerInv, Cur, NoWork
<1>7. SameEpochs BY DEF SameEpochs
<1>8. wk'.pc = "post" => wk'.j = wk.j BY DEF NoWork
<1> QED BY <1>1, <1>2, <1>3, <1>4, <1>6, <1>7, <1>8, StepKeeps

(* An idle worker.                                                           *)
LEMMA Idles == NoWork \in Works /\ NoWork.pc = "idle" /\ NoWork.pc \notin Decided
BY DEF NoWork, Works, Decided

(* A step of the worker that ends with it idle.                              *)
LEMMA WorkerEnds ==
    ASSUME Inv, wk.pc # "idle", NEW c \in Jobs, jobs' = [jobs EXCEPT ![wk.j] = c],
           MayBecome(wk.j, jobs[wk.j], c), UNCHANGED <<user, epochs, fan, sw, pos, late>>,
           wk' = NoWork, ledger' \in Int
    PROVE  Inv'
<1>1. wk.j \in 1..Len(jobs) BY DEF Inv, WorkerInv
<1>2. JobsMove BY <1>1, OneMoves
<1>3. late' \in Nat BY DEF Inv, TypeInv, BookTypes
<1>4. DecidedInv' BY <1>2, <1>3, Idles, DecidedStays
<1> QED BY <1>3, <1>4, Idles, WorkerMoves

(* The job of the worker with another state, row or order.                   *)
LEMMA JobChanged ==
    ASSUME NEW a \in Jobs, NEW st \in Pending \cup {"DONE", "SKIPPED", "DEAD"},
           NEW row \in {"NONE", "FINAL"} \cup Unresolved,
           NEW ord \in {"NONE", "SENT", "DONE", "REJECTED"}, NEW delta \in Int,
           NEW c, c = [a EXCEPT !.st = st, !.row = row, !.ord = ord, !.delta = delta]
    PROVE  /\ c \in Jobs /\ c.st = st /\ c.row = row /\ c.ord = ord /\ c.delta = delta
           /\ c.dest = a.dest /\ c.born = a.born /\ c.epoch = a.epoch
BY DEF Jobs

(* A claim.                                                                  *)
LEMMA ClaimKeeps == ASSUME Inv, NEW j \in 1..Len(jobs), Claim(j) PROVE Inv'
<1>1. jobs[j] \in Jobs BY JobFacts
<1> DEFINE c == [jobs[j] EXCEPT !.st = "PROCESSING"]
<1>2. /\ c \in Jobs /\ c.row = jobs[j].row /\ c.ord = jobs[j].ord
      /\ c.dest = jobs[j].dest /\ c.born = jobs[j].born /\ c.epoch = jobs[j].epoch
  BY <1>1 DEF Jobs, Pending
<1>3. jobs' = [jobs EXCEPT ![j] = c] /\ wk' = [pc |-> "check", j |-> j] /\ c.epoch # 0
      /\ UNCHANGED <<user, epochs, fan, sw, ledger, pos, late>>
  BY <1>2 DEF Claim, Busy
<1> HIDE DEF c
<1>4. MayBecome(j, jobs[j], c) BY <1>2, StaysItself DEF MayBecome
<1>5. JobsMove BY <1>2, <1>3, <1>4, OneMoves
<1>6. jobs' \in Seq(Jobs) /\ Len(jobs') = Len(jobs) /\ jobs'[j] = c
  BY <1>2, <1>3, SetJob DEF Inv, TypeInv
<1>7. wk' \in Works /\ wk'.pc = "check" /\ wk'.j = j BY <1>3, JobFacts DEF Works
<1>8. UserTypes' /\ JobTypes' /\ BookTypes'
  BY <1>3, <1>6, <1>7 DEF Inv, TypeInv, UserTypes, JobTypes, BookTypes
<1>9. WorkerInv' BY <1>3, <1>6, <1>7 DEF WorkerInv, Cur
<1>10. late' \in Nat BY <1>8 DEF BookTypes
<1>11. DecidedInv' BY <1>3, <1>5, <1>7, <1>10, DecidedStays DEF Decided
<1>12. SameEpochs BY <1>3 DEF SameEpochs
<1> QED BY <1>3, <1>5, <1>7, <1>8, <1>9, <1>11, <1>12, StepKeeps

(* A busy worker's job.                                                      *)
LEMMA CurFacts ==
    ASSUME Inv, wk.pc # "idle"
    PROVE  /\ wk.j \in 1..Len(jobs) /\ Cur \in Jobs /\ Cur.epoch # 0 /\ jobs[wk.j] = Cur
           /\ Cur.row \in {"NONE", "FINAL"} \cup Unresolved /\ Cur.delta \in Int
           /\ Cur.ord \in {"NONE", "SENT", "DONE", "REJECTED"} /\ Cur.target \in {0, 1}
           /\ Cur.st \in Pending \cup {"DONE", "SKIPPED", "DEAD"}
           /\ Cur.row = "NONE" => Cur.ord = "NONE"
           /\ Cur.ord = "SENT" => Cur.row \in Unresolved
           /\ jobs \in Seq(Jobs) /\ ledger \in Int /\ late \in Nat
           /\ wk \in Works /\ Len(epochs) \in Nat
<1>1. wk.j \in 1..Len(jobs) /\ Cur.epoch # 0 BY DEF Inv, WorkerInv
<1>2. Cur \in Jobs BY <1>1, JobFacts DEF Cur
<1>3. /\ Cur.row = "NONE" => Cur.ord = "NONE"
      /\ Cur.ord = "SENT" => Cur.row \in Unresolved
  BY <1>1 DEF Inv, JobsInv, Cur
<1>4. /\ Cur.row \in {"NONE", "FINAL"} \cup Unresolved /\ Cur.delta \in Int
      /\ Cur.ord \in {"NONE", "SENT", "DONE", "REJECTED"} /\ Cur.target \in {0, 1}
      /\ Cur.st \in Pending \cup {"DONE", "SKIPPED", "DEAD"}
  BY <1>2 DEF Jobs
<1> QED BY <1>1, <1>2, <1>3, <1>4 DEF Inv, TypeInv, JobTypes, BookTypes, UserTypes, Cur

(* The worker ends its job, with the row as it is or settled.                *)
LEMMA EndKeeps ==
    ASSUME Inv, wk.pc # "idle", UNCHANGED <<user, epochs, fan, sw, pos, late>>,
           NEW st \in Pending \cup {"DONE", "SKIPPED", "DEAD"},
           NEW row \in {"NONE", "FINAL"} \cup Unresolved,
           row \in Unresolved => Cur.row \in Unresolved,
           row = "FINAL" => Cur.ord # "SENT" \/ Cur.row = "FINAL",
           row = "NONE" => Cur.row = "NONE",
           jobs' = [jobs EXCEPT ![wk.j] = [@ EXCEPT !.st = st, !.row = row]],
           wk' = NoWork, ledger' \in Int
    PROVE  Inv'
<1>1. PICK c : c = [Cur EXCEPT !.st = st, !.row = row] OBVIOUS
<1>2. jobs' = [jobs EXCEPT ![wk.j] = c] BY <1>1, CurFacts
<1>3. /\ c \in Jobs /\ c.row = row /\ c.ord = Cur.ord
      /\ c.dest = Cur.dest /\ c.born = Cur.born /\ c.epoch = Cur.epoch
  BY <1>1, CurFacts DEF Jobs
<1>4. MayBecome(wk.j, Cur, c)
  BY <1>3, CurFacts DEF MayBecome, Unresolved
<1> QED BY <1>2, <1>3, <1>4, CurFacts, WorkerEnds
(* The worker settles its row once no order of it is under way.              *)
LEMMA SettleKeeps ==
    ASSUME Inv, wk.pc # "idle", UNCHANGED <<user, epochs, fan, sw, pos, late>>,
           NEW st \in {"DONE", "SKIPPED"}, Cur.ord # "SENT",
           jobs' = [jobs EXCEPT ![wk.j] = [@ EXCEPT !.st = st, !.row = "FINAL"]],
           wk' = NoWork, ledger' \in Int
    PROVE  Inv'
<1>1. PICK row : row = "FINAL" OBVIOUS
<1>2. /\ row \in {"NONE", "FINAL"} \cup Unresolved /\ row \notin Unresolved /\ row # "NONE"
      /\ st \in Pending \cup {"DONE", "SKIPPED", "DEAD"}
  BY <1>1 DEF Unresolved
<1>3. jobs' = [jobs EXCEPT ![wk.j] = [@ EXCEPT !.st = st, !.row = row]] BY <1>1
<1> QED BY <1>2, <1>3, EndKeeps

(* Finish: the row is left as it is.                                         *)
LEMMA FinishKeeps ==
    ASSUME Inv, wk.pc # "idle", UNCHANGED <<user, epochs, fan, sw, pos, late, ledger>>,
           NEW st \in Pending \cup {"DONE", "SKIPPED", "DEAD"}, Finish(st)
    PROVE  Inv'
<1>1. jobs' = [jobs EXCEPT ![wk.j] = [@ EXCEPT !.st = st]] /\ wk' = NoWork BY DEF Finish
<1>2. [Cur EXCEPT !.st = st] = [Cur EXCEPT !.st = st, !.row = Cur.row] BY CurFacts DEF Jobs
<1>3. jobs' = [jobs EXCEPT ![wk.j] = [@ EXCEPT !.st = st, !.row = Cur.row]]
  BY <1>1, <1>2, CurFacts
<1> QED BY <1>1, <1>3, CurFacts, EndKeeps DEF Unresolved

(* The decision under the user lock: a paused follower's is no increase.     *)
LEMMA PlanKeeps == ASSUME Inv, Plan PROVE Inv'
<1> DEFINE d == Cur.target - ledger
<1>0. wk.pc # "idle" /\ Cur.row = "NONE" /\ UNCHANGED <<user, epochs, fan, sw, pos, late, ledger>>
  BY DEF Plan, Busy
<1>1. CASE Finish("SKIPPED") BY <1>0, <1>1, FinishKeeps
<1>2. CASE ~Finish("SKIPPED")
  <2>1. /\ wk' = [wk EXCEPT !.pc = "insert"] /\ jobs' = [jobs EXCEPT ![wk.j].delta = d]
        /\ Permitted(Cur, d)
    BY <1>2 DEF Plan
  <2>2. d \in Int
    <3>1. Cur.target \in Int BY <1>0, CurFacts
    <3> QED BY <1>0, <3>1, CurFacts
  <2>3. user.copy = "PAUSED" => ~Increases(d) BY <2>1 DEF Permitted
  <2> HIDE DEF d
  <2>4. PICK c : c = [Cur EXCEPT !.delta = d] OBVIOUS
  <2>5. /\ c \in Jobs /\ c.row = Cur.row /\ c.ord = Cur.ord /\ c.delta = d
        /\ c.dest = Cur.dest /\ c.born = Cur.born /\ c.epoch = Cur.epoch
    BY <1>0, <2>2, <2>4, CurFacts DEF Jobs
  <2>6. jobs' = [jobs EXCEPT ![wk.j] = c] BY <1>0, <2>1, <2>4, CurFacts
  <2>7. MayBecome(wk.j, Cur, c) BY <1>0, <2>5, CurFacts DEF MayBecome, Unresolved
  <2>8. wk' \in Works /\ wk'.pc = "insert" /\ wk'.j = wk.j BY <1>0, <2>1, CurFacts DEF Works
  <2>9. jobs'[wk.j] = c BY <1>0, <2>5, <2>6, CurFacts, SetJob DEF Inv, TypeInv
  <2>10. DecidedInv'
    <3>1. Increases(Cur.delta)' <=> Increases(d)
      BY <1>0, <2>5, <2>8, <2>9 DEF Increases, Cur
    <3> QED BY <1>0, <2>3, <3>1 DEF Inv, DecidedInv
  <2> QED BY <1>0, <2>5, <2>6, <2>7, <2>8, <2>10, CurFacts, WorkerMoves
<1> QED BY <1>1, <1>2

(* A retried job that finds its order, or gives up.                          *)
LEMMA RecoverKeeps == ASSUME Inv, Recover PROVE Inv'
<1>0. wk.pc # "idle" /\ UNCHANGED <<user, epochs, fan, sw, pos, late>> BY DEF Recover, Busy
<1>1. CASE UNCHANGED ledger /\ (Finish("SKIPPED") \/ Finish("DONE") \/ Finish("DEAD"))
  BY <1>0, <1>1, FinishKeeps
<1>2. CASE /\ Cur.ord \in {"DONE", "REJECTED"}
           /\ jobs' = [jobs EXCEPT ![wk.j].row = "FINAL", ![wk.j].st = "DONE"]
           /\ ledger' = IF Cur.ord = "DONE" THEN ledger + Cur.delta ELSE ledger
           /\ wk' = NoWork
  <2>1. ledger' \in Int BY <1>0, <1>2, CurFacts
  <2>2. jobs' = [jobs EXCEPT ![wk.j] = [@ EXCEPT !.st = "DONE", !.row = "FINAL"]]
    BY <1>0, <1>2, CurFacts DEF Jobs
  <2> QED BY <1>0, <1>2, <2>1, <2>2, SettleKeeps
<1> QED BY <1>1, <1>2 DEF Recover

(* The row is inserted while no switch holds the user row.                   *)
LEMMA InsertKeeps == ASSUME Inv, InsertRow PROVE Inv'
<1>0. /\ wk.pc = "insert" /\ sw.pc = "idle" /\ UNCHANGED <<user, epochs, fan, sw, pos, late, ledger>>
      /\ jobs' = [jobs EXCEPT ![wk.j].row = "SUBMITTING"] /\ wk' = [wk EXCEPT !.pc = "authorize"]
  BY DEF InsertRow, Busy, RowFree
<1>1. wk.pc # "idle" /\ Cur.row = "NONE" BY <1>0 DEF Inv, WorkerInv
<1>2. Cur.ord = "NONE" BY <1>1, CurFacts
<1>3. PICK c : c = [Cur EXCEPT !.row = "SUBMITTING"] OBVIOUS
<1>4. /\ c \in Jobs /\ c.row = "SUBMITTING" /\ c.ord = Cur.ord /\ c.delta = Cur.delta
      /\ c.dest = Cur.dest /\ c.born = Cur.born /\ c.epoch = Cur.epoch
  BY <1>1, <1>3, CurFacts DEF Jobs, Unresolved
<1>5. jobs' = [jobs EXCEPT ![wk.j] = c] BY <1>0, <1>1, <1>3, CurFacts
<1>6. MayBecome(wk.j, Cur, c) BY <1>0, <1>1, <1>2, <1>4, CurFacts DEF MayBecome, Unresolved
<1>7. wk' \in Works /\ wk'.pc = "authorize" /\ wk'.j = wk.j BY <1>0, <1>1, CurFacts DEF Works
<1>8. jobs'[wk.j] = c BY <1>1, <1>4, <1>5, CurFacts, SetJob DEF Inv, TypeInv
<1>9. JobsMove BY <1>1, <1>4, <1>5, <1>6, CurFacts, OneMoves
<1>10. DecidedInv' BY <1>0, <1>1, <1>4, <1>7, <1>8, <1>9, CurFacts, DecidedStays DEF Decided
<1> QED BY <1>0, <1>1, <1>2, <1>4, <1>5, <1>6, <1>7, <1>10, CurFacts, WorkerMoves

(* The last check finds the binding good, or cancels the order.              *)
LEMMA AuthorizeKeeps == ASSUME Inv, Authorize PROVE Inv'
<1>0. wk.pc = "authorize" /\ wk.pc # "idle" /\ UNCHANGED <<user, epochs, fan, sw, pos, late, ledger>>
      /\ Cur.row = "SUBMITTING" /\ Cur.ord = "NONE"
  BY DEF Authorize, Busy, Inv, WorkerInv
<1>1. CASE Matches(Cur)
  <2>1. wk' = [wk EXCEPT !.pc = "post"] /\ UNCHANGED jobs BY <1>1 DEF Authorize
  <2>2. jobs' = [jobs EXCEPT ![wk.j] = Cur] BY <1>0, <2>1, CurFacts
  <2>3. MayBecome(wk.j, jobs[wk.j], Cur) BY <1>0, CurFacts, StaysItself
  <2>4. Cur.epoch = Len(epochs) BY <1>0, <1>1, CurFacts DEF Matches, Inv, EpochsInv
  <2>5. wk' \in Works /\ wk'.pc = "post" /\ wk'.j = wk.j BY <1>0, <2>1, CurFacts DEF Works
  <2>6. JobsMove BY <2>1, NoneMoves
  <2>7. DecidedInv' BY <1>0, <2>1, <2>5, <2>6, CurFacts, DecidedStays DEF Decided
  <2> QED BY <1>0, <2>2, <2>3, <2>4, <2>5, <2>7, CurFacts, WorkerMoves
<1>2. CASE ~Matches(Cur)
  <2>1. /\ jobs' = [jobs EXCEPT ![wk.j].row = "FINAL", ![wk.j].st = "SKIPPED"] /\ wk' = NoWork
    BY <1>2 DEF Authorize
  <2>2. jobs' = [jobs EXCEPT ![wk.j] = [@ EXCEPT !.st = "SKIPPED", !.row = "FINAL"]]
    BY <1>0, <2>1, CurFacts DEF Jobs
  <2>3. ledger' \in Int BY <1>0, CurFacts
  <2> QED BY <1>0, <2>1, <2>2, <2>3, SettleKeeps
<1> QED BY <1>1, <1>2

(* The order is sent: the second late increase would have been decided on    *)
(* after the pause.                                                          *)
LEMMA PostKeeps == ASSUME Inv, Post PROVE Inv'
<1>0. /\ wk.pc = "post" /\ wk.pc # "idle" /\ UNCHANGED <<user, epochs, fan, sw, pos, ledger>>
      /\ Cur.row = "SUBMITTING" /\ Cur.ord = "NONE"
      /\ jobs' = [jobs EXCEPT ![wk.j].ord = "SENT"] /\ wk' = [wk EXCEPT !.pc = "await"]
      /\ late' = IF user.copy = "PAUSED" /\ Increases(Cur.delta) THEN late + 1 ELSE late
  BY DEF Post, Busy, Inv, WorkerInv
<1>1. PICK c : c = [Cur EXCEPT !.ord = "SENT"] OBVIOUS
<1>2. /\ c \in Jobs /\ c.row = "SUBMITTING" /\ c.ord = "SENT"
      /\ c.dest = Cur.dest /\ c.born = Cur.born /\ c.epoch = Cur.epoch
  BY <1>0, <1>1, CurFacts DEF Jobs
<1>3. jobs' = [jobs EXCEPT ![wk.j] = c] BY <1>0, <1>1, CurFacts
<1>4. MayBecome(wk.j, Cur, c) BY <1>0, <1>2, CurFacts DEF MayBecome, Unresolved
<1>5. wk' \in Works /\ wk'.pc = "await" /\ wk'.j = wk.j BY <1>0, CurFacts DEF Works
<1>6. late' \in Nat BY <1>0, CurFacts
<1>7. DecidedInv'
  <2>1. ASSUME user.copy = "PAUSED" PROVE late' \in {0, 1}
    <3>1. late \in {0, 1} /\ (late = 1 => ~Increases(Cur.delta))
      BY <1>0, <2>1 DEF Inv, DecidedInv, Decided
    <3> QED BY <1>0, <2>1, <3>1
  <2> QED BY <1>0, <1>5, <2>1 DEF DecidedInv, Decided
<1>8. c.row \in Unresolved BY <1>2 DEF Unresolved
<1> QED BY <1>0, <1>2, <1>3, <1>4, <1>5, <1>6, <1>7, <1>8, CurFacts, WorkerMoves

(* The answer, or its loss, or the end of the worker.                        *)
LEMMA AnswerKeeps == ASSUME Inv, Answer \/ AnswerLost \/ WorkerCrash PROVE Inv'
<1>0. wk.pc # "idle" /\ UNCHANGED <<user, epochs, fan, sw, pos, late>> /\ wk' = NoWork
  BY DEF Answer, AnswerLost, WorkerCrash, Busy
<1>1. CASE Answer
  <2>1. /\ Cur.ord \in {"DONE", "REJECTED"}
        /\ jobs' = [jobs EXCEPT ![wk.j].row = "FINAL", ![wk.j].st = "DONE"]
        /\ ledger' = IF Cur.ord = "DONE" THEN ledger + Cur.delta ELSE ledger
    BY <1>1 DEF Answer
  <2>2. ledger' \in Int BY <1>0, <2>1, CurFacts
  <2>3. jobs' = [jobs EXCEPT ![wk.j] = [@ EXCEPT !.st = "DONE", !.row = "FINAL"]]
    BY <1>0, <2>1, CurFacts DEF Jobs
  <2> QED BY <1>0, <2>1, <2>2, <2>3, SettleKeeps
<1>2. CASE AnswerLost
  <2>1. PICK st \in {"QUEUED", "DEAD"} :
           jobs' = [jobs EXCEPT ![wk.j].row = "UNKNOWN", ![wk.j].st = st]
    BY <1>2 DEF AnswerLost
  <2>2. UNCHANGED ledger /\ wk.pc = "await" BY <1>2 DEF AnswerLost
  <2>3. Cur.row \in Unresolved BY <2>2 DEF Inv, WorkerInv
  <2>4. jobs' = [jobs EXCEPT ![wk.j] = [@ EXCEPT !.st = st, !.row = "UNKNOWN"]]
    BY <1>0, <2>1, CurFacts DEF Jobs
  <2>5. ledger' \in Int BY <1>0, <2>2, CurFacts
  <2>6. st \in Pending \cup {"DONE", "SKIPPED", "DEAD"} BY DEF Pending
  <2>7. PICK row : row = "UNKNOWN" OBVIOUS
  <2>8. row \in {"NONE", "FINAL"} \cup Unresolved /\ row # "NONE" /\ row # "FINAL"
    BY <2>7 DEF Unresolved
  <2>9. jobs' = [jobs EXCEPT ![wk.j] = [@ EXCEPT !.st = st, !.row = row]] BY <2>4, <2>7
  <2> QED BY <1>0, <2>3, <2>5, <2>6, <2>8, <2>9, EndKeeps
<1>3. CASE WorkerCrash
  <2>1. PICK st \in {"QUEUED", "DEAD"} : jobs' = [jobs EXCEPT ![wk.j].st = st]
    BY <1>3 DEF WorkerCrash
  <2>2. st \in Pending \cup {"DONE", "SKIPPED", "DEAD"} BY DEF Pending
  <2>3. Finish(st) /\ UNCHANGED ledger BY <1>3, <2>1 DEF Finish, WorkerCrash
  <2> QED BY <1>0, <2>2, <2>3, FinishKeeps
<1> QED BY <1>1, <1>2, <1>3
-----------------------------------------------------------------------------
(* The exchange and the resolver *)

(* The exchange handles an order: of the newest epoch, at the user's         *)
(* destination while no switch runs, or of an epoch closed by linking.       *)
LEMMA LandKeeps == ASSUME Inv, NEW j \in 1..Len(jobs), Land(j) PROVE Inv'
<1>0. /\ jobs[j] \in Jobs /\ jobs[j].ord = "SENT" /\ jobs[j].row \in Unresolved
      /\ jobs[j].epoch # 0 /\ jobs[j].epoch <= Len(epochs)
      /\ UNCHANGED <<user, epochs, ledger, wk, fan, sw, late>>
  BY JobFacts DEF Land, Inv, JobsInv, Unresolved
<1>1. PICK o \in {"DONE", "REJECTED"} :
         /\ jobs' = [jobs EXCEPT ![j].ord = o]
         /\ o = "REJECTED" => UNCHANGED pos
         /\ o = "DONE" => pos' = [pos EXCEPT ![epochs[jobs[j].epoch].dest] = @ + jobs[j].delta]
  BY DEF Land
<1>2. PICK c : c = [jobs[j] EXCEPT !.ord = o] OBVIOUS
<1>3. /\ c \in Jobs /\ c.row = jobs[j].row /\ c.ord = o /\ c.delta = jobs[j].delta
      /\ c.dest = jobs[j].dest /\ c.born = jobs[j].born /\ c.epoch = jobs[j].epoch
  BY <1>0, <1>2 DEF Jobs
<1>4. jobs' = [jobs EXCEPT ![j] = c] BY <1>1, <1>2
<1>5. /\ jobs' \in Seq(Jobs) /\ Len(jobs') = Len(jobs) /\ jobs'[j] = c
      /\ \A i \in 1..Len(jobs) : i # j => jobs'[i] = jobs[i]
  BY <1>3, <1>4, SetJob DEF Inv, TypeInv
<1>6. JobsMove
  <2>1. MayBecome(j, jobs[j], c) BY <1>0, <1>3 DEF MayBecome, Unresolved
  <2> QED BY <1>3, <1>4, <2>1, OneMoves
<1>7. SameEpochs BY <1>0 DEF SameEpochs
<1>8. pos' \in [Dests -> Int]
  <2>1. pos \in [Dests -> Int] /\ jobs[j].delta \in Int
    BY <1>0 DEF Inv, TypeInv, BookTypes, Jobs
  <2> QED BY <1>1, <2>1
<1>9. UserTypes' /\ JobTypes' /\ BookTypes'
  BY <1>0, <1>5, <1>8 DEF Inv, TypeInv, UserTypes, JobTypes, BookTypes
<1>10. \A i \in 1..Len(jobs) : /\ jobs'[i].row = jobs[i].row /\ jobs'[i].delta = jobs[i].delta
                               /\ jobs'[i].ord = jobs[i].ord \/ jobs[i].ord = "SENT"
  BY <1>0, <1>3, <1>5
<1>11. wk.pc # "idle" => wk.j \in 1..Len(jobs) BY DEF Inv, WorkerInv
<1>12. WorkerInv' BY <1>0, <1>6, <1>10, <1>11, WorkerStays
<1>13. DecidedInv'
  <2>1. late' \in Nat BY <1>9 DEF BookTypes
  <2>2. wk.pc \in Decided => wk.pc # "idle" BY DEF Decided
  <2> QED BY <1>0, <1>6, <1>10, <1>11, <2>1, <2>2, DecidedStays
<1>14. EpochsInv' BY <1>0 DEF Inv, EpochsInv
<1>15. JobsInv' /\ OrdersInv' BY <1>0, <1>6, <1>7, JobsStay, OrdersStay
<1>16. CASE o = "REJECTED"
  BY <1>0, <1>1, <1>6, <1>7, <1>9, <1>12, <1>13, <1>16, StepKeeps
<1>17. CASE o = "DONE" /\ Relinked(jobs[j].epoch)
  <2>1. LeftByRelink'
    <3>1. jobs'[j].ord = "DONE" /\ jobs'[j].epoch = jobs[j].epoch BY <1>3, <1>5, <1>17
    <3>2. jobs'[j].epoch < Len(epochs') /\ epochs'[jobs'[j].epoch + 1].dest = epochs'[jobs'[j].epoch].dest
      BY <1>0, <1>17, <3>1 DEF Relinked
    <3> QED BY <1>5, <3>1, <3>2 DEF LeftByRelink, Relinked
  <2>2. LeftInv' BY <2>1 DEF LeftInv
  <2>3. SwitchInv'
    <3>1. \A i \in 1..Len(jobs) : jobs'[i].epoch = jobs[i].epoch BY <1>3, <1>5
    <3> QED BY <1>0, <1>5, <1>10, <2>1, <3>1 DEF Inv, SwitchInv
  <2> QED BY <1>9, <1>12, <1>13, <1>14, <1>15, <2>2, <2>3 DEF Inv, TypeInv
<1>18. CASE o = "DONE" /\ ~Relinked(jobs[j].epoch)
  <2>1. jobs[j].epoch = Len(epochs) BY <1>0, <1>18 DEF Inv, OrdersInv
  <2>2. sw.pc = "idle" BY <1>0, <2>1 DEF Inv, SwitchInv
  <2>3. epochs[jobs[j].epoch].dest = user.dest BY <2>1 DEF Inv, EpochsInv
  <2>4. \A d \in Dests \ {user.dest} : pos'[d] = pos[d]
    BY <1>1, <1>18, <2>3 DEF Inv, TypeInv, BookTypes
  <2>5. LeftInv' BY <1>0, <1>6, <1>7, <2>4, LeftStays DEF Inv, LeftInv
  <2>6. SwitchInv' BY <1>0, <2>2 DEF SwitchInv
  <2> QED BY <1>9, <1>12, <1>13, <1>14, <1>15, <2>5, <2>6 DEF Inv, TypeInv
<1> QED BY <1>16, <1>17, <1>18

(* The resolver settles a row from the exchange while no worker runs.        *)
LEMMA ResolveKeeps == ASSUME Inv, NEW j \in 1..Len(jobs), Resolve(j) PROVE Inv'
<1>0. /\ jobs[j] \in Jobs /\ jobs[j].row \in Unresolved /\ jobs[j].ord \in {"DONE", "REJECTED"}
      /\ jobs[j].epoch # 0 /\ wk.pc = "idle" /\ ledger' = pos[user.dest]
      /\ UNCHANGED <<user, epochs, pos, wk, fan, sw, late>>
  BY JobFacts DEF Resolve, Inv, JobsInv, Unresolved
<1>1. PICK c : c = [jobs[j] EXCEPT !.row = "FINAL"] OBVIOUS
<1>2. /\ c \in Jobs /\ c.row = "FINAL" /\ c.ord = jobs[j].ord
      /\ c.dest = jobs[j].dest /\ c.born = jobs[j].born /\ c.epoch = jobs[j].epoch
  BY <1>0, <1>1 DEF Jobs
<1>3. jobs' = [jobs EXCEPT ![j] = c] BY <1>1 DEF Resolve
<1>4. jobs' \in Seq(Jobs) BY <1>2, <1>3, SetJob DEF Inv, TypeInv
<1>5. MayBecome(j, jobs[j], c) BY <1>0, <1>2 DEF MayBecome, Unresolved
<1>6. JobsMove BY <1>2, <1>3, <1>5, OneMoves
<1>7. user.dest \in Dests BY DEF Inv, TypeInv, UserTypes, Users
<1>8. UserTypes' /\ JobTypes' /\ BookTypes'
  BY <1>0, <1>4, <1>7 DEF Inv, TypeInv, UserTypes, JobTypes, BookTypes
<1>9. WorkerInv' BY <1>0, <1>6, WorkerStays
<1>10. DecidedInv' BY <1>0 DEF Inv, DecidedInv, Decided
<1>11. SameEpochs BY <1>0 DEF SameEpochs
<1> QED BY <1>0, <1>6, <1>8, <1>9, <1>10, <1>11, StepKeeps

-----------------------------------------------------------------------------
(* Copy controls *)

(* A control changes the copy state, and jobs at most in their state.        *)
LEMMA ControlKeeps ==
    ASSUME Inv, jobs' \in Seq(Jobs), JobsMove, user' \in Users, SameEpochs,
           UNCHANGED <<sw, pos, wk, fan>>,
           late' \in Nat, ledger' \in Int, ledger' = ledger \/ wk.pc = "idle",
           user'.copy = "PAUSED" => (user.copy = "PAUSED" /\ late' = late) \/ late' = 0,
           \A j \in 1..Len(jobs) : /\ jobs'[j].row = jobs[j].row
                                   /\ jobs'[j].delta = jobs[j].delta
                                   /\ jobs'[j].ord = jobs[j].ord
    PROVE  Inv'
<1>1. UserTypes' /\ BookTypes' /\ JobTypes'
  BY DEF Inv, TypeInv, UserTypes, BookTypes, JobTypes, SameEpochs
<1>2. wk.pc # "idle" => wk.j \in 1..Len(jobs) BY DEF Inv, WorkerInv
<1>3. WorkerInv' BY <1>2, WorkerStays
<1>4. wk.pc \in Decided => wk.pc # "idle" BY DEF Decided
<1>5. DecidedInv' BY <1>2, <1>4, DecidedStays
<1> QED BY <1>1, <1>3, <1>5, StepKeeps

(* The user with another copy state.                                         *)
LEMMA CopyChanged ==
    ASSUME Inv, NEW s \in {"ACTIVE", "PAUSED", "SHADOW"}, UNCHANGED epochs,
           user' = [user EXCEPT !.copy = s]
    PROVE  user' \in Users /\ SameEpochs /\ user'.copy = s
BY DEF Inv, TypeInv, UserTypes, Users, SameEpochs

(* A new job of the user, at its destination and in its newest epoch.        *)
LEMMA UserJob ==
    ASSUME Bounds, Inv, NEW o \in {"STRATEGY", "CLOSE_ALL"}, NEW t \in {0, 1},
           jobs' = Append(jobs, NewJob(o, t, user.dest, Len(epochs)))
    PROVE  /\ jobs' \in Seq(Jobs) /\ JobsMove
           /\ \A i \in 1..Len(jobs) : jobs'[i] = jobs[i]
<1>1. user.dest \in Dests /\ Len(epochs) \in 1..MaxEpochs BY DEF Inv, TypeInv, UserTypes, Users
<1>2. PICK c \in Jobs : jobs' = Append(jobs, c) /\ IsNew(c) BY <1>1, NewJobTyped
<1> QED BY <1>2, NewMoves, AddJob DEF Inv, TypeInv

(* Pause, shadow, close-positions and resume.                                *)
LEMMA ControlsKeep ==
    ASSUME Bounds, Inv, Pause \/ Shadow \/ ClosePositions \/ Resume \/ Align \/ ResumeDone
    PROVE  Inv'
<1>0. /\ jobs \in Seq(Jobs) /\ ledger \in Int /\ late \in Nat /\ 0 \in Nat
      /\ UNCHANGED <<pos, wk, fan, sw, epochs>>
  BY DEF Inv, TypeInv, JobTypes, BookTypes, Pause, Shadow, ClosePositions, Resume, Align,
         ResumeDone, OthersIdle
<1>1. CASE Pause
  <2>1. user' \in Users /\ SameEpochs BY <1>0, <1>1, CopyChanged DEF Pause
  <2> QED BY <1>0, <1>1, <2>1, NoneMoves, ControlKeeps DEF Pause
<1>2. CASE Shadow
  <2>1. user' \in Users /\ SameEpochs /\ user'.copy = "SHADOW" BY <1>0, <1>2, CopyChanged DEF Shadow
  <2> QED BY <1>0, <1>2, <2>1, NoneMoves, ControlKeeps DEF Shadow
<1>3. CASE Resume
  <2>1. user' \in Users /\ SameEpochs /\ user'.copy = "ACTIVE" BY <1>0, <1>3, CopyChanged DEF Resume
  <2> QED BY <1>0, <1>3, <2>1, NoneMoves, ControlKeeps DEF Resume
<1>4. CASE ResumeDone
  <2>1. user' \in Users /\ SameEpochs /\ user' = user
    BY <1>0, <1>4 DEF ResumeDone, SameEpochs, Inv, TypeInv, UserTypes
  <2> QED BY <1>0, <1>4, <2>1, NoneMoves, ControlKeeps DEF ResumeDone
<1>5. CASE ClosePositions
  <2>1. user' \in Users /\ SameEpochs BY <1>0, <1>5, CopyChanged DEF ClosePositions
  <2>2. /\ late' \in Nat /\ UNCHANGED ledger
        /\ (user.copy = "PAUSED" /\ late' = late) \/ late' = 0
    BY <1>0, <1>5 DEF ClosePositions
  <2>3. CASE UNCHANGED jobs
    BY <1>0, <2>1, <2>2, <2>3, NoneMoves, ControlKeeps
  <2>4. CASE jobs' = Append(jobs, NewJob("CLOSE_ALL", 0, user.dest, Len(epochs)))
    BY <1>0, <2>1, <2>2, <2>4, UserJob, ControlKeeps
  <2> QED BY <1>5, <2>3, <2>4 DEF ClosePositions
<1>6. CASE Align
  <2>1. user' \in Users /\ SameEpochs /\ user' = user /\ wk.pc = "idle" /\ late' = late
    BY <1>0, <1>6 DEF Align, SameEpochs, Inv, TypeInv, UserTypes
  <2>2. ledger' \in Int
    BY <1>6 DEF Align, Inv, TypeInv, UserTypes, Users, BookTypes
  <2>3. CASE UNCHANGED jobs
    BY <1>0, <2>1, <2>2, <2>3, NoneMoves, ControlKeeps
  <2>4. CASE jobs' = Append(jobs, NewJob("STRATEGY", 1, user.dest, Len(epochs)))
    BY <1>0, <2>1, <2>2, <2>4, UserJob, ControlKeeps
  <2> QED BY <1>6, <2>3, <2>4 DEF Align
<1> QED BY <1>1, <1>2, <1>3, <1>4, <1>5, <1>6

(* The rollback skips jobs, running ones too; their rows stay.               *)
LEMMA RollbackKeeps == ASSUME Inv, ResumeRollback PROVE Inv'
<1>1. /\ UNCHANGED <<pos, wk, fan, sw, epochs, ledger>> /\ user' = [user EXCEPT !.copy = "PAUSED"]
      /\ late' = IF user.copy = "PAUSED" THEN late ELSE 0
      /\ ledger \in Int /\ late \in Nat
  BY DEF ResumeRollback, OthersIdle, Inv, TypeInv, BookTypes
<1>2. user' \in Users /\ SameEpochs BY <1>1, CopyChanged
<1>3. PICK n \in Nat : n = Len(jobs) BY JobFacts
<1>4. jobs' = [j \in 1..n |->
                  IF j > act.at /\ jobs[j].st \in Pending THEN [jobs[j] EXCEPT !.st = "SKIPPED"]
                  ELSE jobs[j]]
  BY <1>3, JobFacts DEF ResumeRollback
<1>5. ASSUME NEW j \in 1..n
      PROVE  /\ jobs'[j] \in Jobs /\ jobs'[j].row = jobs[j].row /\ jobs'[j].ord = jobs[j].ord
             /\ jobs'[j].delta = jobs[j].delta /\ jobs'[j].dest = jobs[j].dest
             /\ jobs'[j].born = jobs[j].born /\ jobs'[j].epoch = jobs[j].epoch
  <2>1. jobs[j] \in Jobs BY <1>3, JobFacts
  <2>2. jobs'[j] \in {jobs[j], [jobs[j] EXCEPT !.st = "SKIPPED"]} BY <1>4
  <2> QED BY <2>1, <2>2 DEF Jobs
<1>6. jobs' \in [1..n -> Jobs] BY <1>4, <1>5
<1>7. jobs' \in UNION {[1..m -> Jobs] : m \in Nat} BY <1>6
<1>8. jobs' \in Seq(Jobs) BY <1>7, SeqDef
<1>9. Len(jobs') = n
  <2>1. DOMAIN jobs' = 1..n /\ DOMAIN jobs' = 1..Len(jobs') /\ Len(jobs') \in Nat BY <1>6, <1>8
  <2> QED BY <2>1
<1>10. JobsMove
  <2>1. ASSUME NEW j \in 1..Len(jobs) PROVE MayBecome(j, jobs[j], jobs'[j])
    BY <1>3, <1>5, StaysItself DEF MayBecome
  <2> QED BY <1>3, <1>9, <2>1 DEF JobsMove
<1>11. late' \in Nat /\ ((user.copy = "PAUSED" /\ late' = late) \/ late' = 0) BY <1>1
<1> QED BY <1>1, <1>2, <1>3, <1>5, <1>8, <1>10, <1>11, ControlKeeps
-----------------------------------------------------------------------------
(* Epochs *)

(* An epoch opened after the newest one: what was relinked stays relinked.   *)
LEMMA OpenFacts ==
    ASSUME Bounds, Inv, Len(epochs) < MaxEpochs, NEW e \in Epochs, epochs' = Append(epochs, e)
    PROVE  /\ epochs' \in Seq(Epochs) /\ Len(epochs') = Len(epochs) + 1
           /\ Len(epochs') \in 1..MaxEpochs /\ epochs'[Len(epochs')] = e
           /\ \A i \in 1..Len(epochs) : epochs'[i] = epochs[i]
           /\ \A i \in 1..Len(epochs) :
                 Relinked(i) => i < Len(epochs') /\ epochs'[i + 1].dest = epochs'[i].dest
<1>1. epochs \in Seq(Epochs) /\ Len(epochs) \in 1..MaxEpochs BY DEF Inv, TypeInv, UserTypes
<1>2. /\ epochs' \in Seq(Epochs) /\ Len(epochs') = Len(epochs) + 1 /\ epochs'[Len(epochs) + 1] = e
      /\ \A i \in 1..Len(epochs) : epochs'[i] = epochs[i]
  BY <1>1, AppendProperties
<1>3. Len(epochs') \in 1..MaxEpochs BY <1>1, <1>2 DEF Bounds
<1>4. ASSUME NEW i \in 1..Len(epochs), Relinked(i)
      PROVE  i < Len(epochs') /\ epochs'[i + 1].dest = epochs'[i].dest
  <2>1. i < Len(epochs) /\ epochs[i + 1].dest = epochs[i].dest BY <1>4 DEF Relinked
  <2>2. i + 1 \in 1..Len(epochs) BY <1>1, <2>1
  <2> QED BY <1>1, <1>2, <2>1, <2>2
<1> QED BY <1>2, <1>3, <1>4

(* A new epoch leaves the jobs bound as they were, and what linking has left *)
(* where it was.                                                             *)
LEMMA OpenKeeps ==
    ASSUME Bounds, Inv, Len(epochs) < MaxEpochs, NEW e \in Epochs, epochs' = Append(epochs, e),
           UNCHANGED <<jobs, wk, pos>>
    PROVE  /\ JobsInv' /\ WorkerInv' /\ (LeftByRelink => LeftByRelink')
           /\ \A j \in 1..Len(jobs) : Relinked(jobs[j].epoch) /\ jobs[j].epoch # 0 =>
                 jobs[j].epoch < Len(epochs') /\ epochs'[jobs[j].epoch + 1].dest = epochs'[jobs[j].epoch].dest
<1>1. /\ Len(epochs') = Len(epochs) + 1 /\ Len(epochs) \in Nat
      /\ \A i \in 1..Len(epochs) : epochs'[i] = epochs[i]
      /\ \A i \in 1..Len(epochs) :
            Relinked(i) => i < Len(epochs') /\ epochs'[i + 1].dest = epochs'[i].dest
  BY OpenFacts DEF Inv, TypeInv, UserTypes
<1>2. ASSUME NEW j \in 1..Len(jobs)
      PROVE  jobs[j].epoch \in 0..Len(epochs) /\ (jobs[j].epoch # 0 => jobs[j].epoch \in 1..Len(epochs))
  <2>1. jobs[j].epoch \in Nat BY JobFacts DEF Jobs
  <2>2. jobs[j].epoch <= Len(epochs) BY DEF Inv, JobsInv
  <2> QED BY <1>1, <2>1, <2>2
<1>3. JobsInv'
  <2>1. ASSUME NEW j \in 1..Len(jobs)
        PROVE  /\ jobs[j].epoch <= Len(epochs')
               /\ jobs[j].epoch # 0 => /\ epochs'[jobs[j].epoch].dest = jobs[j].dest
                                       /\ epochs'[jobs[j].epoch].since <= jobs[j].born
               /\ jobs[j].epoch = 0 => jobs[j].row = "NONE"
               /\ jobs[j].row = "NONE" => jobs[j].ord = "NONE"
               /\ jobs[j].ord = "SENT" => jobs[j].row \in Unresolved
    BY <1>1, <1>2 DEF Inv, JobsInv
  <2> QED BY <2>1 DEF JobsInv
<1>4. WorkerInv' BY DEF Inv, WorkerInv, Cur
<1>5. ASSUME NEW j \in 1..Len(jobs), Relinked(jobs[j].epoch), jobs[j].epoch # 0
      PROVE  jobs[j].epoch < Len(epochs') /\ epochs'[jobs[j].epoch + 1].dest = epochs'[jobs[j].epoch].dest
  BY <1>1, <1>2, <1>5
<1>6. ASSUME LeftByRelink PROVE LeftByRelink'
  <2>1. PICK j \in 1..Len(jobs) : jobs[j].ord = "DONE" /\ Relinked(jobs[j].epoch)
    BY <1>6 DEF LeftByRelink
  <2>2. jobs[j].epoch # 0 BY <2>1 DEF Inv, JobsInv
  <2>3. jobs[j].epoch < Len(epochs') /\ epochs'[jobs[j].epoch + 1].dest = epochs'[jobs[j].epoch].dest
    BY <1>5, <2>1, <2>2
  <2> QED BY <2>1, <2>3 DEF LeftByRelink, Relinked
<1> QED BY <1>3, <1>4, <1>5, <1>6

(* Linking the account again, and the epoch any reader opens.                *)
LEMMA RelinkKeeps == ASSUME Bounds, Inv, Link \/ Bootstrap PROVE Inv'
<1>1. /\ sw.pc = "idle" /\ Len(epochs) < MaxEpochs
      /\ UNCHANGED <<jobs, ledger, late, pos, wk, fan, sw>>
  BY DEF Link, Bootstrap, RowFree, OthersIdle
<1>2. user \in Users /\ Len(epochs) \in 1..MaxEpochs /\ Len(epochs) + 1 \in 1..MaxEpochs
  BY <1>1 DEF Inv, TypeInv, UserTypes, Bounds
<1>3. PICK e \in Epochs : epochs' = Append(epochs, e) /\ e.dest = user.dest
  <2>1. CASE Link
    <3>1. PICK z : z = [dest |-> user.dest, bound |-> TRUE, since |-> Len(epochs) + 1] OBVIOUS
    <3>2. z \in Epochs /\ z.dest = user.dest BY <1>2, <3>1 DEF Epochs, Users
    <3> QED BY <2>1, <3>1, <3>2 DEF Link, Open
  <2>2. CASE Bootstrap
    <3>1. PICK z : z = [dest |-> user.dest, bound |-> user.acct, since |-> user.since] OBVIOUS
    <3>2. z \in Epochs /\ z.dest = user.dest BY <1>2, <3>1 DEF Epochs, Users
    <3> QED BY <2>2, <3>1, <3>2 DEF Bootstrap, Open
  <2> QED BY <2>1, <2>2
<1>4. /\ user' \in Users /\ user'.dest = user.dest /\ user'.active = Len(epochs) + 1
      /\ user'.copy = user.copy
  <2>1. Len(epochs) + 1 \in 0..MaxEpochs BY <1>2
  <2>2. CASE Link
    <3>1. user' = [user EXCEPT !.active = Len(epochs) + 1, !.acct = TRUE, !.since = Len(epochs) + 1]
      BY <2>2 DEF Link
    <3> QED BY <1>2, <2>1, <3>1 DEF Users
  <2>3. CASE Bootstrap
    <3>1. user' = [user EXCEPT !.active = Len(epochs) + 1] BY <2>3 DEF Bootstrap
    <3> QED BY <1>2, <2>1, <3>1 DEF Users
  <2> QED BY <2>2, <2>3
<1>5. /\ epochs' \in Seq(Epochs) /\ Len(epochs') = Len(epochs) + 1
      /\ Len(epochs') \in 1..MaxEpochs /\ epochs'[Len(epochs')] = e
      /\ \A i \in 1..Len(epochs) : epochs'[i] = epochs[i]
  BY <1>1, <1>3, OpenFacts
<1>6. TypeInv'
  BY <1>1, <1>4, <1>5 DEF Inv, TypeInv, UserTypes, JobTypes, BookTypes
<1>7. EpochsInv' BY <1>3, <1>4, <1>5 DEF EpochsInv
<1>8. /\ JobsInv' /\ WorkerInv' /\ (LeftByRelink => LeftByRelink')
      /\ \A j \in 1..Len(jobs) : Relinked(jobs[j].epoch) /\ jobs[j].epoch # 0 =>
            jobs[j].epoch < Len(epochs') /\ epochs'[jobs[j].epoch + 1].dest = epochs'[jobs[j].epoch].dest
  BY <1>1, <1>3, OpenKeeps
<1>9. OrdersInv'
  <2>1. ASSUME NEW j \in 1..Len(jobs), jobs[j].ord = "SENT" \/ (wk.pc = "post" /\ wk.j = j)
        PROVE  jobs[j].epoch < Len(epochs') /\ epochs'[jobs[j].epoch + 1].dest = epochs'[jobs[j].epoch].dest
    <3>1. jobs[j].epoch # 0 BY <2>1 DEF Inv, JobsInv, WorkerInv, Cur, Unresolved
    <3>2. CASE jobs[j].epoch = Len(epochs)
      <4>1. epochs[Len(epochs)].dest = user.dest BY DEF Inv, EpochsInv
      <4> QED BY <1>2, <1>3, <1>5, <3>2, <4>1
    <3>3. CASE jobs[j].epoch # Len(epochs)
      BY <1>8, <2>1, <3>1, <3>3 DEF Inv, OrdersInv
    <3> QED BY <3>2, <3>3
  <2> QED BY <1>1, <2>1 DEF OrdersInv, Relinked
<1>10. SwitchInv' BY <1>1 DEF SwitchInv
<1>11. LeftInv' BY <1>1, <1>4, <1>8 DEF Inv, LeftInv
<1>12. DecidedInv' BY <1>1, <1>4 DEF Inv, DecidedInv, Increases, Cur
<1> QED BY <1>6, <1>7, <1>8, <1>9, <1>10, <1>11, <1>12 DEF Inv

(* Unlinking the account leaves the user without an active epoch.            *)
LEMMA UnlinkKeeps == ASSUME Bounds, Inv, Unlink PROVE Inv'
<1>1. /\ sw.pc = "idle" /\ UNCHANGED <<jobs, ledger, pos, wk, fan, sw, epochs>>
      /\ late' = IF user.copy = "PAUSED" THEN late ELSE 0
  BY DEF Unlink, RowFree, OthersIdle
<1>2. user' \in Users /\ user'.dest = user.dest /\ user'.active = 0
  <2>1. user \in Users /\ 0 \in 0..MaxEpochs BY DEF Inv, TypeInv, UserTypes, Bounds
  <2> QED BY <2>1 DEF Unlink, Users
<1>3. late \in Nat /\ late' \in Nat BY <1>1 DEF Inv, TypeInv, BookTypes
<1>4. TypeInv' BY <1>1, <1>2, <1>3 DEF Inv, TypeInv, UserTypes, JobTypes, BookTypes
<1>5. EpochsInv' BY <1>1, <1>2 DEF Inv, EpochsInv
<1>6. JobsInv' /\ WorkerInv' BY <1>1 DEF Inv, JobsInv, WorkerInv, Cur
<1>7. OrdersInv' BY <1>1 DEF Inv, OrdersInv, Relinked
<1>8. SwitchInv' BY <1>1 DEF SwitchInv
<1>9. LeftInv' BY <1>1, <1>2 DEF Inv, LeftInv, LeftByRelink, Relinked
<1>10. DecidedInv'
  <2>1. CASE user.copy = "PAUSED" BY <1>1, <2>1 DEF Inv, DecidedInv, Increases, Cur
  <2>2. CASE user.copy # "PAUSED" BY <1>1, <2>2 DEF DecidedInv
  <2> QED BY <2>1, <2>2
<1> QED BY <1>4, <1>5, <1>6, <1>7, <1>8, <1>9, <1>10 DEF Inv

-----------------------------------------------------------------------------
(* The switch *)

(* The switch begins, reads and is given up.                                 *)
LEMMA SwitchPrepares == ASSUME Bounds, Inv, SwitchBegin \/ SwitchRead \/ SwitchAbort PROVE Inv'
<1>1. UNCHANGED <<user, epochs, ledger, jobs, pos, wk, fan, late>>
  BY DEF SwitchBegin, SwitchRead, SwitchAbort, Idle
<1>2. sw \in Switches /\ Len(epochs) \in Nat BY DEF Inv, TypeInv, UserTypes
<1>3. /\ sw' \in Switches /\ (sw'.pc # "idle" => Len(epochs) < MaxEpochs)
      /\ sw'.pc # "idle" =>
            /\ sw'.from = Len(epochs) /\ sw'.to # user.dest
            /\ \A j \in 1..Len(jobs) : jobs[j].epoch = Len(epochs) => jobs[j].row \notin Unresolved
            /\ sw'.pc = "commit" => pos[user.dest] = 0
  <2>1. CASE SwitchBegin
    <3>1. PICK to \in Dests \ {user.dest} :
             ~Blocked(SourceEpoch) /\ sw' = [pc |-> "read", to |-> to, from |-> SourceEpoch]
      BY <2>1 DEF SwitchBegin
    <3>2. SourceEpoch = Len(epochs) BY DEF SourceEpoch, Inv, EpochsInv
    <3>3. \A j \in 1..Len(jobs) : jobs[j].epoch = Len(epochs) => jobs[j].row \notin Unresolved
      BY <3>1, <3>2, JobFacts DEF Blocked
    <3> QED BY <1>2, <2>1, <3>1, <3>2, <3>3 DEF Switches, SwitchBegin
  <2>2. CASE SwitchRead
    <3>1. /\ sw' \in Switches /\ sw'.pc = "commit" /\ sw'.from = sw.from /\ sw'.to = sw.to
          /\ sw.pc = "read" /\ pos[user.dest] = 0
      BY <1>2, <2>2 DEF SwitchRead, Switches
    <3> QED BY <3>1 DEF Inv, SwitchInv, TypeInv, UserTypes
  <2>3. CASE SwitchAbort
    <3>1. sw'.pc = "idle" /\ sw'.from = 0 /\ sw' = [pc |-> "idle", to |-> Home, from |-> 0]
      BY <2>3 DEF SwitchAbort, NoSwitch
    <3> QED BY <3>1 DEF Switches, Bounds
  <2> QED BY <2>1, <2>2, <2>3
<1>4. TypeInv' BY <1>1, <1>3 DEF Inv, TypeInv, UserTypes, JobTypes, BookTypes
<1>5. SwitchInv' BY <1>1, <1>3 DEF SwitchInv
<1>6. EpochsInv' /\ JobsInv' /\ WorkerInv' BY <1>1 DEF Inv, EpochsInv, JobsInv, WorkerInv, Cur
<1>7. OrdersInv' /\ LeftInv' BY <1>1 DEF Inv, OrdersInv, LeftInv, LeftByRelink, Relinked
<1>8. DecidedInv' BY <1>1 DEF Inv, DecidedInv, Increases, Cur
<1> QED BY <1>4, <1>5, <1>6, <1>7, <1>8 DEF Inv

(* The switch commits: the epoch it leaves has no order under way, and the   *)
(* destination it leaves is flat or left so by linking.                      *)
LEMMA CommitKeeps == ASSUME Bounds, Inv, SwitchCommit PROVE Inv'
<1>1. /\ sw.pc = "commit" /\ ~Blocked(sw.from) /\ sw' = NoSwitch /\ ledger' = 0
      /\ UNCHANGED <<jobs, pos, wk, fan, late>>
      /\ epochs' = Append(epochs, [dest |-> sw.to, bound |-> sw.to = "risex", since |-> Len(epochs) + 1])
      /\ user' = [user EXCEPT !.dest = sw.to, !.active = Len(epochs) + 1, !.acct = FALSE,
                              !.since = Len(epochs) + 1]
  BY DEF SwitchCommit, Idle, Open
<1>2. /\ Len(epochs) < MaxEpochs /\ Len(epochs) \in 1..MaxEpochs /\ sw \in Switches
      /\ user \in Users /\ ledger \in Int
  BY <1>1 DEF Inv, TypeInv, UserTypes, BookTypes
<1>3. /\ sw.from = Len(epochs) /\ sw.to # user.dest
      /\ \A j \in 1..Len(jobs) : jobs[j].epoch = Len(epochs) => jobs[j].row \notin Unresolved
      /\ pos[user.dest] = 0 \/ LeftByRelink
  BY <1>1 DEF Inv, SwitchInv
<1>4. ledger = 0 /\ user.copy = "PAUSED" BY <1>1 DEF Blocked
<1>5. PICK e \in Epochs : epochs' = Append(epochs, e) /\ e.dest = sw.to
  <2>1. PICK z : z = [dest |-> sw.to, bound |-> sw.to = "risex", since |-> Len(epochs) + 1] OBVIOUS
  <2>2. sw.to \in Dests /\ Len(epochs) + 1 \in 1..MaxEpochs BY <1>2 DEF Switches, Bounds
  <2>3. z \in Epochs /\ z.dest = sw.to BY <2>1, <2>2 DEF Epochs
  <2> QED BY <1>1, <2>1, <2>3
<1>6. /\ user' \in Users /\ user'.dest = sw.to /\ user'.active = Len(epochs) + 1
      /\ user'.copy = user.copy
  <2>1. sw.to \in Dests /\ Len(epochs) + 1 \in 1..MaxEpochs /\ Len(epochs) + 1 \in 0..MaxEpochs
    BY <1>2 DEF Switches, Bounds
  <2> QED BY <1>1, <1>2, <2>1 DEF Users
<1>7. /\ epochs' \in Seq(Epochs) /\ Len(epochs') = Len(epochs) + 1
      /\ Len(epochs') \in 1..MaxEpochs /\ epochs'[Len(epochs')] = e
  BY <1>2, <1>5, OpenFacts
<1>8. sw' \in Switches /\ sw'.pc = "idle"
  BY <1>1 DEF NoSwitch, Switches, Bounds
<1>9. TypeInv'
  <2>1. 0 \in Int OBVIOUS
  <2> QED BY <1>1, <1>6, <1>7, <1>8, <2>1 DEF Inv, TypeInv, UserTypes, JobTypes, BookTypes
<1>10. EpochsInv' BY <1>5, <1>6, <1>7 DEF EpochsInv
<1>11. /\ JobsInv' /\ WorkerInv' /\ (LeftByRelink => LeftByRelink')
       /\ \A j \in 1..Len(jobs) : Relinked(jobs[j].epoch) /\ jobs[j].epoch # 0 =>
             jobs[j].epoch < Len(epochs') /\ epochs'[jobs[j].epoch + 1].dest = epochs'[jobs[j].epoch].dest
  BY <1>1, <1>2, <1>5, OpenKeeps
<1>12. OrdersInv'
  <2>1. ASSUME NEW j \in 1..Len(jobs), jobs[j].ord = "SENT" \/ (wk.pc = "post" /\ wk.j = j)
        PROVE  jobs[j].epoch < Len(epochs') /\ epochs'[jobs[j].epoch + 1].dest = epochs'[jobs[j].epoch].dest
    <3>1. jobs[j].epoch # 0 /\ jobs[j].row \in Unresolved
      BY <2>1 DEF Inv, JobsInv, WorkerInv, Cur, Unresolved
    <3>2. jobs[j].epoch # Len(epochs) BY <1>3, <3>1
    <3>3. Relinked(jobs[j].epoch) BY <2>1, <3>2 DEF Inv, OrdersInv
    <3> QED BY <1>11, <3>1, <3>3
  <2> QED BY <1>1, <2>1 DEF OrdersInv, Relinked
<1>13. SwitchInv' BY <1>8 DEF SwitchInv
<1>14. LeftInv'
  <2>1. ASSUME NEW d \in Dests \ {sw.to} PROVE pos[d] = 0 \/ LeftByRelink'
    <3>1. CASE d = user.dest BY <1>3, <1>11, <3>1
    <3>2. CASE d # user.dest BY <1>11, <3>2 DEF Inv, LeftInv
    <3> QED BY <3>1, <3>2
  <2> QED BY <1>1, <1>6, <2>1 DEF LeftInv
<1>15. DecidedInv' BY <1>1, <1>4, <1>6 DEF Inv, DecidedInv, Increases, Cur
<1> QED BY <1>9, <1>10, <1>11, <1>12, <1>13, <1>14, <1>15 DEF Inv

-----------------------------------------------------------------------------
(* The invariant *)

(* It holds initially.                                                       *)
LEMMA InitInv == ASSUME Bounds, Init PROVE Inv
<1>1. 1 \in 1..MaxEpochs /\ 1 \in 0..MaxEpochs /\ 0 \in 0..MaxEpochs /\ 0 \in Nat /\ 0 \in Int
  BY DEF Bounds
<1>2. PICK e : e = [dest |-> Home, bound |-> TRUE, since |-> 1] OBVIOUS
<1>3. e \in Epochs /\ e.dest = Home BY <1>1, <1>2 DEF Epochs, Bounds
<1>4. epochs = <<e>> BY <1>2 DEF Init
<1>5. epochs \in Seq(Epochs) /\ Len(epochs) = 1 /\ epochs[1] = e BY <1>3, <1>4
<1>6. user \in Users /\ user.dest = Home /\ user.active = 1 /\ user.copy = "ACTIVE"
  BY <1>1 DEF Init, Users, Bounds
<1>7. jobs \in Seq(Jobs) /\ Len(jobs) = 0 BY DEF Init
<1>8. wk \in Works /\ wk.pc = "idle" /\ wk.j = 0 BY DEF Init, NoWork, Works
<1>9. fan \in Fans /\ fan.pc = "idle" BY <1>1 DEF Init, NoFan, Fans, Bounds
<1>10. sw \in Switches /\ sw.pc = "idle" BY DEF Init, NoSwitch, Switches, Bounds
<1>11. \A d \in Dests : pos[d] = 0 BY DEF Init
<1>12. BookTypes BY <1>1 DEF Init, BookTypes
<1>13. UserTypes /\ JobTypes
  BY <1>1, <1>5, <1>6, <1>7, <1>8, <1>9, <1>10 DEF UserTypes, JobTypes
<1>14. EpochsInv BY <1>3, <1>5, <1>6 DEF EpochsInv
<1>15. JobsInv /\ OrdersInv BY <1>7 DEF JobsInv, OrdersInv
<1>16. WorkerInv BY <1>7, <1>8 DEF WorkerInv
<1>17. SwitchInv /\ LeftInv BY <1>10, <1>11 DEF SwitchInv, LeftInv
<1>18. DecidedInv BY <1>6 DEF DecidedInv
<1> QED BY <1>12, <1>13, <1>14, <1>15, <1>16, <1>17, <1>18 DEF Inv, TypeInv

(* Every step keeps it.                                                      *)
LEMMA NextInv == ASSUME Bounds, Inv, [Next]_vars PROVE Inv'
<1>1. CASE UNCHANGED vars
  <2>1. TypeInv' BY <1>1 DEF vars, Inv, TypeInv, UserTypes, JobTypes, BookTypes
  <2>2. EpochsInv' /\ JobsInv' /\ WorkerInv' BY <1>1 DEF vars, Inv, EpochsInv, JobsInv, WorkerInv, Cur
  <2>3. OrdersInv' /\ LeftInv' /\ SwitchInv'
    BY <1>1 DEF vars, Inv, OrdersInv, LeftInv, SwitchInv, LeftByRelink, Relinked
  <2>4. DecidedInv' BY <1>1 DEF vars, Inv, DecidedInv, Increases, Cur
  <2> QED BY <2>1, <2>2, <2>3, <2>4 DEF Inv
<1>2. ASSUME NEW j \in DOMAIN jobs, Publish(j) \/ RepairStale(j) \/ Land(j) \/ Resolve(j) \/ Claim(j)
      PROVE  Inv'
  <2>1. j \in 1..Len(jobs) BY JobFacts
  <2> QED BY <1>2, <2>1, QueueKeeps, LandKeeps, ResolveKeeps, ClaimKeeps
<1>3. CASE FanRead \/ FanInsert BY <1>3, FanKeeps
<1>4. CASE Plan \/ Recover \/ InsertRow \/ Authorize \/ Post \/ Answer \/ AnswerLost \/ WorkerCrash
  BY <1>4, PlanKeeps, RecoverKeeps, InsertKeeps, AuthorizeKeeps, PostKeeps, AnswerKeeps
<1>5. CASE Pause \/ Shadow \/ ClosePositions \/ Resume \/ Align \/ ResumeDone \/ ResumeRollback
  BY <1>5, ControlsKeep, RollbackKeeps
<1>6. CASE Link \/ Unlink \/ Bootstrap BY <1>6, RelinkKeeps, UnlinkKeeps
<1>7. CASE SwitchBegin \/ SwitchRead \/ SwitchAbort \/ SwitchCommit
  BY <1>7, SwitchPrepares, CommitKeeps
<1> QED BY <1>1, <1>2, <1>3, <1>4, <1>5, <1>6, <1>7 DEF Next, WorkerStep

(* Every behaviour keeps it.                                                 *)
LEMMA Invariance == ASSUME Bounds PROVE Spec => []Inv
<1>1. Init => Inv BY InitInv
<1>2. Inv /\ [Next]_vars => Inv' BY NextInv
<1> QED BY <1>1, <1>2, PTL DEF Spec

(* The invariant contains the types the runs check.                          *)
LEMMA InvTypes == ASSUME Inv PROVE TypeOK
<1>1. user \in Users /\ epochs \in Seq(Epochs) /\ jobs \in Seq(Jobs)
  BY DEF Inv, TypeInv, UserTypes, JobTypes
<1>2. ledger \in Int /\ pos \in [Dests -> Int] /\ late \in Nat
  BY DEF Inv, TypeInv, BookTypes
<1>3. user.active <= Len(epochs) /\ wk.j \in 0..Len(jobs)
  <2>1. Len(epochs) \in Nat BY DEF Inv, TypeInv, UserTypes
  <2> QED BY <2>1 DEF Inv, EpochsInv, WorkerInv
<1> QED BY <1>1, <1>2, <1>3 DEF TypeOK, Users, Epochs, Jobs

(* It says what is left where, and what a job executes on.                   *)
LEMMA InvLeft == ASSUME Inv PROVE NothingLeftBehind
<1>1. DOMAIN jobs = 1..Len(jobs) BY JobFacts
<1>2. ASSUME NEW j \in 1..Len(jobs)
      PROVE  /\ jobs[j].ord = "SENT" =>
                   epochs[jobs[j].epoch].dest = user.dest \/ Relinked(jobs[j].epoch)
             /\ jobs[j].row # "NONE" => /\ epochs[jobs[j].epoch].dest = jobs[j].dest
                                        /\ epochs[jobs[j].epoch].since <= jobs[j].born
  BY DEF Inv, OrdersInv, EpochsInv, JobsInv
<1>3. \A d \in Dests \ {user.dest} :
         pos[d] = 0 \/ \E j \in 1..Len(jobs) : jobs[j].ord = "DONE" /\ Relinked(jobs[j].epoch)
  BY DEF Inv, LeftInv, LeftByRelink
<1> QED BY <1>1, <1>2, <1>3 DEF NothingLeftBehind

(* It bounds what a pause lets through.                                      *)
LEMMA InvPause == ASSUME Inv PROVE PauseStops
BY DEF Inv, DecidedInv, PauseStops

(* The user, the epochs, the jobs and the tasks keep their types.            *)
THEOREM TypeCorrect == ASSUME Bounds PROVE Spec => []TypeOK
<1>1. Inv => TypeOK BY InvTypes
<1> QED BY <1>1, Invariance, PTL

(* set_user_destination, blockers, bind_job_execution_epoch: no order and no *)
(* position stays at a destination the user has left, and a job executes on  *)
(* its own destination only.                                                 *)
THEOREM LeavesNothing == ASSUME Bounds PROVE Spec => []NothingLeftBehind
<1>1. Inv => NothingLeftBehind BY InvLeft
<1> QED BY <1>1, Invariance, PTL

(* _process_job_locked, pause, close_positions, rollback: at most one        *)
(* increase, already decided on, is sent after a pause.                      *)
THEOREM PausesCopying == ASSUME Bounds PROVE Spec => []PauseStops
<1>1. Inv => PauseStops BY InvPause
<1> QED BY <1>1, Invariance, PTL
=============================================================================
