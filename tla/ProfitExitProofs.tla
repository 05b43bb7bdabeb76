-------------------------- MODULE ProfitExitProofs --------------------------
(***************************************************************************)
(* Proofs about the AI profit exit, for any number of master moves,        *)
(* decisions, attempts and disturbances: an executed exit is not reopened  *)
(* in its cycle, exits of a cycle never overlap, a failed one is over.     *)
(*                                                                         *)
(* The worker's half of the argument is about one decision at a time: what *)
(* its row says of its order, and that a decision that has ended is never  *)
(* taken up again. The fence's half is about the log: it grows in the      *)
(* order of the moves, so the newest start it proves is at least as new as *)
(* the cycle of every earlier decision, and no newer than the true cycle.  *)
(***************************************************************************)
EXTENDS ProfitExit, WellFoundedInduction, SequenceTheorems, TLAPS

Bounds == /\ MaxMoves \in Nat /\ MaxAttempts \in Nat \ {0}
          /\ Positions \subseteq Int /\ 0 \in Positions

Fills     == [start : Positions, after : Positions]
Decisions == [cycle : 1..MaxMoves, side : {-1, 1},
              st : {"PENDING", "PARTIAL", "COMPLETED", "FAILED", "AMBIGUOUS"},
              job : {"READY", "PROCESSING", "DONE", "SKIPPED", "DEAD"},
              att : 0..MaxAttempts, row : {"NONE", "FILLED", "CANCELED"} \cup Unresolved,
              size : Nat, base : Int, applied : BOOLEAN,
              ord : {"NONE", "SENT", "DONE"}, fill : Nat]

(* The log names moves in their order.                                       *)
LogInv ==
    /\ moves \in Seq(Fills) /\ Len(moves) <= MaxMoves
    /\ log \in Seq(Nat) /\ intent \in 0..Len(log)
    /\ \A k \in 1..Len(log) : k <= log[k] /\ log[k] <= Len(moves)
    /\ \A k, l \in 1..Len(log) : k < l => log[k] < log[l]

(* The starts of cycles that the log has.                                    *)
Named == {log[k] : k \in {l \in 1..Len(log) : Starts(moves[log[l]])}}

(* What a decision's row says of its order, and which decisions are over.    *)
Sound(e) ==
    /\ e.job = "READY" => e.att < MaxAttempts
    /\ e.row = "NONE" => e.ord = "NONE"
    /\ e.row # "NONE" => e.size > 0
    /\ e.ord # "DONE" => e.fill = 0
    /\ e.fill <= e.size
    /\ e.row = "CANCELED" => e.ord \in {"NONE", "DONE"} /\ e.fill < e.size
    /\ e.st = "FAILED" => e.job = "SKIPPED" /\ e.row \in {"NONE", "CANCELED"}
    /\ e.st \in {"PARTIAL", "COMPLETED"} => e.job = "DONE"

DecInv ==
    /\ dec \in Seq(Decisions)
    /\ \A d \in 1..Len(dec) : Sound(dec[d]) /\ dec[d].cycle \in Named

(* The worker is on a decision it has claimed, at the state of its row.      *)
WorkInv ==
    /\ wk \in [pc : {"idle", "claimed", "revalidate", "post", "await", "apply", "failed", "finish"},
               d : Nat]
    /\ wk.pc = "idle" => wk.d = 0
    /\ wk.pc # "idle" => wk.d \in 1..Len(dec) /\ dec[wk.d].job = "PROCESSING"
    /\ wk.pc \in {"revalidate", "post"} => dec[wk.d].row = "SUBMITTING" /\ dec[wk.d].ord = "NONE"
    /\ wk.pc = "await" => dec[wk.d].row = "SUBMITTING"
    /\ wk.pc = "failed" => dec[wk.d].row = "CANCELED"
    /\ wk.pc = "apply" => dec[wk.d].row = "FILLED"

(* Until the evaluator commits, every exit of its cycle is over.             *)
EvalInv ==
    /\ ev \in [pc : {"idle", "decide"}, cycle : Nat, pos : Int]
    /\ ev.pc = "decide" =>
          /\ ev.cycle \in Named /\ ev.pos # 0
          /\ \A d \in 1..Len(dec) : dec[d].cycle = ev.cycle => dec[d].st \in {"PARTIAL", "FAILED"}

(* The reconciliation's snapshot has every event of its boundary.            *)
RunInv ==
    /\ rc \in [pc : {"idle", "job"}, bound : Nat, at : Nat]
    /\ rc.pc = "job" => /\ rc.bound <= Len(log) /\ rc.at <= Len(moves)
                        /\ \A k \in 1..rc.bound : log[k] <= rc.at

PlaceInv ==
    /\ mode \in {"ON", "OFF"} /\ copy \in {"ACTIVE", "PAUSED"} /\ fpos \in Int /\ ledger \in Int
    /\ entry.exits \subseteq 1..Len(dec)
    /\ NoReopen

Live == {"PENDING", "AMBIGUOUS"}

(* Exits of one cycle that are both live.                                    *)
AloneInv ==
    \A c, d \in 1..Len(dec) :
        c # d /\ dec[c].cycle = dec[d].cycle => ~(dec[c].st \in Live /\ dec[d].st \in Live)

Inv == LogInv /\ DecInv /\ WorkInv /\ EvalInv /\ RunInv /\ PlaceInv /\ AloneInv

-----------------------------------------------------------------------------
(* The source cycle *)

(* A set of positive numbers up to a bound has its maximum.                  *)
LEMMA HasMax ==
    ASSUME NEW n \in Nat, NEW S \in SUBSET (1..n), S # {}
    PROVE  Max(S) \in S /\ \A y \in S : Max(S) >= y
<1> DEFINE T == {n - x : x \in S}
<1>1. T \subseteq Nat /\ T # {} OBVIOUS
<1>2. \E x \in T : \A y \in T : ~ (<<y, x>> \in OpToRel(<, Nat))
  BY <1>1, NatLessThanWellFounded, WFMin, Zenon
<1>3. PICK t \in T : \A y \in T : ~(y < t) BY <1>1, <1>2 DEF OpToRel
<1>4. PICK m \in S : t = n - m BY <1>3
<1>5. ASSUME NEW y \in S PROVE m >= y
  <2>1. ~(n - y < n - m) BY <1>3, <1>4
  <2>2. y \in Int /\ m \in Int OBVIOUS
  <2> QED BY <2>1, <2>2
<1>6. \E x \in S : \A y \in S : x >= y BY <1>5
<1> QED BY <1>6 DEF Max

(* A proven cycle is the newest start of the events it was proved from.      *)
LEMMA SourceNames ==
    ASSUME LogInv, NEW n \in 0..Len(log), NEW pos, SourceCycle(n, pos) # 0
    PROVE  \E k \in 1..n :
              /\ SourceCycle(n, pos) = log[k] /\ Starts(moves[log[k]])
              /\ \A l \in 1..n : Starts(moves[log[l]]) => l <= k
<1> DEFINE S == {k \in 1..n : Starts(moves[log[k]])}
<1>1. n \in Nat /\ Len(log) \in Nat BY DEF LogInv
<1>2. S # {} /\ SourceCycle(n, pos) = log[Max(S)] BY DEF SourceCycle
<1>3. Max(S) \in S /\ \A y \in S : Max(S) >= y BY <1>1, <1>2, HasMax
<1>4. \A l \in 1..n : Starts(moves[log[l]]) => l <= Max(S)
  <2> TAKE l \in 1..n
  <2>1. Max(S) \in Int BY <1>3
  <2> QED BY <1>3, <2>1
<1> QED BY <1>2, <1>3, <1>4

(* The true cycle is at least as new as every start before it.               *)
LEMMA TrueNewest ==
    ASSUME LogInv, NEW i \in 0..Len(moves), PositionAt(i) # 0, NEW c \in 1..i, Starts(moves[c])
    PROVE  TrueCycle(i) \in Nat /\ TrueCycle(i) >= c
<1> DEFINE S == {k \in 1..i : Starts(moves[k])}
<1>1. i \in Nat BY DEF LogInv
<1>2. c \in S OBVIOUS
<1>3. Max(S) \in S /\ Max(S) >= c BY <1>1, <1>2, HasMax
<1>4. TrueCycle(i) = Max(S) BY DEF TrueCycle
<1> QED BY <1>3, <1>4

(* An order towards no position at all does not grow one.                    *)
LEMMA ClosingShrinks ==
    ASSUME fpos \in Int, ledger \in Int
    PROVE  ~Grows(Traded(0))
<1>1. CASE ledger = 0
  <2>1. Traded(0) = fpos BY <1>1 DEF Traded, Abs, Sign
  <2> QED BY <2>1 DEF Grows, Abs, Sign
<1>2. CASE ledger # 0 /\ Sign(fpos) # Sign(ledger)
  <2>1. Traded(0) = fpos BY <1>2 DEF Traded, Abs, Sign
  <2> QED BY <2>1 DEF Grows, Abs, Sign
<1>3. CASE ledger # 0 /\ Sign(fpos) = Sign(ledger)
  <2>1. Traded(0) = Reduced(fpos, Abs(ledger)) BY <1>3 DEF Traded, Abs, Sign
  <2>2. CASE fpos > 0 BY <1>3, <2>1, <2>2 DEF Grows, Reduced, Abs, Sign
  <2>3. CASE fpos < 0 BY <1>3, <2>1, <2>3 DEF Grows, Reduced, Abs, Sign
  <2>4. fpos # 0 BY <1>3 DEF Sign
  <2> QED BY <2>2, <2>3, <2>4
<1> QED BY <1>1, <1>2, <1>3

-----------------------------------------------------------------------------
(* The log *)

(* Moves and events are only appended.                                       *)
LEMMA LogMoves ==
    ASSUME Bounds, LogInv, [Next]_vars
    PROVE  \/ UNCHANGED <<moves, log>> /\ intent' \in {intent, Len(log)}
           \/ UNCHANGED <<log, intent>> /\ Len(moves) < MaxMoves
              /\ \E m \in Fills : moves' = Append(moves, m)
           \/ UNCHANGED <<moves, intent>>
              /\ \E i \in 1..Len(moves) : (\A k \in 1..Len(log) : log[k] < i) /\ log' = Append(log, i)
<1>1. CASE MasterMove
  <2>1. MasterPosition \in Positions
    <3>1. CASE Len(moves) = 0 BY <3>1 DEF MasterPosition, PositionAt, Bounds
    <3>2. CASE Len(moves) # 0
      <4>1. moves[Len(moves)] \in Fills BY <3>2 DEF LogInv
      <4> QED BY <3>2, <4>1 DEF MasterPosition, PositionAt, Fills
    <3> QED BY <3>1, <3>2
  <2>2. PICK p \in Positions : moves' = Append(moves, [start |-> MasterPosition, after |-> p])
    BY <1>1 DEF MasterMove
  <2>3. [start |-> MasterPosition, after |-> p] \in Fills BY <2>1 DEF Fills
  <2> QED BY <1>1, <2>2, <2>3 DEF MasterMove
<1>2. CASE PersistMove
  <2>1. DOMAIN moves = 1..Len(moves) /\ DOMAIN log = 1..Len(log) BY DEF LogInv
  <2> QED BY <1>2, <2>1 DEF PersistMove
<1>3. CASE \/ EventJob \/ RcCommit \/ RcJob \/ EvRead \/ EvAbstain \/ EvCommit
           \/ WorkerStep \/ Release \/ \E d \in DOMAIN dec : Resolve(d) \/ Land(d)
           \/ SetMode \/ SetCopyState \/ WorkerCrash \/ UNCHANGED vars
  BY <1>3 DEF EventJob, RcCommit, RcJob, EvRead, EvAbstain, EvCommit, WorkerStep, Release, ReleaseStale,
        Resolve, Land, SetMode, SetCopyState, WorkerCrash, vars, Busy, Claim, Refuse, InsertRow,
        RevalidateFails, WriterFenced, SubmitFails, Revalidate, Post, AnswerLost, Answer, Conclude,
        RecoverUnknown, RecoverQueried,
        RecoverStored, NotFilled, Apply, ApplyDeferred, FinishExit
<1> QED BY <1>1, <1>2, <1>3 DEF Next

(* The log stays in order, and what it names it names for ever.              *)
LEMMA LogStays ==
    ASSUME Bounds, LogInv, [Next]_vars
    PROVE  /\ LogInv'
           /\ Named \subseteq Named'
           /\ Len(log) <= Len(log') /\ Len(moves) <= Len(moves')
           /\ \A k \in 1..Len(log) : log'[k] = log[k]
<1> USE DEF Bounds
<1>0. Len(log) \in Nat /\ Len(moves) \in Nat /\ \A k \in 1..Len(log) : log[k] \in 1..Len(moves)
  BY DEF LogInv
<1>1. CASE UNCHANGED <<moves, log>> /\ intent' \in {intent, Len(log)}
  <2>1. LogInv' BY <1>0, <1>1 DEF LogInv
  <2>2. Named' = Named BY <1>1 DEF Named, Starts
  <2> QED BY <1>0, <1>1, <2>1, <2>2
<1>2. ASSUME UNCHANGED <<log, intent>>, Len(moves) < MaxMoves,
             NEW m \in Fills, moves' = Append(moves, m)
      PROVE  /\ LogInv'
             /\ Named \subseteq Named'
             /\ Len(log) <= Len(log') /\ Len(moves) <= Len(moves')
             /\ \A k \in 1..Len(log) : log'[k] = log[k]
  <2>1. moves' \in Seq(Fills) /\ Len(moves') = Len(moves) + 1
        /\ \A i \in 1..Len(moves) : moves'[i] = moves[i]
    BY <1>2 DEF LogInv
  <2>2. LogInv' BY <1>0, <1>2, <2>1 DEF LogInv
  <2>3. ASSUME NEW c \in Named PROVE c \in Named'
    <3>1. PICK k \in 1..Len(log) : log[k] = c /\ Starts(moves[log[k]]) BY <2>3 DEF Named
    <3>2. moves'[log'[k]] = moves[log[k]] BY <1>0, <1>2, <2>1, <3>1
    <3>3. Starts(moves'[log'[k]]) BY <3>1, <3>2
    <3> QED BY <1>2, <3>1, <3>3 DEF Named, Starts
  <2> QED BY <1>0, <1>2, <2>1, <2>2, <2>3
<1>3. ASSUME UNCHANGED <<moves, intent>>, NEW i \in 1..Len(moves),
             \A k \in 1..Len(log) : log[k] < i, log' = Append(log, i)
      PROVE  /\ LogInv'
             /\ Named \subseteq Named'
             /\ Len(log) <= Len(log') /\ Len(moves) <= Len(moves')
             /\ \A k \in 1..Len(log) : log'[k] = log[k]
  <2>1. log' \in Seq(Nat) /\ Len(log') = Len(log) + 1 /\ log'[Len(log) + 1] = i
        /\ \A k \in 1..Len(log) : log'[k] = log[k]
    BY <1>0, <1>3 DEF LogInv
  <2>2. Len(log) + 1 <= i
    <3>1. CASE Len(log) = 0 BY <1>0, <3>1
    <3>2. CASE Len(log) # 0
      <4>1. Len(log) \in 1..Len(log) BY <1>0, <3>2
      <4>2. Len(log) <= log[Len(log)] /\ log[Len(log)] < i BY <1>3, <4>1 DEF LogInv
      <4> QED BY <1>0, <4>1, <4>2
    <3> QED BY <3>1, <3>2
  <2>3. \A k \in 1..Len(log') : k <= log'[k] /\ log'[k] <= Len(moves')
    <3> TAKE k \in 1..Len(log')
    <3>1. CASE k = Len(log) + 1 BY <1>0, <1>3, <2>1, <2>2, <3>1
    <3>2. CASE k \in 1..Len(log) BY <1>0, <1>3, <2>1, <3>2 DEF LogInv
    <3> QED BY <1>0, <2>1, <3>1, <3>2
  <2>4. \A k, l \in 1..Len(log') : k < l => log'[k] < log'[l]
    <3> TAKE k, l \in 1..Len(log')
    <3>1. CASE k \in 1..Len(log) /\ l = Len(log) + 1 BY <1>3, <2>1, <3>1
    <3>2. CASE k \in 1..Len(log) /\ l \in 1..Len(log) BY <2>1, <3>2 DEF LogInv
    <3>3. k \in Int /\ l \in Int /\ 1 <= k /\ 1 <= l /\ k <= Len(log) + 1 /\ l <= Len(log) + 1
      BY <1>0, <2>1
    <3>4. k < l => k \in 1..Len(log) /\ (l = Len(log) + 1 \/ l \in 1..Len(log))
      BY <1>0, <3>3
    <3> QED BY <3>1, <3>2, <3>4
  <2>5. LogInv' BY <1>0, <1>3, <2>1, <2>3, <2>4 DEF LogInv
  <2>6. ASSUME NEW c \in Named PROVE c \in Named'
    <3>1. PICK k \in 1..Len(log) : log[k] = c /\ Starts(moves[log[k]]) BY <2>6 DEF Named
    <3>2. k \in 1..Len(log') /\ log'[k] = log[k] BY <1>0, <2>1, <3>1
    <3>3. Starts(moves'[log'[k]]) BY <1>3, <3>1, <3>2
    <3> QED BY <3>1, <3>2, <3>3 DEF Named, Starts
  <2> QED BY <1>0, <1>3, <2>1, <2>5, <2>6
<1> QED BY <1>1, <1>2, <1>3, LogMoves

-----------------------------------------------------------------------------
(* The decisions *)

(* A step that leaves a decision in its cycle and does not reopen it.        *)
Kept(d) ==
    /\ dec'[d] \in Decisions /\ Sound(dec'[d]) /\ dec'[d].cycle = dec[d].cycle
    /\ dec[d].st \notin Live => dec'[d].st = dec[d].st

KeepsAll == /\ dec' \in Seq(Decisions) /\ Len(dec') = Len(dec)
            /\ \A d \in 1..Len(dec) : Kept(d)

(* Changing one decision keeps the others.                                   *)
LEMMA Update ==
    ASSUME DecInv, NEW d \in 1..Len(dec), NEW e \in Decisions, dec' = [dec EXCEPT ![d] = e],
           Sound(e), e.cycle = dec[d].cycle, dec[d].st \notin Live => e.st = dec[d].st
    PROVE  KeepsAll /\ dec'[d] = e /\ \A c \in 1..Len(dec) \ {d} : dec'[c] = dec[c]
<1>1. dec' \in Seq(Decisions) /\ Len(dec') = Len(dec) BY DEF DecInv
<1>2. dec'[d] = e /\ \A c \in 1..Len(dec) \ {d} : dec'[c] = dec[c] BY DEF DecInv
<1>3. \A c \in 1..Len(dec) : dec[c] \in Decisions /\ Sound(dec[c]) BY DEF DecInv
<1>4. \A c \in 1..Len(dec) : Kept(c) BY <1>2, <1>3 DEF Kept
<1> QED BY <1>1, <1>2, <1>4 DEF KeepsAll

(* Nothing happens to the decisions.                                         *)
LEMMA SameDecisions == ASSUME DecInv, UNCHANGED dec PROVE KeepsAll
BY DEF DecInv, KeepsAll, Kept

(* The decision the worker is on.                                            *)
LEMMA Current ==
    ASSUME DecInv, WorkInv, wk.pc # "idle"
    PROVE  /\ wk.d \in 1..Len(dec) /\ Cur = dec[wk.d] /\ Cur \in Decisions /\ Sound(Cur)
           /\ Cur.job = "PROCESSING" /\ Cur.st \in Live /\ Cur.att \in 0..MaxAttempts
<1>1. wk.d \in 1..Len(dec) /\ Cur = dec[wk.d] /\ Cur.job = "PROCESSING" BY DEF WorkInv, Cur
<1>2. Cur \in Decisions /\ Sound(Cur) BY <1>1 DEF DecInv
<1>3. Cur.st \in Live /\ Cur.att \in 0..MaxAttempts BY <1>1, <1>2 DEF Decisions, Sound, Live
<1> QED BY <1>1, <1>2, <1>3

(* The worker is idle afterwards.                                            *)
LEMMA IdleWork == ASSUME wk' = NoWork PROVE WorkInv'
BY DEF NoWork, WorkInv

(* The worker moves on with the decision it is on.                           *)
LEMMA StepWork ==
    ASSUME WorkInv, KeepsAll, wk.pc # "idle",
           NEW pc \in {"revalidate", "post", "await", "apply", "failed", "finish"},
           wk' = [wk EXCEPT !.pc = pc], dec'[wk.d].job = "PROCESSING",
           pc \in {"revalidate", "post"} => dec'[wk.d].row = "SUBMITTING" /\ dec'[wk.d].ord = "NONE",
           pc = "await" => dec'[wk.d].row = "SUBMITTING",
           pc = "failed" => dec'[wk.d].row = "CANCELED",
           pc = "apply" => dec'[wk.d].row = "FILLED"
    PROVE  WorkInv'
<1>1. wk'.pc = pc /\ wk'.d = wk.d BY DEF WorkInv
<1>2. wk' \in [pc : {"idle", "claimed", "revalidate", "post", "await", "apply", "failed", "finish"},
               d : Nat]
  BY DEF WorkInv
<1>3. wk'.d \in 1..Len(dec') BY <1>1 DEF WorkInv, KeepsAll
<1> QED BY <1>1, <1>2, <1>3 DEF WorkInv

(* A job given back, or dead after its last attempt.                         *)
LEMMA RetryKeeps ==
    ASSUME Bounds, DecInv, WorkInv, wk.pc # "idle", NEW row \in Unresolved \cup {Cur.row}, RetryOrDead(row),
           row \notin {"NONE", "CANCELED"}, Cur.row \notin {"NONE", "CANCELED"}
    PROVE  KeepsAll /\ WorkInv'
<1>1. /\ wk.d \in 1..Len(dec) /\ Cur = dec[wk.d] /\ Cur \in Decisions /\ Sound(Cur)
      /\ Cur.st \in Live /\ Cur.att \in 0..MaxAttempts
  BY Current
<1> DEFINE job == IF Cur.att >= MaxAttempts THEN "DEAD" ELSE "READY"
           e   == [Cur EXCEPT !.st = "AMBIGUOUS", !.row = row, !.job = job]
<1>2. dec' = [dec EXCEPT ![wk.d] = e] BY <1>1 DEF RetryOrDead
<1>3. job \in {"DEAD", "READY"} /\ (job = "READY" => Cur.att < MaxAttempts) BY <1>1 DEF Bounds
<1>4. row \in {"FILLED", "SUBMITTING", "UNKNOWN"} BY <1>1 DEF Decisions, Unresolved
<1> HIDE DEF job
<1>5. e \in Decisions
  <2>1. ASSUME NEW c \in Decisions, NEW r \in {"FILLED", "SUBMITTING", "UNKNOWN"},
               NEW j \in {"DEAD", "READY"}
        PROVE  [c EXCEPT !.st = "AMBIGUOUS", !.row = r, !.job = j] \in Decisions
    BY DEF Decisions, Unresolved
  <2> QED BY <1>1, <1>3, <1>4, <2>1
<1>6. /\ e.st = "AMBIGUOUS" /\ e.row = row /\ e.job = job /\ e.cycle = Cur.cycle /\ e.att = Cur.att
      /\ e.ord = Cur.ord /\ e.size = Cur.size /\ e.fill = Cur.fill
  BY <1>1 DEF Decisions
<1> HIDE DEF e
<1>7. Sound(e) BY <1>1, <1>3, <1>6 DEF Sound
<1>8. KeepsAll BY <1>1, <1>2, <1>5, <1>6, <1>7, Update
<1> QED BY <1>8, IdleWork DEF RetryOrDead

(* A job ended with its decision.                                            *)
LEMMA EndKeeps ==
    ASSUME DecInv, WorkInv, wk.pc # "idle",
           NEW job \in {"SKIPPED", "DONE"}, NEW st \in {"FAILED", "PARTIAL", "COMPLETED"},
           EndJob(job, st), st = "FAILED" <=> job = "SKIPPED",
           st = "FAILED" => Cur.row \in {"NONE", "CANCELED"}
    PROVE  KeepsAll /\ WorkInv'
<1>1. /\ wk.d \in 1..Len(dec) /\ Cur = dec[wk.d] /\ Cur \in Decisions /\ Sound(Cur)
      /\ Cur.st \in Live
  BY Current
<1> DEFINE e == [Cur EXCEPT !.job = job, !.st = st]
<1>2. dec' = [dec EXCEPT ![wk.d] = e] BY <1>1 DEF EndJob
<1>3. e \in Decisions
  <2>1. [Cur EXCEPT !.job = job] \in Decisions BY <1>1 DEF Decisions
  <2>2. e = [[Cur EXCEPT !.job = job] EXCEPT !.st = st] OBVIOUS
  <2> QED BY <2>1, <2>2 DEF Decisions
<1>4. /\ e.st = st /\ e.row = Cur.row /\ e.job = job /\ e.cycle = Cur.cycle
      /\ e.ord = Cur.ord /\ e.size = Cur.size /\ e.fill = Cur.fill
  BY <1>1 DEF Decisions
<1> HIDE DEF e
<1>5. Sound(e) BY <1>1, <1>4 DEF Sound
<1>6. KeepsAll BY <1>1, <1>2, <1>3, <1>4, <1>5, Update
<1> QED BY <1>6, IdleWork DEF EndJob

(* An outcome stored in the row: a cancel only of an order that was never    *)
(* sent, or is done and not filled in full.                                  *)
LEMMA ConcludeKeeps ==
    ASSUME DecInv, WorkInv, wk.pc # "idle", NEW row \in {"FILLED", "CANCELED"},
           NEW st \in {Cur.st, "AMBIGUOUS"}, Conclude(row, st), Cur.row # "NONE",
           row = "CANCELED" => Cur.ord \in {"NONE", "DONE"} /\ Cur.fill < Cur.size
    PROVE  KeepsAll /\ WorkInv'
<1>1. /\ wk.d \in 1..Len(dec) /\ Cur = dec[wk.d] /\ Cur \in Decisions /\ Sound(Cur)
      /\ Cur.st \in Live /\ Cur.job = "PROCESSING"
  BY Current
<1>0. st \in Live BY <1>1 DEF Live
<1> DEFINE e == [Cur EXCEPT !.row = row, !.st = st]
<1>2. dec' = [dec EXCEPT ![wk.d] = e] BY <1>1 DEF Conclude
<1>3. e \in Decisions
  <2>1. [Cur EXCEPT !.row = row] \in Decisions BY <1>1 DEF Decisions
  <2>2. e = [[Cur EXCEPT !.row = row] EXCEPT !.st = st] OBVIOUS
  <2> QED BY <1>0, <2>1, <2>2 DEF Decisions, Live
<1>4. /\ e.st = st /\ e.row = row /\ e.job = Cur.job /\ e.cycle = Cur.cycle
      /\ e.ord = Cur.ord /\ e.size = Cur.size /\ e.fill = Cur.fill
  BY <1>1 DEF Decisions
<1> HIDE DEF e
<1>5. Sound(e) BY <1>0, <1>1, <1>4 DEF Sound, Live
<1>6. KeepsAll /\ dec'[wk.d] = e BY <1>1, <1>2, <1>3, <1>4, <1>5, Update
<1>7. CASE row = "FILLED"
  <2>1. wk' = [wk EXCEPT !.pc = "apply"] BY <1>7 DEF Conclude
  <2> QED BY <1>1, <1>4, <1>6, <1>7, <2>1, StepWork
<1>8. CASE row = "CANCELED"
  <2>1. wk' = [wk EXCEPT !.pc = "failed"] BY <1>8 DEF Conclude
  <2> QED BY <1>1, <1>4, <1>6, <1>8, <2>1, StepWork
<1> QED BY <1>6, <1>7, <1>8

(* Every step of the worker keeps the decisions and its own place.           *)
LEMMA WorkerKeeps ==
    ASSUME Bounds, PlaceInv, DecInv, WorkInv, WorkerStep
    PROVE  KeepsAll /\ WorkInv'
<1> USE DEF Bounds
<1>1. ASSUME NEW d \in DOMAIN dec, Claim(d) PROVE KeepsAll /\ WorkInv'
  <2>1. d \in 1..Len(dec) /\ dec[d] \in Decisions /\ Sound(dec[d]) /\ dec[d].job = "READY"
    BY <1>1 DEF DecInv, Claim
  <2>2. dec[d].att + 1 \in 0..MaxAttempts BY <2>1 DEF Sound, Decisions
  <2> DEFINE e == [dec[d] EXCEPT !.job = "PROCESSING", !.att = dec[d].att + 1]
  <2>3. dec' = [dec EXCEPT ![d] = e] BY <1>1 DEF Claim
  <2>4. e \in Decisions BY <2>1, <2>2 DEF Decisions
  <2>5. /\ e.st = dec[d].st /\ e.row = dec[d].row /\ e.job = "PROCESSING" /\ e.cycle = dec[d].cycle
        /\ e.ord = dec[d].ord /\ e.size = dec[d].size /\ e.fill = dec[d].fill
    BY <2>1 DEF Decisions
  <2> HIDE DEF e
  <2>6. Sound(e) BY <2>1, <2>5 DEF Sound
  <2>7. KeepsAll /\ dec'[d] = e BY <2>1, <2>3, <2>4, <2>5, <2>6, Update
  <2>8. wk' = [pc |-> "claimed", d |-> d] /\ d \in Nat BY <1>1, <2>1 DEF Claim
  <2> QED BY <2>1, <2>5, <2>7, <2>8 DEF WorkInv, KeepsAll
<1>2. CASE Refuse
  <2>1. wk.pc # "idle" /\ Cur.row = "NONE" /\ EndJob("SKIPPED", "FAILED") BY <1>2 DEF Refuse
  <2> QED BY <2>1, EndKeeps
<1>3. CASE InsertRow
  <2>1. wk.pc # "idle" /\ Cur.row = "NONE" /\ fpos # 0 BY <1>3 DEF InsertRow, Admissible
  <2>2. /\ wk.d \in 1..Len(dec) /\ Cur = dec[wk.d] /\ Cur \in Decisions /\ Sound(Cur)
        /\ Cur.job = "PROCESSING" /\ Cur.st \in Live
    BY <2>1, Current
  <2>3. Abs(fpos) \in Nat /\ Abs(fpos) > 0 /\ ledger \in Int BY <2>1 DEF PlaceInv, Abs
  <2> DEFINE e == [Cur EXCEPT !.row = "SUBMITTING", !.size = Abs(fpos), !.base = ledger]
  <2>4. dec' = [dec EXCEPT ![wk.d] = e] BY <1>3, <2>2 DEF InsertRow
  <2>5. e \in Decisions BY <2>2, <2>3 DEF Decisions, Unresolved
  <2>6. /\ e.st = Cur.st /\ e.row = "SUBMITTING" /\ e.job = Cur.job /\ e.cycle = Cur.cycle
        /\ e.ord = Cur.ord /\ e.size = Abs(fpos) /\ e.fill = Cur.fill
    BY <2>2 DEF Decisions
  <2> HIDE DEF e
  <2>7. Sound(e)
    <3>1. Cur.ord = "NONE" /\ Cur.fill = 0 BY <2>1, <2>2 DEF Sound
    <3> QED BY <2>2, <2>3, <2>6, <3>1 DEF Sound, Live
  <2>8. KeepsAll /\ dec'[wk.d] = e BY <2>2, <2>4, <2>5, <2>6, <2>7, Update
  <2>9. e.ord = "NONE" BY <2>1, <2>2, <2>6 DEF Sound
  <2>10. wk' = [wk EXCEPT !.pc = "revalidate"] BY <1>3 DEF InsertRow
  <2> QED BY <2>1, <2>2, <2>6, <2>8, <2>9, <2>10, StepWork
<1>4. CASE SubmitFails \/ AnswerLost
  <2>1. wk.pc # "idle" /\ RetryOrDead("UNKNOWN") BY <1>4 DEF SubmitFails, AnswerLost
  <2>2. Cur.row = "SUBMITTING" BY <1>4 DEF SubmitFails, AnswerLost, WorkInv, Cur
  <2> QED BY <2>1, <2>2, RetryKeeps DEF Unresolved
<1>5. CASE Revalidate
  <2>1. wk.pc = "revalidate" /\ wk' = [wk EXCEPT !.pc = "post"] /\ dec' = dec BY <1>5 DEF Revalidate
  <2>2. KeepsAll BY <2>1, SameDecisions
  <2>3. dec[wk.d].row = "SUBMITTING" /\ dec[wk.d].ord = "NONE" /\ dec[wk.d].job = "PROCESSING"
    BY <2>1 DEF WorkInv
  <2> QED BY <2>1, <2>2, <2>3, StepWork
<1>6. CASE Post
  <2>1. wk.pc = "post" /\ wk' = [wk EXCEPT !.pc = "await"] /\ wk.pc # "idle" BY <1>6 DEF Post
  <2>2. /\ wk.d \in 1..Len(dec) /\ Cur = dec[wk.d] /\ Cur \in Decisions /\ Sound(Cur)
        /\ Cur.job = "PROCESSING" /\ Cur.st \in Live
    BY <2>1, Current
  <2>3. Cur.row = "SUBMITTING" /\ Cur.ord = "NONE" BY <2>1 DEF WorkInv, Cur
  <2> DEFINE e == [Cur EXCEPT !.ord = "SENT"]
  <2>4. dec' = [dec EXCEPT ![wk.d] = e] BY <1>6, <2>2 DEF Post
  <2>5. e \in Decisions BY <2>2 DEF Decisions
  <2>6. /\ e.st = Cur.st /\ e.row = Cur.row /\ e.job = Cur.job /\ e.cycle = Cur.cycle
        /\ e.ord = "SENT" /\ e.size = Cur.size /\ e.fill = Cur.fill
    BY <2>2 DEF Decisions
  <2> HIDE DEF e
  <2>7. Sound(e) BY <2>2, <2>3, <2>6 DEF Sound, Live
  <2>8. KeepsAll /\ dec'[wk.d] = e BY <2>2, <2>4, <2>5, <2>6, <2>7, Update
  <2> QED BY <2>1, <2>2, <2>3, <2>6, <2>8, StepWork
<1>7. CASE Answer
  <2>1. wk.pc = "await" /\ Cur.ord = "DONE" BY <1>7 DEF Answer
  <2>2. Cur.row = "SUBMITTING" /\ Cur \in Decisions /\ Sound(Cur) BY <2>1, Current DEF WorkInv, Cur
  <2>3. CASE Cur.fill > 0
    <3>1. Conclude("FILLED", Cur.st) BY <1>7, <2>3 DEF Answer
    <3> QED BY <2>1, <2>2, <3>1, ConcludeKeeps
  <2>4. CASE ~(Cur.fill > 0)
    <3>1. Conclude("CANCELED", Cur.st) BY <1>7, <2>4 DEF Answer
    <3>2. Cur.fill < Cur.size BY <2>2, <2>4 DEF Sound, Decisions
    <3> QED BY <2>1, <2>2, <3>1, <3>2, ConcludeKeeps
  <2> QED BY <2>3, <2>4
<1>8. CASE RecoverUnknown
  <2>1. wk.pc # "idle" /\ Cur.row \in Unresolved /\ RetryOrDead(Cur.row) BY <1>8 DEF RecoverUnknown
  <2> QED BY <2>1, RetryKeeps DEF Unresolved
<1>9. CASE RecoverQueried
  <2>1. wk.pc # "idle" /\ Cur.row \in Unresolved BY <1>9 DEF RecoverQueried
  <2>2. Cur \in Decisions /\ Sound(Cur) BY <2>1, Current
  <2>3. PICK row \in {"FILLED", "CANCELED"} :
           Conclude(row, "AMBIGUOUS") /\ Cur.ord = "DONE" /\ (row = "CANCELED" => Cur.fill # Cur.size)
    BY <1>9 DEF RecoverQueried, Queried
  <2>4. row = "CANCELED" => Cur.fill < Cur.size BY <2>2, <2>3 DEF Sound, Decisions
  <2> QED BY <2>1, <2>3, <2>4, ConcludeKeeps DEF Unresolved
<1>10. CASE RecoverStored
  <2>1. wk.pc # "idle" /\ Cur.row \in {"FILLED", "CANCELED"} /\ Conclude(Cur.row, Cur.st)
    BY <1>10 DEF RecoverStored
  <2>2. Sound(Cur) BY <2>1, Current
  <2>3. Cur.row = "CANCELED" => Cur.ord \in {"NONE", "DONE"} /\ Cur.fill < Cur.size BY <2>2 DEF Sound
  <2> QED BY <2>1, <2>3, ConcludeKeeps
<1>11. CASE NotFilled
  <2>1. wk.pc = "failed" /\ EndJob("SKIPPED", "FAILED") BY <1>11 DEF NotFilled
  <2>2. Cur.row = "CANCELED" BY <2>1 DEF WorkInv, Cur
  <2> QED BY <2>1, <2>2, EndKeeps
<1>12. CASE Apply
  <2>1. wk.pc = "apply" /\ wk' = [wk EXCEPT !.pc = "finish"] BY <1>12 DEF Apply
  <2>2. /\ wk.d \in 1..Len(dec) /\ Cur = dec[wk.d] /\ Cur \in Decisions /\ Sound(Cur)
        /\ Cur.job = "PROCESSING" /\ Cur.st \in Live
    BY <2>1, Current
  <2> DEFINE e == [Cur EXCEPT !.applied = TRUE]
  <2>3. dec' = [dec EXCEPT ![wk.d] = e] BY <1>12, <2>2 DEF Apply
  <2>4. e \in Decisions BY <2>2 DEF Decisions
  <2>5. /\ e.st = Cur.st /\ e.row = Cur.row /\ e.job = Cur.job /\ e.cycle = Cur.cycle
        /\ e.ord = Cur.ord /\ e.size = Cur.size /\ e.fill = Cur.fill
    BY <2>2 DEF Decisions
  <2> HIDE DEF e
  <2>6. Sound(e) BY <2>2, <2>5 DEF Sound, Live
  <2>7. KeepsAll /\ dec'[wk.d] = e BY <2>2, <2>3, <2>4, <2>5, <2>6, Update
  <2> QED BY <2>1, <2>2, <2>5, <2>7, StepWork
<1>13. CASE ApplyDeferred
  <2>1. wk.pc = "apply" /\ RetryOrDead(Cur.row) BY <1>13 DEF ApplyDeferred
  <2>2. Cur.row = "FILLED" BY <2>1 DEF WorkInv, Cur
  <2> QED BY <2>1, <2>2, RetryKeeps
<1>14. CASE FinishExit
  <2>1. PICK st \in {"PARTIAL", "COMPLETED"} : wk.pc = "finish" /\ EndJob("DONE", st)
    BY <1>14 DEF FinishExit
  <2> QED BY <2>1, EndKeeps
<1>15. CASE RevalidateFails \/ WriterFenced
  <2>1. wk.pc \in {"revalidate", "post"} /\ Conclude("CANCELED", Cur.st)
    BY <1>15 DEF RevalidateFails, WriterFenced
  <2>2. Cur.row = "SUBMITTING" /\ Cur.ord = "NONE" BY <2>1 DEF WorkInv, Cur
  <2>3. Cur.fill < Cur.size BY <2>1, <2>2, Current DEF Sound, Decisions
  <2> QED BY <2>1, <2>2, <2>3, ConcludeKeeps
<1> QED BY <1>1, <1>2, <1>3, <1>4, <1>5, <1>6, <1>7, <1>8, <1>9, <1>10, <1>11, <1>12, <1>13, <1>14, <1>15
        DEF WorkerStep

(* What the resolver, the exchange and an expired lease do to a decision.    *)
LEMMA OthersKeep ==
    ASSUME Bounds, DecInv, WorkInv, NEW d \in 1..Len(dec), Resolve(d) \/ Land(d) \/ ReleaseStale(d)
    PROVE  KeepsAll /\ WorkInv'
<1>1. dec[d] \in Decisions /\ Sound(dec[d]) BY DEF DecInv
<1>2. dec[d].att \in Nat /\ dec[d].size \in Nat /\ dec[d].fill \in Nat BY <1>1 DEF Decisions
<1>3. CASE Resolve(d)
  <2>1. PICK row \in {"FILLED", "CANCELED"} :
           /\ dec' = [dec EXCEPT ![d] = [dec[d] EXCEPT !.row = row, !.applied = (row = "FILLED")]]
           /\ dec[d].ord = "DONE" /\ (row = "CANCELED" => dec[d].fill # dec[d].size)
    BY <1>3 DEF Resolve, Queried
  <2>2. wk.pc = "idle" /\ wk' = wk /\ dec[d].row \in Unresolved BY <1>3 DEF Resolve
  <2> DEFINE e == [dec[d] EXCEPT !.row = row, !.applied = (row = "FILLED")]
  <2>3. e \in Decisions BY <1>1 DEF Decisions
  <2>4. /\ e.st = dec[d].st /\ e.row = row /\ e.job = dec[d].job /\ e.cycle = dec[d].cycle
        /\ e.ord = dec[d].ord /\ e.size = dec[d].size /\ e.fill = dec[d].fill /\ e.att = dec[d].att
    BY <1>1 DEF Decisions
  <2> HIDE DEF e
  <2>5. Sound(e)
    <3>1. row = "CANCELED" => dec[d].fill < dec[d].size BY <1>1, <1>2, <2>1 DEF Sound
    <3>2. dec[d].row \notin {"NONE", "CANCELED"} BY <2>2 DEF Unresolved
    <3> QED BY <1>1, <2>1, <2>4, <3>1, <3>2 DEF Sound
  <2>6. KeepsAll BY <1>1, <2>1, <2>3, <2>4, <2>5, Update DEF e
  <2> QED BY <2>2, <2>6 DEF WorkInv
<1>4. CASE Land(d)
  <2>1. PICK n \in 0..dec[d].size : dec' = [dec EXCEPT ![d] = [dec[d] EXCEPT !.ord = "DONE", !.fill = n]]
    BY <1>4 DEF Land
  <2>2. dec[d].ord = "SENT" /\ wk' = wk BY <1>4 DEF Land
  <2> DEFINE e == [dec[d] EXCEPT !.ord = "DONE", !.fill = n]
  <2>3. n \in Nat /\ n <= dec[d].size BY <1>2
  <2>4. e \in Decisions BY <1>1, <2>3 DEF Decisions
  <2>5. /\ e.st = dec[d].st /\ e.row = dec[d].row /\ e.job = dec[d].job /\ e.cycle = dec[d].cycle
        /\ e.ord = "DONE" /\ e.size = dec[d].size /\ e.fill = n /\ e.att = dec[d].att
    BY <1>1 DEF Decisions
  <2> HIDE DEF e
  <2>6. Sound(e)
    <3>1. dec[d].row \notin {"NONE", "CANCELED"} BY <1>1, <2>2 DEF Sound
    <3> QED BY <1>1, <2>3, <2>5, <3>1 DEF Sound
  <2>7. KeepsAll /\ dec'[d] = e /\ \A c \in 1..Len(dec) \ {d} : dec'[c] = dec[c]
    BY <1>1, <2>1, <2>4, <2>5, <2>6, Update DEF e
  <2>8. \A c \in 1..Len(dec) :
           /\ dec'[c].job = dec[c].job /\ dec'[c].row = dec[c].row
           /\ dec[c].ord = "NONE" => dec'[c].ord = "NONE"
    BY <2>2, <2>5, <2>7
  <2> QED BY <2>2, <2>7, <2>8 DEF WorkInv, KeepsAll
<1>5. CASE ReleaseStale(d)
  <2> DEFINE job == IF dec[d].att < MaxAttempts THEN "READY" ELSE "DEAD"
             e   == [dec[d] EXCEPT !.job = job]
  <2>1. dec' = [dec EXCEPT ![d] = e] /\ wk' = wk /\ wk.d # d /\ dec[d].job = "PROCESSING"
    BY <1>5 DEF ReleaseStale
  <2>2. job \in {"READY", "DEAD"} /\ (job = "READY" => dec[d].att < MaxAttempts) OBVIOUS
  <2> HIDE DEF job
  <2>3. e \in Decisions
    <3>1. ASSUME NEW c \in Decisions, NEW j \in {"READY", "DEAD"}
          PROVE  [c EXCEPT !.job = j] \in Decisions
      BY DEF Decisions
    <3> QED BY <1>1, <2>2, <3>1
  <2>4. /\ e.st = dec[d].st /\ e.row = dec[d].row /\ e.job = job /\ e.cycle = dec[d].cycle
        /\ e.ord = dec[d].ord /\ e.size = dec[d].size /\ e.fill = dec[d].fill /\ e.att = dec[d].att
    BY <1>1 DEF Decisions
  <2> HIDE DEF e
  <2>5. Sound(e) BY <1>1, <2>1, <2>2, <2>4 DEF Sound
  <2>6. KeepsAll /\ \A c \in 1..Len(dec) \ {d} : dec'[c] = dec[c]
    BY <1>1, <2>1, <2>3, <2>4, <2>5, Update
  <2> QED BY <2>1, <2>6 DEF WorkInv, KeepsAll
<1> QED BY <1>3, <1>4, <1>5

(* The reconciliation marks stored fills as applied.                         *)
LEMMA SyncKeeps ==
    ASSUME DecInv, WorkInv, RcCommit
    PROVE  KeepsAll /\ WorkInv'
<1>1. DOMAIN dec = 1..Len(dec) /\ Len(dec) \in Nat /\ \A d \in 1..Len(dec) : dec[d] \in Decisions /\ Sound(dec[d])
  BY DEF DecInv
<1>2. dec' = [d \in 1..Len(dec) |-> Synced(dec[d])] BY <1>1 DEF RcCommit
<1>3. ASSUME NEW e \in Decisions
      PROVE  /\ Synced(e) \in Decisions /\ Synced(e).cycle = e.cycle /\ Synced(e).st = e.st
             /\ Sound(e) => Sound(Synced(e))
  <2> DEFINE b == (e.row = "FILLED") \/ e.applied
             f == [e EXCEPT !.applied = b]
  <2>1. Synced(e) = f BY DEF Synced
  <2>2. b \in BOOLEAN OBVIOUS
  <2> HIDE DEF b
  <2>3. f \in Decisions BY <2>2 DEF Decisions
  <2>4. /\ f.st = e.st /\ f.row = e.row /\ f.job = e.job /\ f.cycle = e.cycle
        /\ f.ord = e.ord /\ f.size = e.size /\ f.fill = e.fill /\ f.att = e.att
    BY DEF Decisions
  <2> QED BY <2>1, <2>3, <2>4 DEF Sound
<1>4. \A d \in 1..Len(dec) : dec'[d] = Synced(dec[d]) BY <1>2
<1>5. dec' \in Seq(Decisions) /\ Len(dec') = Len(dec)
  <2>1. dec' \in [1..Len(dec) -> Decisions] BY <1>1, <1>2, <1>3
  <2> QED BY <1>1, <2>1
<1>6. KeepsAll BY <1>1, <1>3, <1>4, <1>5 DEF KeepsAll, Kept
<1> QED BY <1>6 DEF WorkInv, RcCommit

(* A new decision joins the others.                                          *)
LEMMA CommitAdds ==
    ASSUME Bounds, LogInv, DecInv, WorkInv, EvalInv, EvCommit
    PROVE  /\ \E e \in Decisions : dec' = Append(dec, e) /\ Sound(e) /\ e.cycle = ev.cycle
           /\ WorkInv'
<1> USE DEF Bounds
<1>1. ev.pc = "decide" /\ ev.cycle \in Named /\ ev.pos # 0 /\ ev.pos \in Int BY DEF EvCommit, EvalInv
<1>2. ev.cycle \in 1..MaxMoves
  <2>1. PICK k \in 1..Len(log) : ev.cycle = log[k] BY <1>1 DEF Named
  <2>2. k <= log[k] /\ log[k] <= Len(moves) /\ Len(moves) <= MaxMoves BY DEF LogInv
  <2>3. log[k] \in Nat /\ Len(moves) \in Nat /\ k \in Nat /\ 1 <= k BY DEF LogInv
  <2> QED BY <2>1, <2>2, <2>3
<1>3. Sign(ev.pos) \in {-1, 1} BY <1>1 DEF Sign
<1> DEFINE e == [cycle |-> ev.cycle, side |-> Sign(ev.pos), st |-> "PENDING",
                 job |-> "READY", att |-> 0, row |-> "NONE",
                 size |-> 0, base |-> 0, applied |-> FALSE, ord |-> "NONE", fill |-> 0]
<1>4. dec' = Append(dec, e) BY DEF EvCommit
<1>5. e \in Decisions
  <2>1. 0 \in 0..MaxAttempts /\ 0 \in Nat /\ 0 \in Int OBVIOUS
  <2> QED BY <1>2, <1>3, <2>1 DEF Decisions
<1>6. Sound(e) BY DEF Sound
<1>7. WorkInv'
  <2>1. Len(dec') = Len(dec) + 1 /\ \A d \in 1..Len(dec) : dec'[d] = dec[d] BY <1>4, <1>5 DEF DecInv
  <2>2. wk' = wk /\ Len(dec) \in Nat BY DEF EvCommit, DecInv
  <2> QED BY <2>1, <2>2 DEF WorkInv
<1> QED BY <1>4, <1>5, <1>6, <1>7

(* Every step keeps the decisions or adds one, and the worker's place.       *)
LEMMA StepKeeps ==
    ASSUME Bounds, Inv, [Next]_vars
    PROVE  (KeepsAll \/ EvCommit) /\ WorkInv'
<1>0. DOMAIN dec = 1..Len(dec) BY DEF Inv, DecInv
<1>1. CASE WorkerStep BY <1>1, WorkerKeeps DEF Inv
<1>2. CASE Release \/ \E d \in DOMAIN dec : Resolve(d) \/ Land(d)
  BY <1>0, <1>2, OthersKeep DEF Inv, Release
<1>3. CASE RcCommit BY <1>3, SyncKeeps DEF Inv
<1>4. CASE EvCommit BY <1>4, CommitAdds DEF Inv
<1>5. CASE WorkerCrash
  <2>1. UNCHANGED dec /\ wk' = NoWork BY <1>5 DEF WorkerCrash
  <2> QED BY <2>1, SameDecisions, IdleWork DEF Inv
<1>6. CASE \/ MasterMove \/ PersistMove \/ EventJob \/ RcJob \/ EvRead \/ EvAbstain
           \/ SetMode \/ SetCopyState \/ UNCHANGED vars
  <2>1. UNCHANGED <<dec, wk>>
    BY <1>6 DEF MasterMove, PersistMove, EventJob, RcJob, EvRead, EvAbstain, SetMode, SetCopyState, vars
  <2> QED BY <2>1, SameDecisions DEF Inv, WorkInv
<1> QED BY <1>1, <1>2, <1>3, <1>4, <1>5, <1>6 DEF Next

(* Decisions stay sound and in cycles the log names.                         *)
LEMMA DecStays == ASSUME Bounds, Inv, [Next]_vars PROVE DecInv'
<1>0. Len(dec) \in Nat /\ \A d \in 1..Len(dec) : Sound(dec[d]) /\ dec[d].cycle \in Named
  BY DEF Inv, DecInv
<1>1. Named \subseteq Named' BY LogStays DEF Inv
<1>2. CASE KeepsAll
  <2>1. \A d \in 1..Len(dec) : dec'[d].cycle \in Named
    BY <1>0, <1>2 DEF KeepsAll, Kept
  <2>2. \A d \in 1..Len(dec) : Sound(dec'[d]) BY <1>2 DEF KeepsAll, Kept
  <2>3. \A d \in 1..Len(dec') : dec'[d].cycle \in Named' BY <1>1, <1>2, <2>1 DEF KeepsAll
  <2> QED BY <1>2, <2>2, <2>3 DEF DecInv, KeepsAll
<1>3. CASE EvCommit
  <2>1. PICK e \in Decisions : dec' = Append(dec, e) /\ Sound(e) /\ e.cycle = ev.cycle
    BY <1>3, CommitAdds DEF Inv
  <2>2. /\ dec' \in Seq(Decisions) /\ Len(dec') = Len(dec) + 1 /\ dec'[Len(dec) + 1] = e
        /\ \A d \in 1..Len(dec) : dec'[d] = dec[d]
    BY <2>1 DEF Inv, DecInv
  <2>3. ev.cycle \in Named BY <1>3 DEF EvCommit, Inv, EvalInv
  <2>4. \A d \in 1..Len(dec') : Sound(dec'[d]) /\ dec'[d].cycle \in Named
    <3> TAKE d \in 1..Len(dec')
    <3>1. CASE d = Len(dec) + 1 BY <2>1, <2>2, <2>3, <3>1
    <3>2. CASE d \in 1..Len(dec) BY <1>0, <2>2, <3>2
    <3> QED BY <1>0, <2>2, <3>1, <3>2
  <2>5. \A d \in 1..Len(dec') : dec'[d].cycle \in Named' BY <1>1, <2>4
  <2> QED BY <2>2, <2>4, <2>5 DEF DecInv
<1> QED BY <1>2, <1>3, StepKeeps

(* Live exits of a cycle stay alone.                                         *)
LEMMA AloneStays == ASSUME Bounds, Inv, [Next]_vars PROVE AloneInv'
<1>1. CASE KeepsAll
  <2>1. \A d \in 1..Len(dec) : dec'[d].cycle = dec[d].cycle /\ (dec'[d].st \in Live => dec[d].st \in Live)
    BY <1>1 DEF KeepsAll, Kept
  <2> QED BY <1>1, <2>1 DEF AloneInv, Inv, KeepsAll
<1>2. CASE EvCommit
  <2>1. PICK e \in Decisions : dec' = Append(dec, e) /\ Sound(e) /\ e.cycle = ev.cycle
    BY <1>2, CommitAdds DEF Inv
  <2>2. /\ Len(dec') = Len(dec) + 1 /\ dec'[Len(dec) + 1] = e /\ Len(dec) \in Nat
        /\ \A d \in 1..Len(dec) : dec'[d] = dec[d]
    BY <2>1 DEF Inv, DecInv
  <2>3. \A d \in 1..Len(dec) : dec[d].cycle = ev.cycle => dec[d].st \notin Live
    BY <1>2 DEF EvCommit, Inv, EvalInv, Live
  <2> SUFFICES ASSUME NEW c \in 1..Len(dec'), NEW d \in 1..Len(dec'), c # d,
                      dec'[c].cycle = dec'[d].cycle
               PROVE  ~(dec'[c].st \in Live /\ dec'[d].st \in Live)
    BY DEF AloneInv
  <2>4. CASE c = Len(dec) + 1 /\ d \in 1..Len(dec) BY <2>1, <2>2, <2>3, <2>4
  <2>5. CASE d = Len(dec) + 1 /\ c \in 1..Len(dec) BY <2>1, <2>2, <2>3, <2>5
  <2>6. CASE c \in 1..Len(dec) /\ d \in 1..Len(dec) BY <2>2, <2>6 DEF Inv, AloneInv
  <2> QED BY <2>2, <2>4, <2>5, <2>6
<1> QED BY <1>1, <1>2, StepKeeps

(* The evaluator reads a cycle all of whose exits are over; they stay so.    *)
LEMMA EvalStays == ASSUME Bounds, Inv, [Next]_vars PROVE EvalInv'
<1>1. CASE ev' = NoEval BY <1>1 DEF EvalInv, NoEval
<1>2. CASE EvRead
  <2> DEFINE c == SourceCycle(Len(log), MasterPosition)
  <2>1. c # 0 /\ MayEvaluate(c) /\ ev' = [pc |-> "decide", cycle |-> c, pos |-> fpos] /\ fpos # 0
        /\ UNCHANGED <<moves, log, dec>>
    BY <1>2 DEF EvRead
  <2>2. Len(log) \in 0..Len(log) BY DEF Inv, LogInv
  <2>3. PICK k \in 1..Len(log) : c = log[k] /\ Starts(moves[log[k]]) BY <2>1, <2>2, SourceNames DEF Inv
  <2>4. c \in Named /\ c \in Nat BY <2>3 DEF Named, Inv, LogInv
  <2> HIDE DEF c
  <2>5. DOMAIN dec = 1..Len(dec) /\ \A d \in 1..Len(dec) : dec[d] \in Decisions BY DEF Inv, DecInv
  <2>6. \A d \in 1..Len(dec) : dec[d].cycle = c => dec[d].st \in {"PARTIAL", "FAILED"}
    BY <2>1, <2>5 DEF MayEvaluate, Decisions
  <2>7. c \in Named' BY <2>1, <2>4 DEF Named, Starts
  <2>8. fpos \in Int BY DEF Inv, PlaceInv
  <2> QED BY <2>1, <2>4, <2>6, <2>7, <2>8 DEF EvalInv
<1>3. CASE UNCHANGED ev /\ KeepsAll
  <2>1. \A d \in 1..Len(dec) : /\ dec'[d].cycle = dec[d].cycle
                               /\ dec[d].st \in {"PARTIAL", "FAILED"} => dec'[d].st = dec[d].st
    BY <1>3 DEF KeepsAll, Kept, Live
  <2>2. ev.pc = "decide" => ev.cycle \in Named'
    BY LogStays DEF Inv, EvalInv
  <2> QED BY <1>3, <2>1, <2>2 DEF EvalInv, Inv, KeepsAll
<1>4. CASE EvAbstain \/ EvCommit BY <1>1, <1>4 DEF EvAbstain, EvCommit
<1>5. CASE ~(EvRead \/ EvAbstain \/ EvCommit)
  <2>1. UNCHANGED ev
    BY <1>5 DEF Next, MasterMove, PersistMove, EventJob, RcCommit, RcJob, WorkerStep, Release, ReleaseStale,
        Resolve, Land, SetMode, SetCopyState, WorkerCrash, vars, Busy, Claim, Refuse, InsertRow,
        RevalidateFails, WriterFenced, SubmitFails, Revalidate, Post, AnswerLost, Answer, Conclude,
        RecoverUnknown, RecoverQueried,
        RecoverStored, NotFilled, Apply, ApplyDeferred, FinishExit
  <2> QED BY <1>3, <1>5, <2>1, StepKeeps
<1> QED BY <1>2, <1>4, <1>5

(* The boundary of a reconciliation stays behind its snapshot.               *)
LEMMA RunStays == ASSUME Bounds, Inv, [Next]_vars PROVE RunInv'
<1>0. Len(log) \in Nat /\ Len(moves) \in Nat BY DEF Inv, LogInv
<1>1. CASE UNCHANGED rc
  <2>1. Len(log) <= Len(log') /\ Len(moves) <= Len(moves') /\ \A k \in 1..Len(log) : log'[k] = log[k]
        /\ Len(log') \in Nat /\ Len(moves') \in Nat
    BY LogStays DEF Inv, LogInv
  <2>2. rc.bound \in Nat /\ rc.at \in Nat BY DEF Inv, RunInv
  <2>3. CASE rc.pc = "job"
    <3>1. rc.bound <= Len(log) /\ rc.at <= Len(moves) /\ \A k \in 1..rc.bound : log[k] <= rc.at
      BY <2>3 DEF Inv, RunInv
    <3>2. \A k \in 1..rc.bound : log'[k] <= rc.at BY <1>0, <2>1, <2>2, <3>1
    <3> QED BY <1>0, <1>1, <2>1, <2>2, <3>1, <3>2 DEF Inv, RunInv
  <2>4. CASE rc.pc # "job" BY <1>1, <2>4 DEF Inv, RunInv
  <2> QED BY <2>3, <2>4
<1>2. CASE rc' = NoRun BY <1>2 DEF NoRun, RunInv
<1>3. CASE RcCommit /\ ~UNCHANGED rc
  <2>1. rc' = [pc |-> "job", bound |-> Len(log), at |-> Len(moves)] /\ UNCHANGED <<moves, log>>
    BY <1>3 DEF RcCommit
  <2>2. \A k \in 1..Len(log) : log[k] <= Len(moves) BY DEF Inv, LogInv
  <2> QED BY <1>0, <2>1, <2>2 DEF RunInv
<1>4. CASE RcJob BY <1>2, <1>4 DEF RcJob
<1>5. CASE ~(RcCommit \/ RcJob)
  BY <1>1, <1>5 DEF Next, MasterMove, PersistMove, EventJob, EvRead, EvAbstain, EvCommit, WorkerStep,
        Release, ReleaseStale,
        Resolve, Land, SetMode, SetCopyState, WorkerCrash, vars, Busy, Claim, Refuse, InsertRow,
        RevalidateFails, WriterFenced, SubmitFails, Revalidate, Post, AnswerLost, Answer, Conclude,
        RecoverUnknown, RecoverQueried,
        RecoverStored, NotFilled, Apply, ApplyDeferred, FinishExit
<1> QED BY <1>1, <1>3, <1>4, <1>5

-----------------------------------------------------------------------------
(* The fence *)

(* An order leads to a whole position.                                       *)
LEMMA TradedWhole ==
    ASSUME fpos \in Int, ledger \in Int, NEW t \in Int
    PROVE  Traded(t) \in Int
<1>1. Abs(ledger) \in Int /\ Abs(t) \in Int /\ Abs(fpos) \in Int BY DEF Abs
<1>2. ASSUME NEW n \in Int PROVE Reduced(fpos, n) \in Int
  <2>1. CASE fpos > 0 BY <2>1 DEF Reduced, Sign, Abs
  <2>2. CASE fpos < 0 BY <2>2 DEF Reduced, Sign, Abs
  <2>3. CASE fpos = 0 BY <2>3 DEF Reduced, Sign, Abs
  <2> QED BY <2>1, <2>2, <2>3
<1>3. Reduced(fpos, Abs(ledger) - Abs(t)) \in Int BY <1>1, <1>2
<1> QED BY <1>3 DEF Traded

(* An executed exit is remembered.                                           *)
LEMMA ExecutedRemembered ==
    ASSUME DecInv, NEW d \in 1..Len(dec), Executed(d)
    PROVE  dec[d].st \in Operational
<1>1. dec[d] \in Decisions /\ Sound(dec[d]) /\ dec[d].fill > 0 /\ dec[d].row # "CANCELED"
  BY DEF DecInv, Executed
<1>2. dec[d].st # "FAILED" BY <1>1 DEF Sound, Decisions
<1> QED BY <1>1, <1>2 DEF Decisions, Operational

(* The fence lets exposure grow only in a proven cycle that no executed exit *)
(* has left.                                                                 *)
LEMMA FenceHolds ==
    ASSUME Bounds, LogInv, DecInv, PlaceInv, NEW i \in 0..Len(moves),
           \A k \in 1..Len(log) : log[k] <= i, Retarget(Len(log), i), UNCHANGED dec
    PROVE  /\ fpos' \in Int /\ ledger' \in Int
           /\ entry'.exits \subseteq 1..Len(dec) /\ NoReopen'
<1> DEFINE target == PositionAt(i)
           c == SourceCycle(Len(log), target)
           p == Traded(target)
<1>0. fpos \in Int /\ ledger \in Int BY DEF PlaceInv
<1>1. target \in Int
  <2>1. CASE i = 0 BY <2>1 DEF PositionAt
  <2>2. CASE i # 0
    <3>1. moves[i] \in Fills BY <2>2 DEF LogInv
    <3> QED BY <2>2, <3>1 DEF PositionAt, Fills, Bounds
  <2> QED BY <2>1, <2>2
<1>2. p \in Int BY <1>0, <1>1, TradedWhole
<1>3. fpos' \in Int /\ ledger' \in Int BY <1>0, <1>2 DEF Retarget
<1>4. CASE UNCHANGED entry BY <1>3, <1>4 DEF PlaceInv, NoReopen
<1>5. CASE ~UNCHANGED entry
  <2>1. /\ ~(target # 0 /\ Remembers(c)) /\ Grows(p)
        /\ entry' = [cycle |-> TrueCycle(i), proven |-> c # 0, exits |-> {d \in DOMAIN dec : Executed(d)}]
    BY <1>5 DEF Retarget
  <2>2. target # 0 BY <1>0, <2>1, ClosingShrinks
  <2>3. DOMAIN dec = 1..Len(dec) /\ \A d \in 1..Len(dec) : dec[d].cycle \in Named BY DEF DecInv
  <2>4. ASSUME NEW d \in 1..Len(dec), Executed(d)
        PROVE  c # 0 /\ dec[d].cycle # TrueCycle(i)
    <3>1. dec[d].st \in Operational BY <2>4, ExecutedRemembered
    <3>2. c # 0 /\ dec[d].cycle # c BY <2>1, <2>2, <2>3, <3>1 DEF Remembers
    <3>3. PICK k \in 1..Len(log) : log[k] = dec[d].cycle /\ Starts(moves[log[k]]) BY <2>3 DEF Named
    <3>4. Len(log) \in 0..Len(log) BY DEF LogInv
    <3>5. PICK q \in 1..Len(log) :
             /\ c = log[q] /\ Starts(moves[log[q]])
             /\ \A l \in 1..Len(log) : Starts(moves[log[l]]) => l <= q
      BY <3>2, <3>4, SourceNames
    <3> HIDE DEF c, target
    <3>6. k < q BY <3>2, <3>3, <3>5
    <3>7. log[k] < log[q] /\ log[q] \in 1..i BY <3>6 DEF LogInv
    <3>8. TrueCycle(i) \in Nat /\ TrueCycle(i) >= log[q]
      BY <2>2, <3>5, <3>7, TrueNewest DEF target
    <3>9. log[k] \in Nat /\ log[q] \in Nat BY DEF LogInv
    <3> QED BY <3>2, <3>3, <3>7, <3>8, <3>9
  <2> HIDE DEF c
  <2>5. entry'.exits \subseteq 1..Len(dec) BY <2>1, <2>3
  <2>6. NoReopen' BY <2>1, <2>3, <2>4 DEF NoReopen
  <2> QED BY <1>3, <2>5, <2>6
<1> QED BY <1>4, <1>5

(* Positions stay whole, and no exit is reopened.                            *)
LEMMA PlaceStays == ASSUME Bounds, Inv, [Next]_vars PROVE PlaceInv'
<1>0. /\ mode \in {"ON", "OFF"} /\ copy \in {"ACTIVE", "PAUSED"} /\ fpos \in Int /\ ledger \in Int
      /\ entry.exits \subseteq 1..Len(dec) /\ NoReopen
  BY DEF Inv, PlaceInv
<1>a. /\ DOMAIN dec = 1..Len(dec) /\ Len(dec) \in Nat /\ Len(log) \in Nat /\ Len(moves) \in Nat
      /\ \A d \in 1..Len(dec) : dec[d].side \in {-1, 1} /\ dec[d].size \in Nat /\ dec[d].fill \in Nat
  <2>1. \A d \in 1..Len(dec) : dec[d] \in Decisions BY DEF Inv, DecInv
  <2>2. \A d \in 1..Len(dec) : dec[d].side \in {-1, 1} /\ dec[d].size \in Nat /\ dec[d].fill \in Nat
    BY <2>1 DEF Decisions
  <2> QED BY <2>2 DEF Inv, DecInv, LogInv
<1>1. ASSUME UNCHANGED entry, UNCHANGED <<mode, copy>> \/ SetMode \/ SetCopyState,
             fpos' \in Int, ledger' \in Int
      PROVE  PlaceInv'
  <2>1. mode' \in {"ON", "OFF"} /\ copy' \in {"ACTIVE", "PAUSED"}
    BY <1>0, <1>1 DEF SetMode, SetCopyState
  <2>2. CASE KeepsAll
    <3>1. Len(dec') = Len(dec) /\ \A d \in 1..Len(dec) : dec'[d].cycle = dec[d].cycle
      BY <2>2 DEF KeepsAll, Kept
    <3> QED BY <1>0, <1>1, <2>1, <3>1 DEF PlaceInv, NoReopen
  <2>3. CASE EvCommit
    <3>1. PICK e \in Decisions : dec' = Append(dec, e) BY <2>3, CommitAdds DEF Inv
    <3>2. Len(dec') = Len(dec) + 1 /\ \A d \in 1..Len(dec) : dec'[d] = dec[d]
      BY <3>1 DEF Inv, DecInv
    <3> QED BY <1>0, <1>a, <1>1, <2>1, <3>2 DEF PlaceInv, NoReopen
  <2> QED BY <2>2, <2>3, StepKeeps
<1>2. CASE EventJob
  <2>1. Len(log) \in 1..Len(log) BY <1>a, <1>2 DEF EventJob, Inv, LogInv
  <2>2. log[Len(log)] \in 0..Len(moves) /\ \A k \in 1..Len(log) : log[k] <= log[Len(log)]
    <3>1. log[Len(log)] \in 0..Len(moves) BY <2>1 DEF Inv, LogInv
    <3>2. ASSUME NEW k \in 1..Len(log) PROVE log[k] <= log[Len(log)]
      <4>1. CASE k = Len(log) BY <3>1, <4>1
      <4>2. CASE k # Len(log)
        <5>1. k < Len(log) BY <1>a, <4>2
        <5>2. log[k] < log[Len(log)] /\ log[k] \in Nat BY <2>1, <5>1 DEF Inv, LogInv
        <5> QED BY <3>1, <5>2
      <4> QED BY <4>1, <4>2
    <3> QED BY <3>1, <3>2
  <2>3. Retarget(Len(log), log[Len(log)]) /\ UNCHANGED <<mode, copy, dec>> BY <1>2 DEF EventJob
  <2> QED BY <1>0, <2>2, <2>3, FenceHolds DEF Inv, PlaceInv
<1>3. CASE RcJob
  <2>1. UNCHANGED <<mode, copy, dec>> /\ rc.pc = "job" BY <1>3 DEF RcJob
  <2>2. CASE rc.bound < Len(log)
    <3>1. UNCHANGED <<fpos, ledger, entry>> BY <1>3, <2>2 DEF RcJob
    <3> QED BY <1>0, <1>1, <2>1, <3>1
  <2>3. CASE ~(rc.bound < Len(log))
    <3>1. rc.bound = Len(log) /\ rc.at \in 0..Len(moves) /\ \A k \in 1..Len(log) : log[k] <= rc.at
      BY <1>a, <2>1, <2>3 DEF Inv, RunInv
    <3>2. Retarget(Len(log), rc.at) BY <1>3, <2>3, <3>1 DEF RcJob
    <3> QED BY <1>0, <2>1, <3>1, <3>2, FenceHolds DEF Inv, PlaceInv
  <2> QED BY <2>2, <2>3
<1>4. CASE Apply
  <2>1. UNCHANGED <<entry, mode, copy, fpos>> BY <1>4 DEF Apply, Busy
  <2>2. wk.d \in 1..Len(dec) /\ Cur = dec[wk.d] BY <1>4, Current DEF Inv, Apply
  <2>3. Cur.side * Cur.fill \in Int BY <1>a, <2>2
  <2>4. ledger' \in Int BY <1>0, <1>4, <2>3 DEF Apply
  <2> QED BY <1>0, <1>1, <2>1, <2>4
<1>5. ASSUME NEW d \in 1..Len(dec), Land(d) PROVE PlaceInv'
  <2>1. PICK n \in 0..dec[d].size : fpos' = fpos - dec[d].side * n BY <1>5 DEF Land
  <2>2. dec[d].side * n \in Int BY <1>a
  <2>3. fpos' \in Int BY <1>0, <2>1, <2>2
  <2> QED BY <1>0, <1>1, <1>5, <2>3 DEF Land
<1>6. CASE \/ MasterMove \/ PersistMove \/ RcCommit \/ EvRead \/ EvAbstain \/ EvCommit
           \/ (WorkerStep /\ ~Apply) \/ Release \/ (\E d \in DOMAIN dec : Resolve(d))
           \/ SetMode \/ SetCopyState \/ WorkerCrash \/ UNCHANGED vars
  <2>1. UNCHANGED <<entry, fpos>> /\ (UNCHANGED <<mode, copy>> \/ SetMode \/ SetCopyState)
        /\ ledger' \in {ledger, fpos}
    BY <1>6 DEF MasterMove, PersistMove, RcCommit, EvRead, EvAbstain, EvCommit, WorkerStep, Release,
        ReleaseStale, Resolve, SetMode, SetCopyState, WorkerCrash, vars, Busy, Claim, Refuse, InsertRow,
        RevalidateFails, WriterFenced, SubmitFails, Revalidate, Post, AnswerLost, Answer, Conclude,
        RecoverUnknown, RecoverQueried,
        RecoverStored, NotFilled, ApplyDeferred, FinishExit
  <2> QED BY <1>0, <1>1, <2>1
<1> QED BY <1>a, <1>2, <1>3, <1>4, <1>5, <1>6 DEF Next

-----------------------------------------------------------------------------
(* The theorems *)

(* Nothing is decided at first.                                              *)
LEMMA InitInv == ASSUME Bounds, Init PROVE Inv
<1> USE DEF Bounds, Init
<1>1. LogInv BY DEF LogInv
<1>2. DecInv /\ AloneInv BY DEF DecInv, AloneInv
<1>3. WorkInv BY DEF WorkInv, NoWork
<1>4. EvalInv BY DEF EvalInv, NoEval
<1>5. RunInv BY DEF RunInv, NoRun
<1>6. PlaceInv BY DEF PlaceInv, NoReopen
<1> QED BY <1>1, <1>2, <1>3, <1>4, <1>5, <1>6 DEF Inv

(* Every step keeps the invariant.                                           *)
LEMMA NextInv == ASSUME Bounds, Inv, [Next]_vars PROVE Inv'
<1>1. LogInv' BY LogStays DEF Inv
<1> QED BY <1>1, StepKeeps, DecStays, EvalStays, RunStays, PlaceStays, AloneStays DEF Inv

(* Every behaviour keeps the invariant.                                      *)
LEMMA Invariance == ASSUME Bounds PROVE Spec => []Inv
<1>1. Init => Inv BY InitInv
<1>2. Inv /\ [Next]_vars => Inv' BY NextInv
<1> QED BY <1>1, <1>2, PTL DEF Spec

(* The invariant contains the types the runs check.                          *)
LEMMA InvTypes == ASSUME Bounds, Inv PROVE TypeOK
<1>1. moves \in Seq([start : Positions, after : Positions]) BY DEF Inv, LogInv, Fills
<1>2. log \in Seq(1..MaxMoves)
  <2>1. Len(log) \in Nat /\ log \in [1..Len(log) -> Nat] BY DEF Inv, LogInv
  <2>2. \A k \in 1..Len(log) : log[k] \in 1..MaxMoves BY DEF Inv, LogInv, Bounds
  <2>3. PICK n \in Nat : n = Len(log) BY <2>1
  <2>4. log \in [1..n -> 1..MaxMoves] BY <2>1, <2>2, <2>3
  <2>5. log \in UNION {[1..m -> 1..MaxMoves] : m \in Nat} BY <2>4
  <2> QED BY <2>5, SeqDef
<1>3. intent \in 0..MaxMoves
  <2>1. CASE Len(log) = 0 BY <2>1 DEF Inv, LogInv, Bounds
  <2>2. CASE Len(log) # 0
    <3>1. Len(log) \in 1..Len(log) BY <2>2 DEF Inv, LogInv
    <3>2. Len(log) <= log[Len(log)] /\ log[Len(log)] <= Len(moves) /\ log[Len(log)] \in Nat
      BY <3>1 DEF Inv, LogInv
    <3> QED BY <3>1, <3>2 DEF Inv, LogInv, Bounds
  <2> QED BY <2>1, <2>2
<1>4. dec \in Seq([cycle : 1..MaxMoves, side : {-1, 1},
                    st : {"PENDING", "PARTIAL", "COMPLETED", "FAILED", "AMBIGUOUS"},
                    job : {"READY", "PROCESSING", "DONE", "SKIPPED", "DEAD"},
                    att : 0..MaxAttempts, row : {"NONE", "FILLED", "CANCELED"} \cup Unresolved,
                    size : Nat, base : Int, applied : BOOLEAN,
                    ord : {"NONE", "SENT", "DONE"}, fill : Nat])
  BY DEF Inv, DecInv, Decisions
<1>5. wk.d \in 0..Len(dec) BY DEF Inv, WorkInv, DecInv
<1> QED BY <1>1, <1>2, <1>3, <1>4, <1>5 DEF TypeOK, Inv, PlaceInv

(* The log, the decisions and the tasks keep their types; no exit is tried   *)
(* more than MAX_JOB_RETRIES times.                                          *)
THEOREM TypeCorrect == ASSUME Bounds PROVE Spec => []TypeOK
<1>1. Inv => TypeOK BY InvTypes
<1> QED BY <1>1, Invariance, PTL

(* A failed decision is one whose order was never sent, or is done and not   *)
(* filled in full.                                                           *)
LEMMA InvFailed == ASSUME Inv PROVE FailedIsOver
<1>1. DOMAIN dec = 1..Len(dec) /\ \A d \in 1..Len(dec) : Sound(dec[d]) BY DEF Inv, DecInv
<1> QED BY <1>1 DEF FailedIsOver, Sound

(* Two decisions of a cycle are never both live.                             *)
LEMMA InvAlone == ASSUME Inv PROVE OneLiveExit
<1>1. DOMAIN dec = 1..Len(dec) BY DEF Inv, DecInv
<1> QED BY <1>1 DEF Inv, AloneInv, OneLiveExit, Live

(* protected_reconcile_target, the EVENT fence: exposure never grows in a    *)
(* cycle an executed exit has left, nor in an unproven one after any exit.   *)
THEOREM NotReopened == ASSUME Bounds PROVE Spec => []NoReopen
<1>1. Inv => NoReopen BY DEF Inv, PlaceInv
<1> QED BY <1>1, Invariance, PTL

(* evaluate_profit_exit_portfolio: exits of one cycle do not overlap.        *)
THEOREM ExitsAlone == ASSUME Bounds PROVE Spec => []OneLiveExit
<1>1. Inv => OneLiveExit BY InvAlone
<1> QED BY <1>1, Invariance, PTL

(* _process_ai_profit_exit_locked: an exit fails only when it is over.       *)
THEOREM FailedOver == ASSUME Bounds PROVE Spec => []FailedIsOver
<1>1. Inv => FailedIsOver BY InvFailed
<1> QED BY <1>1, Invariance, PTL
=============================================================================
