------------------------- MODULE AdminCommandsProofs -------------------------
(***************************************************************************)
(* Proofs about the administrator commands: for any number of requests,    *)
(* workers, disturbances and changes of the sources a leverage             *)
(* synchronization is signed at most once, within what master, market and  *)
(* risk profile allowed after the claim and the administrator was shown.   *)
(*                                                                         *)
(* The argument: no two workers on a job have the same attempt, so only    *)
(* one passes the check of the first attempt, and it signs once. What it   *)
(* signs is met with each limit after the claim, and the sources are only  *)
(* ever extended.                                                          *)
(***************************************************************************)
EXTENDS AdminCommands, SequenceTheorems, TLAPS

Bounds ==
    /\ MaxAttempts \in Nat \ {0}
    /\ Sources \subseteq [master : Config, market : Config, risk : Config]

Waiting == {"QUEUED", "RETRYING"}

Rows  == [kind : {"none", "sync", "reconcile"}, state : {"none"} \cup Active \cup Ended,
          att : 0..MaxAttempts, stale : BOOLEAN, asked : Config]
Calls == [pc : {"idle", "look", "insert", "wait", "verify", "answered"},
          kind : {"none", "sync", "reconcile"}, j : Requests \cup {"none"}, asked : Config,
          answer : {"none", "conflict", "unchanged", "done", "blocked", "failed", "running",
                    "verified", "unverified"}]
Tasks == [pc : {"idle", "sync", "refresh", "authorize", "sent", "reconcile"},
          j : Requests \cup {"none"}, att : 0..MaxAttempts, value : Config]

TypeInv ==
    /\ config \in [source : Seq(Sources), follower : Config] /\ Len(config.source) >= 1
    /\ permit \in BOOLEAN /\ maint \in {"quarantine", "release"}
    /\ job \in [Requests -> Rows] /\ req \in [Requests -> Calls] /\ wk \in [Workers -> Tasks]
    /\ signed \in [Requests -> Seq(Config)] /\ claimed \in [Requests -> Nat]

(* A waiting job has an attempt left; one that does not exist has none used. *)
RowInv ==
    \A j \in Requests :
        /\ job[j].state \in Waiting => job[j].att < MaxAttempts
        /\ job[j].state = "none" => job[j].att = 0
        /\ job[j].state # "none" => job[j].kind # "none"

(* Before a request inserts its job there is none of its name.               *)
CallInv ==
    \A r \in Requests :
        /\ req[r].pc \in {"idle", "look", "insert"} => job[r].state = "none"
        /\ req[r].pc \in {"look", "insert"} => req[r].kind # "none"

On(w, j) == wk[w].pc # "idle" /\ wk[w].j = j
Past     == {"refresh", "authorize", "sent"}

(* A worker is on a job it has claimed, at an attempt no other worker has;   *)
(* past the check it is the first one.                                       *)
WorkInv ==
    /\ \A w \in Workers :
          wk[w].pc # "idle" => /\ wk[w].j \in Requests
                               /\ 1 <= wk[w].att /\ wk[w].att <= job[wk[w].j].att
                               /\ wk[w].pc \in Past => wk[w].att = 1
    /\ \A w, x \in Workers, j \in Requests :
          w # x /\ On(w, j) /\ On(x, j) => wk[w].att # wk[x].att

MaySign(w) == wk[w].pc \in {"sync", "refresh", "authorize"} /\ wk[w].att = 1

(* Nothing is signed yet for a job whose first attempt may still sign.       *)
SignInv ==
    /\ \A j \in Requests : job[j].att = 0 => signed[j] = <<>>
    /\ \A w \in Workers : MaySign(w) => signed[wk[w].j] = <<>>

Since(j) == claimed[j]..Len(config.source)

(* A configuration within what was shown, and within what master and market  *)
(* had together since the claim; and one the risk profile allowed since.     *)
Read(j, v) ==
    /\ Within(v, job[j].asked)
    /\ \E i \in Since(j) : Within(v, config.source[i].master) /\ Within(v, config.source[i].market)

Allowed(j, v) == \E i \in Since(j) : Within(v, config.source[i].risk)

(* The claim is no later than what is read after it.                         *)
FreshInv ==
    /\ \A j \in Requests : claimed[j] <= Len(config.source) /\ (job[j].att >= 1 => claimed[j] >= 1)
    /\ \A w \in Workers : wk[w].pc = "authorize" => Read(wk[w].j, wk[w].value)

(* At most one signature, of a configuration that was read and allowed.      *)
GoodInv ==
    \A j \in Requests :
        /\ Len(signed[j]) <= 1
        /\ \A i \in 1..Len(signed[j]) : Read(j, signed[j][i]) /\ Allowed(j, signed[j][i])

Inv == RowInv /\ CallInv /\ WorkInv /\ SignInv /\ FreshInv /\ GoodInv

-----------------------------------------------------------------------------
(* Configurations *)

(* The meet of two configurations is one, within both.                       *)
LEMMA MeetWithin ==
    ASSUME NEW a \in Config, NEW b \in Config
    PROVE  Meet(a, b) \in Config /\ Within(Meet(a, b), a) /\ Within(Meet(a, b), b)
<1> DEFINE l == IF a.lev <= b.lev THEN a.lev ELSE b.lev
           c == a.cross /\ b.cross
<1>1. a.lev \in Nat /\ b.lev \in Nat BY DEF Config
<1>2. l \in Nat /\ l <= a.lev /\ l <= b.lev BY <1>1
<1>3. c \in BOOLEAN /\ (c => a.cross) /\ (c => b.cross) OBVIOUS
<1>4. Meet(a, b) = [lev |-> l, cross |-> c] BY DEF Meet
<1> HIDE DEF l, c
<1>5. Meet(a, b).lev = l /\ Meet(a, b).cross = c BY <1>4
<1>6. Meet(a, b) \in Config BY <1>2, <1>3, <1>4 DEF Config
<1> QED BY <1>2, <1>3, <1>5, <1>6 DEF Within

(* Limits carry over to what is within them.                                 *)
LEMMA WithinAgain ==
    ASSUME NEW a \in Config, NEW b \in Config, NEW c \in Config, Within(a, b), Within(b, c)
    PROVE  Within(a, c)
<1>1. a.lev \in Nat /\ b.lev \in Nat /\ c.lev \in Nat BY DEF Config
<1>2. a.lev <= c.lev BY <1>1 DEF Within
<1>3. a.cross => c.cross BY DEF Within
<1> QED BY <1>2, <1>3 DEF Within

(* The current source is the newest one.                                     *)
LEMMA SourceType ==
    ASSUME Bounds, TypeInv
    PROVE  /\ Len(config.source) \in Nat /\ Source = config.source[Len(config.source)]
           /\ \A i \in 1..Len(config.source) :
                 config.source[i] \in Sources /\ config.source[i].master \in Config
                 /\ config.source[i].market \in Config /\ config.source[i].risk \in Config
           /\ Source.master \in Config /\ Source.market \in Config /\ Source.risk \in Config
<1>1. config.source \in Seq(Sources) /\ Len(config.source) \in Nat /\ Len(config.source) >= 1
  BY DEF TypeInv
<1>2. \A i \in 1..Len(config.source) : config.source[i] \in Sources BY <1>1
<1>3. \A z \in Sources : z.master \in Config /\ z.market \in Config /\ z.risk \in Config BY DEF Bounds
<1>4. Len(config.source) \in 1..Len(config.source) BY <1>1
<1> QED BY <1>1, <1>2, <1>3, <1>4 DEF Source

(* Sources are appended only.                                                *)
Extended ==
    /\ Len(config.source) <= Len(config'.source)
    /\ \A i \in 1..Len(config.source) : config'.source[i] = config.source[i]

(* What was read or allowed since the claim stays so.                        *)
LEMMA StillFresh ==
    ASSUME Bounds, TypeInv, TypeInv', Extended, NEW j \in Requests, NEW v,
           claimed'[j] = claimed[j], claimed[j] >= 1
    PROVE  /\ Read(j, v) /\ job'[j].asked = job[j].asked => Read(j, v)'
           /\ Allowed(j, v) => Allowed(j, v)'
<1>1. Len(config.source) \in Nat /\ Len(config'.source) \in Nat /\ claimed[j] \in Nat
  BY DEF TypeInv
<1>2. \A i \in Since(j) : i \in Since(j)' /\ config'.source[i] = config.source[i]
  BY <1>1 DEF Since, Extended
<1>3. ASSUME Read(j, v), job'[j].asked = job[j].asked PROVE Read(j, v)'
  <2>1. PICK i \in Since(j) : Within(v, config.source[i].master) /\ Within(v, config.source[i].market)
    BY <1>3 DEF Read
  <2>2. i \in Since(j)' /\ Within(v, config'.source[i].master) /\ Within(v, config'.source[i].market)
    BY <1>2, <2>1
  <2>3. Within(v, job'[j].asked) BY <1>3 DEF Read
  <2> QED BY <2>2, <2>3 DEF Read, Within
<1>4. ASSUME Allowed(j, v) PROVE Allowed(j, v)'
  <2>1. PICK i \in Since(j) : Within(v, config.source[i].risk) BY <1>4 DEF Allowed
  <2>2. i \in Since(j)' /\ Within(v, config'.source[i].risk) BY <1>2, <2>1
  <2> QED BY <2>2 DEF Allowed, Within
<1> QED BY <1>3, <1>4

-----------------------------------------------------------------------------
(* Rows and calls *)

(* A step that leaves a job as far as it was.                                *)
Kept(j) ==
    /\ job'[j] \in Rows /\ job'[j].att = job[j].att /\ job'[j].kind = job[j].kind
    /\ job'[j].asked = job[j].asked
    /\ job'[j].state = "none" <=> job[j].state = "none"
    /\ job'[j].state \in Waiting => job[j].state \in Waiting \/ job[j].att < MaxAttempts

RowsOK == job \in [Requests -> Rows] /\ RowInv /\ CallInv

(* Keeping every job keeps what is said of the rows.                         *)
LEMMA KeptRows ==
    ASSUME RowsOK, UNCHANGED req, job' = [j \in Requests |-> job'[j]],
           \A j \in Requests : Kept(j)
    PROVE  RowsOK'
<1>1. job' \in [Requests -> Rows] BY DEF Kept
<1>2. RowInv' BY DEF RowsOK, RowInv, Kept
<1>3. CallInv' BY DEF RowsOK, CallInv, Kept
<1> QED BY <1>1, <1>2, <1>3 DEF RowsOK

(* A worker that ends its job, or gives it back with an attempt left, keeps  *)
(* every job.                                                                *)
LEMMA FinishKept ==
    ASSUME Bounds, TypeInv, RowInv, WorkInv, NEW w \in Workers, wk[w].pc # "idle",
           NEW s \in {"DONE", "SKIPPED", "DEAD", Retried(wk[w].j)}, Finish(w, s)
    PROVE  /\ job' = [j \in Requests |-> job'[j]]
           /\ \A j \in Requests : Kept(j)
           /\ wk' = [wk EXCEPT ![w] = NoTask]
<1> DEFINE k == wk[w].j
<1>1. k \in Requests /\ job[k] \in Rows /\ job[k].att >= 1
  <2>1. k \in Requests /\ wk[w] \in Tasks /\ 1 <= wk[w].att /\ wk[w].att <= job[k].att
    BY DEF WorkInv, TypeInv
  <2> QED BY <2>1 DEF TypeInv, Tasks, Rows
<1>2. job[k] \in Rows /\ job[k].state # "none" BY <1>1 DEF RowInv, Rows
<1>3. s \in {"DONE", "SKIPPED", "DEAD", "RETRYING"} /\ (s = "RETRYING" => job[k].att < MaxAttempts)
  BY <1>2 DEF Retried, Rows, Bounds
<1>4. job' = [job EXCEPT ![k] = [job[k] EXCEPT !.state = s, !.stale = FALSE]] BY DEF Finish
<1>5. [job[k] EXCEPT !.state = s, !.stale = FALSE] \in Rows
  BY <1>2, <1>3 DEF Rows, Active, Ended
<1>6. Kept(k) BY <1>1, <1>2, <1>3, <1>4, <1>5 DEF Kept, Rows, Waiting, TypeInv
<1>7. \A j \in Requests \ {k} : Kept(j) BY <1>4 DEF Kept, TypeInv
<1>8. job' = [j \in Requests |-> job'[j]] BY <1>4 DEF TypeInv
<1> QED BY <1>6, <1>7, <1>8 DEF Finish, Idle

(* Leases and maintenance keep every job.                                    *)
LEMMA SweepKept ==
    ASSUME Bounds, TypeInv, RowInv, (\E r \in Requests : LeaseExpires(r)) \/ Maintenance
    PROVE  job' = [j \in Requests |-> job'[j]] /\ \A j \in Requests : Kept(j)
<1>1. \A j \in Requests : job[j] \in Rows BY DEF TypeInv
<1>2. ASSUME NEW r \in Requests, LeaseExpires(r)
      PROVE  job' = [j \in Requests |-> job'[j]] /\ \A j \in Requests : Kept(j)
  <2>1. job' = [job EXCEPT ![r] = [job[r] EXCEPT !.stale = TRUE]] BY <1>2 DEF LeaseExpires
  <2>2. [job[r] EXCEPT !.stale = TRUE] \in Rows BY <1>1 DEF Rows
  <2> QED BY <1>1, <2>1, <2>2 DEF Kept, Rows, TypeInv
<1>3. CASE QuarantineStale
  <2>1. \A j \in Requests :
           job'[j] = IF Stale(j) /\ job[j].kind = "sync"
                     THEN [job[j] EXCEPT !.state = "DEAD", !.stale = FALSE] ELSE job[j]
    BY <1>3 DEF QuarantineStale
  <2>2. \A j \in Requests : [job[j] EXCEPT !.state = "DEAD", !.stale = FALSE] \in Rows
    BY <1>1 DEF Rows, Ended
  <2>3. ASSUME NEW j \in Requests PROVE Kept(j)
    <3>1. CASE Stale(j) /\ job[j].kind = "sync"
      <4>1. job'[j] = [job[j] EXCEPT !.state = "DEAD", !.stale = FALSE] BY <2>1, <3>1
      <4>2. /\ job'[j].state = "DEAD"
            /\ job'[j].att = job[j].att /\ job'[j].kind = job[j].kind
            /\ job'[j].asked = job[j].asked
        BY <1>1, <4>1 DEF Rows
      <4>3. job'[j] \in Rows BY <2>2, <4>1
      <4>4. job[j].state # "none" /\ "DEAD" \notin Waiting BY <3>1 DEF Stale, Waiting
      <4> QED BY <4>2, <4>3, <4>4 DEF Kept
    <3>2. CASE ~(Stale(j) /\ job[j].kind = "sync")
      <4>1. job'[j] = job[j] BY <2>1, <3>2
      <4> QED BY <1>1, <4>1 DEF Kept
    <3> QED BY <3>1, <3>2
  <2> QED BY <1>3, <2>3 DEF QuarantineStale
<1>4. CASE ReleaseStale
  <2>1. \A j \in Requests :
           job'[j] = IF Stale(j) THEN [job[j] EXCEPT !.state = Retried(j), !.stale = FALSE]
                     ELSE job[j]
    BY <1>4 DEF ReleaseStale
  <2>2. \A j \in Requests : /\ Retried(j) \in {"DEAD", "RETRYING"}
                            /\ Retried(j) = "RETRYING" => job[j].att < MaxAttempts
    <3> TAKE j \in Requests
    <3>1. job[j].att \in 0..MaxAttempts BY <1>1 DEF Rows
    <3> QED BY <3>1 DEF Retried, Bounds
  <2>3. \A j \in Requests : [job[j] EXCEPT !.state = Retried(j), !.stale = FALSE] \in Rows
    BY <1>1, <2>2 DEF Rows, Active, Ended
  <2>4. ASSUME NEW j \in Requests PROVE Kept(j)
    <3>1. CASE Stale(j)
      <4>1. job'[j] = [job[j] EXCEPT !.state = Retried(j), !.stale = FALSE] BY <2>1, <3>1
      <4>2. /\ job'[j].state = Retried(j)
            /\ job'[j].att = job[j].att /\ job'[j].kind = job[j].kind
            /\ job'[j].asked = job[j].asked
        BY <1>1, <4>1 DEF Rows
      <4>3. job'[j] \in Rows BY <2>3, <4>1
      <4>4. job[j].state # "none" BY <3>1 DEF Stale
      <4>5. job'[j].state # "none" /\ (job'[j].state \in Waiting => job[j].att < MaxAttempts)
        BY <2>2, <4>2 DEF Waiting
      <4> QED BY <4>2, <4>3, <4>4, <4>5 DEF Kept
    <3>2. CASE ~Stale(j)
      <4>1. job'[j] = job[j] BY <2>1, <3>2
      <4> QED BY <1>1, <4>1 DEF Kept
    <3> QED BY <3>1, <3>2
  <2> QED BY <1>4, <2>4 DEF ReleaseStale
<1> QED BY <1>2, <1>3, <1>4 DEF Maintenance

(* A request moves on without a job, or with the one it makes.               *)
LEMMA ApiKeeps ==
    ASSUME Bounds, TypeInv, RowInv, CallInv, NEW r \in Requests, ApiStep(r)
    PROVE  /\ RowsOK' /\ req' \in [Requests -> Calls]
           /\ \A j \in Requests :
                 job'[j].att = job[j].att /\ (job[j].att = 0 \/ job'[j].asked = job[j].asked)
           /\ UNCHANGED <<config, permit, wk, maint, signed, claimed>>
<1> USE DEF Bounds
<1>0. req[r] \in Calls /\ job[r] \in Rows BY DEF TypeInv
<1>a. NoReq \in Calls /\ NoReq.pc = "idle" BY DEF NoReq, Calls, None, Config
<1>1. ASSUME UNCHANGED job, NEW c \in Calls, req' = [req EXCEPT ![r] = c],
             c.pc \in {"idle", "look", "insert"} => req[r].pc \in {"idle", "look", "insert"},
             c.pc \in {"look", "insert"} => c.kind # "none"
      PROVE  RowsOK' /\ req' \in [Requests -> Calls]
  <2>1. req' \in [Requests -> Calls] BY <1>1 DEF TypeInv
  <2>2. CallInv' BY <1>1 DEF CallInv, TypeInv
  <2>3. RowInv' BY <1>1 DEF RowInv
  <2> QED BY <1>1, <2>1, <2>2, <2>3 DEF RowsOK, TypeInv
<1>2. ASSUME NEW a \in {"conflict", "unchanged", "done", "blocked", "failed", "running", "verified",
                       "unverified"},
             Answer(r, a), UNCHANGED job
      PROVE  RowsOK' /\ req' \in [Requests -> Calls]
  <2> DEFINE c == [NoReq EXCEPT !.pc = "answered", !.answer = a]
  <2>1. c \in Calls /\ c.pc = "answered" BY <1>a DEF Calls
  <2>2. req' = [req EXCEPT ![r] = c] BY <1>2 DEF Answer
  <2> QED BY <1>1, <1>2, <2>1, <2>2
<1>3. CASE Diagnose(r)
  <2>1. CASE Answer(r, "conflict") \/ Answer(r, "unchanged") BY <1>2, <1>3, <2>1 DEF Diagnose
  <2>2. CASE ~(Answer(r, "conflict") \/ Answer(r, "unchanged"))
    <3>1. Shown(Source) \in Config
      <4>1. Source.master \in Config /\ Source.market \in Config /\ Source.risk \in Config
        BY SourceType
      <4>2. Desired(Source) \in Config BY <4>1, MeetWithin DEF Desired
      <4> QED BY <4>1, <4>2 DEF Shown, Config
    <3>2. PICK z : z = Shown(Source) OBVIOUS
    <3> DEFINE c == [NoReq EXCEPT !.pc = "look", !.kind = "sync", !.asked = z]
    <3>3. c \in Calls /\ c.pc = "look" /\ c.kind = "sync" BY <1>a, <3>1, <3>2 DEF Calls
    <3>4. req' = [req EXCEPT ![r] = c] /\ req[r].pc = "idle" /\ UNCHANGED job
      BY <1>3, <2>2, <3>2 DEF Diagnose
    <3> QED BY <1>1, <1>3, <3>3, <3>4 DEF Diagnose
  <2> QED BY <2>1, <2>2
<1>4. CASE RequestReconcile(r)
  <2> DEFINE c == [NoReq EXCEPT !.pc = "look", !.kind = "reconcile"]
  <2>1. c \in Calls /\ c.pc = "look" /\ c.kind = "reconcile" BY <1>a DEF Calls
  <2>2. req' = [req EXCEPT ![r] = c] /\ req[r].pc = "idle" /\ UNCHANGED job
    BY <1>4 DEF RequestReconcile
  <2> QED BY <1>1, <1>4, <2>1, <2>2 DEF RequestReconcile
<1>5. CASE Look(r)
  <2>0. req[r].kind # "none" /\ req[r].pc = "look" /\ UNCHANGED job BY <1>5 DEF Look, CallInv
  <2>1. ASSUME NEW pc \in {"wait", "insert"}, NEW k \in Requests,
               req' = [req EXCEPT ![r] = [req[r] EXCEPT !.pc = pc, !.j = k]]
        PROVE  RowsOK' /\ req' \in [Requests -> Calls]
    <3> DEFINE c == [req[r] EXCEPT !.pc = pc, !.j = k]
    <3>1. c \in Calls /\ c.pc = pc /\ c.kind = req[r].kind BY <1>0 DEF Calls
    <3> QED BY <1>1, <2>0, <2>1, <3>1
  <2>2. ASSUME Answer(r, "conflict") PROVE RowsOK' /\ req' \in [Requests -> Calls]
    <3>1. UNCHANGED job BY <1>5 DEF Look
    <3> QED BY <1>2, <2>2, <3>1
  <2>3. ASSUME req' = [req EXCEPT ![r].pc = "insert", ![r].j = r]
        PROVE  RowsOK' /\ req' \in [Requests -> Calls]
    <3>1. req' = [req EXCEPT ![r] = [req[r] EXCEPT !.pc = "insert", !.j = r]] BY <2>3
    <3> QED BY <2>1, <3>1
  <2>4. ASSUME NEW k \in Requests, req' = [req EXCEPT ![r].pc = "wait", ![r].j = k]
        PROVE  RowsOK' /\ req' \in [Requests -> Calls]
    <3>1. req' = [req EXCEPT ![r] = [req[r] EXCEPT !.pc = "wait", !.j = k]] BY <2>4
    <3> QED BY <2>1, <3>1
  <2>5. \/ \E k \in Requests : req' = [req EXCEPT ![r].pc = "wait", ![r].j = k]
        \/ req' = [req EXCEPT ![r].pc = "insert", ![r].j = r]
        \/ Answer(r, "conflict")
    BY <1>5 DEF Look, InProgress
  <2> QED BY <1>5, <2>2, <2>3, <2>4, <2>5 DEF Look
<1>6. CASE Enqueue(r)
  <2> DEFINE row == [kind |-> req[r].kind, state |-> "QUEUED", att |-> 0, stale |-> FALSE,
                     asked |-> req[r].asked]
             c   == [req[r] EXCEPT !.pc = "wait"]
  <2>1. job' = [job EXCEPT ![r] = row] /\ req' = [req EXCEPT ![r] = c]
    <3>1. PICK z : z = [NoJob EXCEPT !.kind = req[r].kind, !.state = "QUEUED", !.asked = req[r].asked]
      OBVIOUS
    <3>2. z = row BY <3>1 DEF NoJob
    <3> QED BY <1>6, <3>1, <3>2 DEF Enqueue
  <2>2. 0 \in 0..MaxAttempts /\ 0 < MaxAttempts OBVIOUS
  <2>3. row \in Rows /\ c \in Calls /\ c.pc = "wait" BY <1>0, <2>2 DEF Rows, Calls, Active
  <2>4. job[r].state = "none" /\ job[r].att = 0 /\ req[r].kind # "none"
    BY <1>6 DEF Enqueue, CallInv, RowInv
  <2>5. job' \in [Requests -> Rows] /\ req' \in [Requests -> Calls] BY <2>1, <2>3 DEF TypeInv
  <2>6. RowInv' BY <2>1, <2>2, <2>4 DEF RowInv, TypeInv
  <2>7. CallInv' BY <2>1, <2>3 DEF CallInv, TypeInv
  <2>8. \A j \in Requests :
           job'[j].att = job[j].att /\ (job[j].att = 0 \/ job'[j].asked = job[j].asked)
    BY <2>1, <2>4 DEF TypeInv
  <2> QED BY <1>6, <2>5, <2>6, <2>7, <2>8 DEF Enqueue, RowsOK
<1>7. CASE Observe(r)
  <2>1. CASE \E a \in {"done", "blocked", "failed", "running"} : Answer(r, a)
    BY <1>2, <1>7, <2>1 DEF Observe
  <2>2. CASE req' = [req EXCEPT ![r].pc = "verify"]
    <3> DEFINE c == [req[r] EXCEPT !.pc = "verify"]
    <3>1. c \in Calls /\ c.pc = "verify" BY <1>0 DEF Calls
    <3>2. req' = [req EXCEPT ![r] = c] BY <2>2
    <3> QED BY <1>1, <1>7, <3>1, <3>2 DEF Observe
  <2> QED BY <1>7, <2>1, <2>2 DEF Observe
<1>8. CASE Verify(r) BY <1>2, <1>8 DEF Verify
<1> QED BY <1>3, <1>4, <1>5, <1>6, <1>7, <1>8 DEF ApiStep, Diagnose, RequestReconcile, Look, Observe,
           Verify
-----------------------------------------------------------------------------
(* The kinds of steps *)

(* Nobody claims, passes the check, reads the configuration or signs.        *)
Quiet ==
    /\ UNCHANGED <<signed, claimed>> /\ Extended
    /\ \A w \in Workers : wk'[w] \in {wk[w], NoTask}
    /\ \A j \in Requests :
          job'[j].att = job[j].att /\ (job[j].att = 0 \/ job'[j].asked = job[j].asked)

(* The first attempt is allowed to go on.                                    *)
Passes(w) ==
    /\ wk[w].pc = "sync" /\ FirstAttempt(w)
    /\ wk' = [wk EXCEPT ![w].pc = "refresh"]
    /\ UNCHANGED <<config, permit, job, req, maint, signed, claimed>>

(* The configuration is read.                                                *)
Reads(w) ==
    /\ wk[w].pc = "refresh"
    /\ wk' = [wk EXCEPT ![w].pc = "authorize", ![w].value = FreshConfig(wk[w].j)]
    /\ UNCHANGED <<config, permit, job, req, maint, signed, claimed>>

(* What was read is signed, as far as the risk profile allows it.            *)
Signs(w) ==
    /\ wk[w].pc = "authorize"
    /\ signed' = [signed EXCEPT ![wk[w].j] = Append(@, Authorized(w))]
    /\ wk' = [wk EXCEPT ![w].pc = "sent", ![w].value = Authorized(w)]
    /\ UNCHANGED <<config, permit, job, req, maint, claimed>>

Kinds == \/ Quiet
         \/ \E w \in Workers : Passes(w) \/ Reads(w) \/ Signs(w) \/ \E j \in Requests : Claim(w, j)

(* A worker that goes idle or stays keeps the type of the tasks.             *)
LEMMA TaskKept ==
    ASSUME Bounds, wk \in [Workers -> Tasks], NEW w \in Workers, wk' = [wk EXCEPT ![w] = NoTask]
    PROVE  wk' \in [Workers -> Tasks] /\ \A x \in Workers : wk'[x] \in {wk[x], NoTask}
<1>1. NoTask \in Tasks BY DEF NoTask, Tasks, Bounds, None, Config
<1> QED BY <1>1

(* The sources stay as they are, and perhaps more of them.                   *)
ConfigKept ==
    /\ config' \in [source : Seq(Sources), follower : Config] /\ Len(config'.source) >= 1
    /\ Extended

(* The exchange may apply a configuration to the follower.                   *)
LEMMA FollowerKept ==
    ASSUME TypeInv, NEW v \in Config, config' \in {config, [config EXCEPT !.follower = v]}
    PROVE  ConfigKept
<1>1. config'.source = config.source /\ config' \in [source : Seq(Sources), follower : Config]
  BY DEF TypeInv
<1>2. Len(config.source) \in Nat /\ Len(config.source) >= 1 BY DEF TypeInv
<1> QED BY <1>1, <1>2 DEF ConfigKept, Extended

(* The steps that end a job.                                                 *)
Ends(w) ==
    \/ PrepareFails(w) \/ AuthorizeFails(w) \/ Acknowledge(w) \/ Unverified(w) \/ Reconcile(w)
    \/ (Prepare(w) /\ ~Passes(w)) \/ (Refresh(w) /\ ~Reads(w)) \/ (Sign(w) /\ ~Signs(w))

(* A step that ends a job is quiet and keeps types and rows.                 *)
LEMMA EndKeeps ==
    ASSUME Bounds, TypeInv, RowInv, CallInv, WorkInv, NEW w \in Workers, Ends(w)
    PROVE  TypeInv' /\ RowsOK' /\ Quiet
<1>1. PICK s \in {"DONE", "SKIPPED", "DEAD", Retried(wk[w].j)} : wk[w].pc # "idle" /\ Finish(w, s)
  <2>1. CASE PrepareFails(w) BY <2>1 DEF PrepareFails
  <2>2. CASE Acknowledge(w) BY <2>2 DEF Acknowledge
  <2>3. CASE Unverified(w) BY <2>3 DEF Unverified
  <2>4. CASE Reconcile(w) BY <2>4 DEF Reconcile
  <2>5. CASE Prepare(w) /\ ~Passes(w) BY <2>5 DEF Prepare, Passes
  <2>6. CASE Sign(w) /\ ~Signs(w) BY <2>6 DEF Sign, Signs
  <2>7. CASE AuthorizeFails(w) BY <2>7 DEF AuthorizeFails
  <2>8. CASE Refresh(w) /\ ~Reads(w) BY <2>8 DEF Refresh, Reads
  <2> QED BY <2>1, <2>2, <2>3, <2>4, <2>5, <2>6, <2>7, <2>8 DEF Ends
<1>2. UNCHANGED <<permit, req, maint, signed, claimed>>
  BY DEF Ends, PrepareFails, AuthorizeFails, Acknowledge, Unverified, Reconcile, Prepare, Passes,
         Refresh, Reads, Sign, Signs
<1>3. config' \in {config, [config EXCEPT !.follower = wk[w].value]}
  BY DEF Ends, PrepareFails, AuthorizeFails, Acknowledge, Unverified, Reconcile, Prepare, Refresh, Sign
<1>4. wk[w].value \in Config BY DEF TypeInv, Tasks
<1>5. ConfigKept BY <1>3, <1>4, FollowerKept
<1>6. /\ job' = [j \in Requests |-> job'[j]] /\ \A j \in Requests : Kept(j)
      /\ wk' = [wk EXCEPT ![w] = NoTask]
  BY <1>1, FinishKept
<1>7. RowsOK' BY <1>2, <1>6, KeptRows DEF RowsOK, TypeInv
<1>8. wk' \in [Workers -> Tasks] /\ \A x \in Workers : wk'[x] \in {wk[x], NoTask}
  BY <1>6, TaskKept DEF TypeInv
<1>9. TypeInv' BY <1>2, <1>5, <1>7, <1>8 DEF TypeInv, RowsOK, ConfigKept
<1> QED BY <1>2, <1>5, <1>6, <1>7, <1>8, <1>9 DEF Quiet, Kept, ConfigKept

(* A claim makes the next attempt of a job that has one left.                *)
LEMMA ClaimKeeps ==
    ASSUME Bounds, TypeInv, RowInv, CallInv, NEW w \in Workers, NEW j \in Requests, Claim(w, j)
    PROVE  TypeInv' /\ RowsOK'
<1> USE DEF Bounds
<1>1. job[j] \in Rows /\ job[j].state \in Waiting /\ job[j].att < MaxAttempts
  BY DEF Claim, TypeInv, RowInv, Waiting
<1>2. job[j].kind \in {"sync", "reconcile"} BY <1>1 DEF RowInv, Rows, Waiting
<1> DEFINE row  == [job[j] EXCEPT !.state = "PROCESSING", !.att = job[j].att + 1, !.stale = FALSE]
           task == [pc |-> job[j].kind, j |-> j, att |-> job[j].att + 1, value |-> None]
<1>3. job' = [job EXCEPT ![j] = row] /\ wk' = [wk EXCEPT ![w] = task]
  <2>1. PICK z : z = [NoTask EXCEPT !.pc = job[j].kind, !.j = j, !.att = job[j].att + 1] OBVIOUS
  <2>2. z = task BY <2>1 DEF NoTask
  <2> QED BY <2>1, <2>2 DEF Claim
<1>4. row \in Rows
  <2>1. job[j].att + 1 \in 0..MaxAttempts BY <1>1 DEF Rows
  <2> QED BY <1>1, <2>1 DEF Rows, Active
<1>5. row.state = "PROCESSING" /\ row.kind = job[j].kind BY <1>1 DEF Rows
<1>6. task \in Tasks
  <2>1. job[j].att + 1 \in 0..MaxAttempts BY <1>1 DEF Rows
  <2>2. None \in Config BY DEF None, Config
  <2> QED BY <1>2, <2>1, <2>2 DEF Tasks
<1>7. job' \in [Requests -> Rows] /\ wk' \in [Workers -> Tasks] BY <1>3, <1>4, <1>6 DEF TypeInv
<1>8. claimed' \in [Requests -> Nat]
  <2>1. Len(config.source) \in Nat BY DEF TypeInv
  <2> QED BY <2>1 DEF TypeInv, Claim
<1>9. RowInv' BY <1>1, <1>2, <1>3, <1>5 DEF RowInv, Waiting, TypeInv
<1>10. CallInv' BY <1>1, <1>3, <1>5 DEF CallInv, Claim, TypeInv, Waiting
<1> QED BY <1>7, <1>8, <1>9, <1>10 DEF TypeInv, RowsOK, Claim

(* Every step is of one of the kinds and keeps types and rows.               *)
LEMMA StepKinds ==
    ASSUME Bounds, TypeInv, RowInv, CallInv, WorkInv, [Next]_vars
    PROVE  TypeInv' /\ RowsOK' /\ Kinds
<1> USE DEF Bounds
<1>0. RowsOK BY DEF RowsOK, TypeInv
<1>b. ASSUME UNCHANGED config PROVE Extended
  <2>1. Len(config.source) \in Nat BY DEF TypeInv
  <2> QED BY <1>b, <2>1 DEF Extended
<1>1. ASSUME NEW r \in Requests, ApiStep(r) PROVE TypeInv' /\ RowsOK' /\ Quiet
  <2>1. /\ RowsOK' /\ req' \in [Requests -> Calls]
        /\ \A j \in Requests :
              job'[j].att = job[j].att /\ (job[j].att = 0 \/ job'[j].asked = job[j].asked)
        /\ UNCHANGED <<config, permit, wk, maint, signed, claimed>>
    BY <1>1, ApiKeeps
  <2>2. Extended BY <1>b, <2>1
  <2> QED BY <2>1, <2>2 DEF Quiet, TypeInv, RowsOK
<1>2. CASE (\E r \in Requests : LeaseExpires(r)) \/ Maintenance
  <2>1. job' = [j \in Requests |-> job'[j]] /\ \A j \in Requests : Kept(j) BY <1>2, SweepKept
  <2>2. UNCHANGED <<config, permit, req, wk, signed, claimed>> /\ maint' \in {"quarantine", "release"}
    BY <1>2 DEF LeaseExpires, Maintenance, QuarantineStale, ReleaseStale, TypeInv
  <2>3. RowsOK' BY <1>0, <2>1, <2>2, KeptRows
  <2>4. Extended BY <1>b, <2>2
  <2> QED BY <2>1, <2>2, <2>3, <2>4 DEF Kinds, Quiet, TypeInv, RowsOK, Kept
<1>3. ASSUME NEW w \in Workers, Ends(w) PROVE TypeInv' /\ RowsOK' /\ Quiet BY <1>3, EndKeeps
<1>4. ASSUME NEW w \in Workers, Crash(w) PROVE TypeInv' /\ RowsOK' /\ Quiet
  <2>1. wk' = [wk EXCEPT ![w] = NoTask] BY <1>4 DEF Crash, Idle
  <2>2. wk' \in [Workers -> Tasks] /\ \A x \in Workers : wk'[x] \in {wk[x], NoTask}
    BY <2>1, TaskKept DEF TypeInv
  <2>3. UNCHANGED <<permit, job, req, maint, signed, claimed>> BY <1>4 DEF Crash
  <2>4. config' \in {config, [config EXCEPT !.follower = wk[w].value]} BY <1>4 DEF Crash
  <2>5. wk[w].value \in Config BY DEF TypeInv, Tasks
  <2>6. ConfigKept BY <2>4, <2>5, FollowerKept
  <2>7. RowsOK' BY <1>0, <2>3 DEF RowsOK, RowInv, CallInv
  <2> QED BY <2>2, <2>3, <2>6, <2>7 DEF TypeInv, Quiet, ConfigKept
<1>5. CASE MasterConfig
  <2>1. PICK z \in Sources : config' = [config EXCEPT !.source = Append(config.source, z)]
    BY <1>5 DEF MasterConfig
  <2>2. config.source \in Seq(Sources) /\ Len(config.source) \in Nat BY DEF TypeInv
  <2>3. config'.source = Append(config.source, z)
        /\ config' \in [source : Seq(Sources), follower : Config]
    <3>1. Append(config.source, z) \in Seq(Sources) BY <2>2
    <3> QED BY <2>1, <3>1 DEF TypeInv
  <2>4. /\ Len(config'.source) = Len(config.source) + 1
        /\ \A i \in 1..Len(config.source) : config'.source[i] = config.source[i]
    BY <2>2, <2>3
  <2>5. ConfigKept BY <2>2, <2>3, <2>4 DEF ConfigKept, Extended
  <2>6. UNCHANGED <<permit, job, req, wk, maint, signed, claimed>> BY <1>5 DEF MasterConfig
  <2>7. RowsOK' BY <1>0, <2>6 DEF RowsOK, RowInv, CallInv
  <2> QED BY <2>5, <2>6, <2>7 DEF TypeInv, Kinds, Quiet, ConfigKept
<1>6. CASE SetPermit \/ UNCHANGED vars
  <2>1. UNCHANGED <<config, job, req, wk, maint, signed, claimed>> /\ permit' \in BOOLEAN
    BY <1>6 DEF SetPermit, vars, TypeInv
  <2>2. RowsOK' BY <1>0, <2>1 DEF RowsOK, RowInv, CallInv
  <2>3. Extended BY <1>b, <2>1
  <2> QED BY <2>1, <2>2, <2>3 DEF TypeInv, Kinds, Quiet
<1>7. ASSUME NEW w \in Workers, Prepare(w) \/ Refresh(w) \/ Sign(w), ~Ends(w)
      PROVE  TypeInv' /\ RowsOK' /\ (Passes(w) \/ Reads(w) \/ Signs(w))
  <2>1. Passes(w) \/ Reads(w) \/ Signs(w) BY <1>7 DEF Ends
  <2>2. UNCHANGED <<config, permit, job, req, maint, claimed>> BY <2>1 DEF Passes, Reads, Signs
  <2>3. wk[w] \in Tasks /\ wk[w].pc # "idle" BY <2>1 DEF TypeInv, Passes, Reads, Signs
  <2>4. wk[w].j \in Requests /\ job[wk[w].j] \in Rows BY <2>3 DEF WorkInv, TypeInv
  <2>5. Authorized(w) \in Config /\ FreshConfig(wk[w].j) \in Config
    <3>1. wk[w].value \in Config /\ job[wk[w].j].asked \in Config BY <2>3, <2>4 DEF Tasks, Rows
    <3> QED BY <3>1, SourceType, MeetWithin DEF Authorized, FreshConfig
  <2>6. wk' \in [Workers -> Tasks]
    <3>1. \A v \in Config : /\ [wk[w] EXCEPT !.pc = "refresh"] \in Tasks
                            /\ [wk[w] EXCEPT !.pc = "sent", !.value = v] \in Tasks
                            /\ [wk[w] EXCEPT !.pc = "authorize", !.value = v] \in Tasks
      BY <2>3 DEF Tasks
    <3>2. PICK t \in Tasks : wk' = [wk EXCEPT ![w] = t]
      <4>1. CASE Passes(w)
        <5>1. wk' = [wk EXCEPT ![w] = [wk[w] EXCEPT !.pc = "refresh"]] BY <4>1 DEF Passes
        <5>2. None \in Config BY DEF None, Config
        <5> QED BY <3>1, <5>1, <5>2
      <4>2. CASE Reads(w)
        <5>1. PICK v \in Config : v = FreshConfig(wk[w].j) BY <2>5
        <5>2. wk' = [wk EXCEPT ![w] = [wk[w] EXCEPT !.pc = "authorize", !.value = v]]
          BY <4>2, <5>1 DEF Reads
        <5> QED BY <3>1, <5>2
      <4>3. CASE Signs(w)
        <5>1. PICK v \in Config : v = Authorized(w) BY <2>5
        <5>2. wk' = [wk EXCEPT ![w] = [wk[w] EXCEPT !.pc = "sent", !.value = v]]
          BY <4>3, <5>1 DEF Signs
        <5> QED BY <3>1, <5>2
      <4> QED BY <2>1, <4>1, <4>2, <4>3
    <3> QED BY <3>2 DEF TypeInv
  <2>7. signed' \in [Requests -> Seq(Config)]
    <3>1. CASE Signs(w)
      <4>1. Append(signed[wk[w].j], Authorized(w)) \in Seq(Config) BY <2>4, <2>5 DEF TypeInv
      <4> QED BY <2>4, <3>1, <4>1 DEF Signs, TypeInv
    <3>2. CASE Passes(w) \/ Reads(w) BY <3>2 DEF Passes, Reads, TypeInv
    <3> QED BY <2>1, <3>1, <3>2
  <2>8. RowsOK' BY <1>0, <2>2 DEF RowsOK, RowInv, CallInv
  <2> QED BY <2>1, <2>2, <2>6, <2>7, <2>8 DEF TypeInv
<1>8. ASSUME NEW w \in Workers, NEW j \in Requests, Claim(w, j) PROVE TypeInv' /\ RowsOK'
  BY <1>8, ClaimKeeps
<1> QED BY <1>1, <1>2, <1>3, <1>4, <1>5, <1>6, <1>7, <1>8 DEF Next, WorkerStep, Ends, Kinds
-----------------------------------------------------------------------------
(* The invariant *)

(* The facts about the workers, as they are used below.                      *)
LEMMA OnJob ==
    ASSUME TypeInv, Inv, NEW w \in Workers, wk[w].pc # "idle"
    PROVE  /\ wk[w].j \in Requests /\ job[wk[w].j].att \in Nat /\ wk[w].att \in Nat
           /\ 1 <= wk[w].att /\ wk[w].att <= job[wk[w].j].att /\ job[wk[w].j].att # 0
           /\ wk[w].pc \in Past => wk[w].att = 1
           /\ claimed[wk[w].j] >= 1
<1>1. /\ wk[w].j \in Requests /\ 1 <= wk[w].att /\ wk[w].att <= job[wk[w].j].att
      /\ wk[w].pc \in Past => wk[w].att = 1
  BY DEF Inv, WorkInv
<1>2. job[wk[w].j].att \in Nat /\ wk[w].att \in Nat BY <1>1 DEF TypeInv, Rows, Tasks
<1>3. job[wk[w].j].att >= 1 => claimed[wk[w].j] >= 1 BY <1>1 DEF Inv, FreshInv
<1> QED BY <1>1, <1>2, <1>3

(* A job with a signature was claimed.                                       *)
LEMMA SignedClaimed ==
    ASSUME TypeInv, Inv, NEW j \in Requests, signed[j] # <<>>
    PROVE  job[j].att # 0 /\ claimed[j] >= 1
<1>1. job[j].att \in Nat /\ job[j].att # 0 BY DEF TypeInv, Rows, Inv, SignInv
<1> QED BY <1>1 DEF Inv, FreshInv

(* Signatures stay good while the claim and the asked limits stay.           *)
LEMMA GoodStays ==
    ASSUME Bounds, TypeInv, TypeInv', Inv, Extended, NEW j \in Requests, signed'[j] = signed[j],
           job[j].att # 0 => claimed'[j] = claimed[j] /\ job'[j].asked = job[j].asked
    PROVE  /\ Len(signed'[j]) <= 1
           /\ \A i \in 1..Len(signed'[j]) : (Read(j, signed[j][i]) /\ Allowed(j, signed[j][i]))'
<1>1. Len(signed[j]) <= 1 BY DEF Inv, GoodInv
<1>2. ASSUME NEW i \in 1..Len(signed[j])
      PROVE  (Read(j, signed[j][i]) /\ Allowed(j, signed[j][i]))'
  <2>1. PICK v : v = signed[j][i] OBVIOUS
  <2>2. Read(j, v) /\ Allowed(j, v) BY <1>2, <2>1 DEF Inv, GoodInv
  <2>3. signed[j] # <<>> BY <1>2
  <2>4. job[j].att # 0 /\ claimed[j] >= 1 BY <2>3, SignedClaimed
  <2>5. Read(j, v)' /\ Allowed(j, v)' BY <2>2, <2>4, StillFresh
  <2>6. v = signed'[j][i] BY <2>1
  <2> QED BY <2>5, <2>6 DEF Read, Allowed
<1> QED BY <1>1, <1>2

(* No task appears or moves in a quiet step.                                 *)
LEMMA QuietKeeps ==
    ASSUME Bounds, TypeInv, TypeInv', Inv, Quiet
    PROVE  WorkInv' /\ SignInv' /\ FreshInv' /\ GoodInv'
<1>1. \A w \in Workers : wk'[w].pc # "idle" => wk'[w] = wk[w] BY DEF Quiet, NoTask
<1>2. \A j \in Requests : job'[j].att = job[j].att /\ signed'[j] = signed[j] /\ claimed'[j] = claimed[j]
  BY DEF Quiet
<1>3. WorkInv' BY <1>1, <1>2 DEF Inv, WorkInv, On, Past
<1>4. SignInv'
  <2>1. \A j \in Requests : job'[j].att = 0 => signed'[j] = <<>> BY <1>2 DEF Inv, SignInv
  <2>2. ASSUME NEW w \in Workers, MaySign(w)' PROVE signed'[wk'[w].j] = <<>>
    <3>1. wk'[w] = wk[w] /\ MaySign(w) /\ wk[w].pc # "idle" BY <1>1, <2>2 DEF MaySign
    <3> QED BY <1>2, <3>1, OnJob DEF Inv, SignInv
  <2> QED BY <2>1, <2>2 DEF SignInv
<1>5. FreshInv'
  <2>1. \A j \in Requests : /\ claimed'[j] <= Len(config'.source)
                            /\ job'[j].att >= 1 => claimed'[j] >= 1
    <3> TAKE j \in Requests
    <3>1. claimed[j] \in Nat /\ Len(config.source) \in Nat /\ Len(config'.source) \in Nat
      BY DEF TypeInv
    <3>2. Len(config.source) <= Len(config'.source) /\ claimed[j] <= Len(config.source)
      BY DEF Quiet, Extended, Inv, FreshInv
    <3>3. job[j].att >= 1 => claimed[j] >= 1 BY DEF Inv, FreshInv
    <3> QED BY <1>2, <3>1, <3>2, <3>3
  <2>2. ASSUME NEW w \in Workers, wk'[w].pc = "authorize" PROVE Read(wk[w].j, wk[w].value)'
    <3>1. wk'[w] = wk[w] /\ wk[w].pc = "authorize" BY <1>1, <2>2
    <3>2. PICK j \in Requests, v \in Config :
             j = wk[w].j /\ v = wk[w].value /\ job[j].att # 0 /\ claimed[j] >= 1
      BY <3>1, OnJob DEF TypeInv, Tasks
    <3>3. Read(j, v) BY <3>1, <3>2 DEF Inv, FreshInv
    <3>4. job'[j].asked = job[j].asked BY <3>2 DEF Quiet
    <3>5. Read(j, v)' BY <1>2, <3>2, <3>3, <3>4, StillFresh DEF Quiet
    <3>6. j = wk'[w].j /\ v = wk'[w].value BY <3>1, <3>2
    <3> QED BY <3>5, <3>6
  <2> QED BY <2>1, <2>2 DEF FreshInv
<1>6. GoodInv'
  <2>1. ASSUME NEW j \in Requests
        PROVE  /\ Len(signed'[j]) <= 1
               /\ \A i \in 1..Len(signed'[j]) : (Read(j, signed[j][i]) /\ Allowed(j, signed[j][i]))'
    BY <1>2, GoodStays DEF Quiet
  <2> QED BY <2>1 DEF GoodInv
<1> QED BY <1>3, <1>4, <1>5, <1>6

(* A claim makes an attempt nobody else has; only the first may sign.        *)
LEMMA ClaimInv ==
    ASSUME Bounds, TypeInv, TypeInv', Inv, NEW w \in Workers, NEW k \in Requests, Claim(w, k)
    PROVE  WorkInv' /\ SignInv' /\ FreshInv' /\ GoodInv'
<1>1. /\ wk'[w].pc \in {"sync", "reconcile"} /\ wk'[w].j = k /\ wk'[w].att = job[k].att + 1
      /\ \A x \in Workers \ {w} : wk'[x] = wk[x]
  <2>1. job[k].kind \in {"sync", "reconcile"} BY DEF Claim, Inv, RowInv, TypeInv, Rows
  <2>2. PICK z : z = [NoTask EXCEPT !.pc = job[k].kind, !.j = k, !.att = job[k].att + 1] OBVIOUS
  <2>3. z.pc = job[k].kind /\ z.j = k /\ z.att = job[k].att + 1 BY <2>2 DEF NoTask
  <2>4. wk' = [wk EXCEPT ![w] = z] BY <2>2 DEF Claim
  <2> QED BY <2>1, <2>3, <2>4 DEF TypeInv
<1>2. /\ job'[k].att = job[k].att + 1 /\ \A j \in Requests \ {k} : job'[j].att = job[j].att
      /\ \A j \in Requests : job'[j].asked = job[j].asked
  BY DEF Claim, TypeInv, Rows
<1>3. \A j \in Requests : job[j].att \in Nat BY DEF TypeInv, Rows
<1>4. signed' = signed /\ config' = config BY DEF Claim
<1>5. /\ claimed'[k] = (IF claimed[k] = 0 THEN Len(config.source) ELSE claimed[k])
      /\ \A j \in Requests \ {k} : claimed'[j] = claimed[j]
  BY DEF Claim, TypeInv
<1>6. \A j \in Requests : claimed[j] \in Nat /\ Len(config.source) \in Nat /\ Len(config.source) >= 1
  BY DEF TypeInv
<1>7. WorkInv'
  <2>1. ASSUME NEW x \in Workers, wk'[x].pc # "idle"
        PROVE  /\ wk'[x].j \in Requests
               /\ 1 <= wk'[x].att /\ wk'[x].att <= job'[wk'[x].j].att
               /\ wk'[x].pc \in Past => wk'[x].att = 1
    <3>1. CASE x = w BY <1>1, <1>2, <1>3, <3>1 DEF Past
    <3>2. CASE x # w
      <4>1. wk'[x] = wk[x] /\ wk[x].pc # "idle" BY <1>1, <2>1, <3>2
      <4>2. /\ wk[x].j \in Requests /\ wk[x].att \in Nat
            /\ 1 <= wk[x].att /\ wk[x].att <= job[wk[x].j].att
            /\ wk[x].pc \in Past => wk[x].att = 1
        BY <4>1, OnJob
      <4>3. job[wk[x].j].att <= job'[wk[x].j].att BY <1>2, <1>3, <4>2
      <4> QED BY <1>2, <1>3, <4>1, <4>2, <4>3
    <3> QED BY <3>1, <3>2
  <2>2. ASSUME NEW x \in Workers \ {w}, On(x, k)' PROVE wk'[x].att # wk'[w].att
    <3>1. wk'[x] = wk[x] /\ wk[x].pc # "idle" /\ wk[x].j = k BY <1>1, <2>2 DEF On
    <3>2. wk[x].att \in Nat /\ wk[x].att <= job[k].att BY <3>1, OnJob
    <3> QED BY <1>1, <1>3, <3>1, <3>2
  <2>3. ASSUME NEW x \in Workers, NEW y \in Workers, NEW j \in Requests, x # y, On(x, j)', On(y, j)'
        PROVE  wk'[x].att # wk'[y].att
    <3>1. CASE x = w
      <4>1. j = k BY <1>1, <2>3, <3>1 DEF On
      <4> QED BY <2>2, <2>3, <3>1, <4>1
    <3>2. CASE y = w
      <4>1. j = k BY <1>1, <2>3, <3>2 DEF On
      <4> QED BY <2>2, <2>3, <3>2, <4>1
    <3>3. CASE x # w /\ y # w
      <4>1. On(x, j) /\ On(y, j) /\ wk'[x] = wk[x] /\ wk'[y] = wk[y] BY <1>1, <2>3, <3>3 DEF On
      <4> QED BY <2>3, <4>1 DEF Inv, WorkInv
    <3> QED BY <3>1, <3>2, <3>3
  <2> QED BY <2>1, <2>3 DEF WorkInv
<1>8. SignInv'
  <2>1. \A j \in Requests : job'[j].att = 0 => signed'[j] = <<>>
    BY <1>2, <1>3, <1>4 DEF Inv, SignInv
  <2>2. ASSUME NEW x \in Workers, MaySign(x)' PROVE signed'[wk'[x].j] = <<>>
    <3>1. CASE x = w
      <4>1. job[k].att = 0 BY <1>1, <1>3, <2>2, <3>1 DEF MaySign
      <4> QED BY <1>1, <1>4, <3>1, <4>1 DEF Inv, SignInv
    <3>2. CASE x # w
      <4>1. wk'[x] = wk[x] /\ MaySign(x) BY <1>1, <2>2, <3>2 DEF MaySign
      <4> QED BY <1>4, <4>1 DEF Inv, SignInv
    <3> QED BY <3>1, <3>2
  <2> QED BY <2>1, <2>2 DEF SignInv
<1>9. \A j \in Requests : job[j].att # 0 => claimed'[j] = claimed[j]
  <2> TAKE j \in Requests
  <2>1. job[j].att >= 1 => claimed[j] >= 1 BY DEF Inv, FreshInv
  <2> QED BY <1>3, <1>5, <1>6, <2>1
<1>10. Extended BY <1>4, <1>6 DEF Extended
<1>11. FreshInv'
  <2>1. \A j \in Requests : /\ claimed'[j] <= Len(config'.source)
                            /\ job'[j].att >= 1 => claimed'[j] >= 1
    <3> TAKE j \in Requests
    <3>1. claimed[j] <= Len(config.source) /\ (job[j].att >= 1 => claimed[j] >= 1) BY DEF Inv, FreshInv
    <3> QED BY <1>2, <1>3, <1>4, <1>5, <1>6, <3>1
  <2>2. ASSUME NEW x \in Workers, wk'[x].pc = "authorize" PROVE Read(wk[x].j, wk[x].value)'
    <3>1. wk'[x] = wk[x] /\ wk[x].pc = "authorize" BY <1>1, <2>2
    <3>2. PICK j \in Requests, v \in Config :
             j = wk[x].j /\ v = wk[x].value /\ job[j].att # 0 /\ claimed[j] >= 1
      BY <3>1, OnJob DEF TypeInv, Tasks
    <3>3. Read(j, v) BY <3>1, <3>2 DEF Inv, FreshInv
    <3>4. Read(j, v)' BY <1>2, <1>9, <1>10, <3>2, <3>3, StillFresh
    <3>5. j = wk'[x].j /\ v = wk'[x].value BY <3>1, <3>2
    <3> QED BY <3>4, <3>5
  <2> QED BY <2>1, <2>2 DEF FreshInv
<1>12. GoodInv'
  <2>1. ASSUME NEW j \in Requests
        PROVE  /\ Len(signed'[j]) <= 1
               /\ \A i \in 1..Len(signed'[j]) : (Read(j, signed[j][i]) /\ Allowed(j, signed[j][i]))'
    BY <1>2, <1>4, <1>9, <1>10, GoodStays
  <2> QED BY <2>1 DEF GoodInv
<1> QED BY <1>7, <1>8, <1>11, <1>12

(* What a worker reads is within master, market and what was shown.          *)
LEMMA ReadsFresh ==
    ASSUME Bounds, TypeInv, Inv, NEW j \in Requests, claimed[j] >= 1
    PROVE  Read(j, FreshConfig(j))
<1> DEFINE n == Len(config.source)
           m == Meet(Source.master, Source.market)
<1>1. /\ n \in Nat /\ Source = config.source[n]
      /\ Source.master \in Config /\ Source.market \in Config /\ job[j].asked \in Config
  BY SourceType DEF TypeInv, Rows
<1>2. claimed[j] <= n /\ claimed[j] \in Nat BY DEF Inv, FreshInv, TypeInv
<1>3. n \in Since(j) BY <1>1, <1>2 DEF Since
<1>4. m \in Config /\ Within(m, Source.master) /\ Within(m, Source.market) BY <1>1, MeetWithin
<1>5. FreshConfig(j) = Meet(m, job[j].asked) BY DEF FreshConfig
<1> HIDE DEF m
<1>6. FreshConfig(j) \in Config /\ Within(FreshConfig(j), m) /\ Within(FreshConfig(j), job[j].asked)
  BY <1>1, <1>4, <1>5, MeetWithin
<1>7. Within(FreshConfig(j), Source.master) /\ Within(FreshConfig(j), Source.market)
  BY <1>1, <1>4, <1>6, WithinAgain
<1> QED BY <1>1, <1>3, <1>6, <1>7 DEF Read

(* What it signs is within what it read and within the risk profile.         *)
LEMMA SignsAllowed ==
    ASSUME Bounds, TypeInv, Inv, NEW w \in Workers, wk[w].pc = "authorize"
    PROVE  Read(wk[w].j, Authorized(w)) /\ Allowed(wk[w].j, Authorized(w))
<1> DEFINE n == Len(config.source)
<1>1. PICK j \in Requests : j = wk[w].j /\ claimed[j] >= 1 BY OnJob
<1>2. PICK v \in Config : v = wk[w].value BY DEF TypeInv, Tasks
<1>3. Read(j, v) BY <1>1, <1>2 DEF Inv, FreshInv
<1>4. PICK u : u = Authorized(w) OBVIOUS
<1>5. /\ n \in Nat /\ Source = config.source[n] /\ Source.risk \in Config /\ job[j].asked \in Config
      /\ \A i \in 1..n : config.source[i].master \in Config /\ config.source[i].market \in Config
  BY SourceType DEF TypeInv, Rows
<1>6. u \in Config /\ Within(u, v) /\ Within(u, Source.risk)
  BY <1>2, <1>4, <1>5, MeetWithin DEF Authorized
<1>7. claimed[j] <= n /\ claimed[j] \in Nat BY DEF Inv, FreshInv, TypeInv
<1>8. n \in Since(j) BY <1>5, <1>7 DEF Since
<1>9. Allowed(j, u) BY <1>5, <1>6, <1>8 DEF Allowed
<1>10. Read(j, u)
  <2>1. Within(u, job[j].asked) BY <1>2, <1>3, <1>5, <1>6, WithinAgain DEF Read
  <2>2. PICK i \in Since(j) : Within(v, config.source[i].master) /\ Within(v, config.source[i].market)
    BY <1>3 DEF Read
  <2>3. i \in 1..n BY <1>1, <1>5, <1>7 DEF Since
  <2>4. Within(u, config.source[i].master) /\ Within(u, config.source[i].market)
    BY <1>2, <1>5, <1>6, <2>2, <2>3, WithinAgain
  <2> QED BY <2>1, <2>4 DEF Read
<1> QED BY <1>1, <1>4, <1>9, <1>10

(* Whoever passes the check has the first attempt, and nobody else has it.   *)
LEMMA PassInv ==
    ASSUME Bounds, TypeInv, TypeInv', Inv, NEW w \in Workers, Passes(w) \/ Reads(w) \/ Signs(w)
    PROVE  WorkInv' /\ SignInv' /\ FreshInv' /\ GoodInv'
<1>0. PICK k : k = wk[w].j OBVIOUS
<1>1. /\ k \in Requests /\ job[k].att # 0 /\ wk[w].pc # "idle" /\ claimed[k] >= 1
      /\ wk[w].att = 1
  BY <1>0, OnJob DEF Passes, Reads, Signs, FirstAttempt, Past
<1>2. job' = job /\ claimed' = claimed /\ config' = config BY DEF Passes, Reads, Signs
<1>3. /\ wk'[w].j = k /\ wk'[w].pc \in Past /\ wk'[w].att = 1
      /\ \A x \in Workers \ {w} : wk'[x] = wk[x]
  BY <1>0, <1>1 DEF Passes, Reads, Signs, TypeInv, Tasks, Past
<1>4. Extended
  <2>1. Len(config.source) \in Nat BY DEF TypeInv
  <2> QED BY <1>2, <2>1 DEF Extended
<1>5. WorkInv'
  <2>1. \A x \in Workers :
           wk'[x].pc # "idle" => /\ wk'[x].j \in Requests
                                 /\ 1 <= wk'[x].att /\ wk'[x].att <= job'[wk'[x].j].att
                                 /\ wk'[x].pc \in Past => wk'[x].att = 1
    BY <1>0, <1>1, <1>2, <1>3 DEF Inv, WorkInv
  <2>2. ASSUME NEW x \in Workers, NEW y \in Workers, NEW j \in Requests, x # y, On(x, j)', On(y, j)'
        PROVE  wk'[x].att # wk'[y].att
    <3>1. On(x, j) /\ On(y, j) /\ wk'[x].att = wk[x].att /\ wk'[y].att = wk[y].att
      BY <1>0, <1>1, <1>3, <2>2 DEF On
    <3> QED BY <2>2, <3>1 DEF Inv, WorkInv
  <2> QED BY <2>1, <2>2 DEF WorkInv
<1>6. wk[w].pc \in {"sync", "refresh", "authorize"} /\ signed[k] = <<>>
  <2>1. MaySign(w) BY <1>1 DEF Passes, Reads, Signs, MaySign
  <2> QED BY <1>0, <2>1 DEF Inv, SignInv, MaySign
<1>7. \A j \in Requests : signed'[j] # signed[j] => j = k /\ Signs(w)
  BY <1>0, <1>1 DEF Passes, Reads, Signs, TypeInv
<1>8. SignInv'
  <2>1. \A j \in Requests : job'[j].att = 0 => signed'[j] = <<>>
    BY <1>1, <1>2, <1>7 DEF Inv, SignInv
  <2>2. ASSUME NEW x \in Workers, MaySign(x)' PROVE signed'[wk'[x].j] = <<>>
    <3>1. CASE x = w
      <4>1. ~Signs(w) BY <2>2, <3>1 DEF Signs, TypeInv, Tasks, MaySign
      <4> QED BY <1>1, <1>3, <1>6, <1>7, <3>1, <4>1
    <3>2. CASE x # w
      <4>1. wk'[x] = wk[x] /\ MaySign(x) /\ wk[x].pc # "idle" BY <1>3, <2>2, <3>2 DEF MaySign
      <4>2. signed[wk[x].j] = <<>> /\ wk[x].j \in Requests BY <4>1, OnJob DEF Inv, SignInv
      <4>3. wk[x].j # k
        <5>1. SUFFICES ASSUME wk[x].j = k PROVE FALSE OBVIOUS
        <5>2. On(x, k) /\ On(w, k) BY <1>0, <1>1, <4>1, <5>1 DEF On
        <5>3. wk[x].att # wk[w].att BY <1>1, <3>2, <5>2 DEF Inv, WorkInv
        <5> QED BY <1>1, <4>1, <5>3 DEF MaySign
      <4> QED BY <1>7, <4>1, <4>2, <4>3
    <3> QED BY <3>1, <3>2
  <2> QED BY <2>1, <2>2 DEF SignInv
<1>9. FreshInv'
  <2>1. ASSUME NEW x \in Workers, wk'[x].pc = "authorize" PROVE Read(wk[x].j, wk[x].value)'
    <3>1. CASE x # w
      <4>1. wk'[x] = wk[x] /\ wk[x].pc = "authorize" BY <1>3, <2>1, <3>1
      <4>2. PICK j \in Requests, v \in Config : j = wk[x].j /\ v = wk[x].value /\ claimed[j] >= 1
        BY <4>1, OnJob DEF TypeInv, Tasks
      <4>3. Read(j, v) BY <4>1, <4>2 DEF Inv, FreshInv
      <4>4. Read(j, v)' BY <1>2, <1>4, <4>2, <4>3, StillFresh
      <4>5. j = wk'[x].j /\ v = wk'[x].value BY <4>1, <4>2
      <4> QED BY <4>4, <4>5
    <3>2. CASE x = w
      <4>1. Reads(w) BY <2>1, <3>2 DEF Passes, Signs, TypeInv, Tasks
      <4>2. PICK v : v = FreshConfig(k) OBVIOUS
      <4>3. wk'[w].value = v /\ wk'[w].j = k BY <1>0, <1>3, <4>1, <4>2 DEF Reads, TypeInv, Tasks
      <4>4. Read(k, v) BY <1>1, <4>2, ReadsFresh
      <4>5. Read(k, v)' BY <1>1, <1>2, <1>4, <4>4, StillFresh
      <4> QED BY <3>2, <4>3, <4>5
    <3> QED BY <3>1, <3>2
  <2> QED BY <1>2, <2>1 DEF Inv, FreshInv
<1>10. GoodInv'
  <2>1. ASSUME NEW j \in Requests
        PROVE  /\ Len(signed'[j]) <= 1
               /\ \A i \in 1..Len(signed'[j]) : (Read(j, signed[j][i]) /\ Allowed(j, signed[j][i]))'
    <3>1. CASE signed'[j] = signed[j] BY <1>2, <1>4, <3>1, GoodStays
    <3>2. CASE signed'[j] # signed[j]
      <4>1. j = k /\ Signs(w) BY <1>7, <3>2
      <4>2. PICK v : v = Authorized(w) OBVIOUS
      <4>3. signed'[k] = Append(<<>>, v) BY <1>0, <1>1, <1>6, <4>1, <4>2 DEF Signs, TypeInv
      <4>4. Len(signed'[k]) = 1 /\ signed'[k][1] = v BY <4>3
      <4>5. Read(k, v) /\ Allowed(k, v) BY <1>0, <4>1, <4>2, SignsAllowed DEF Signs
      <4>6. Read(k, v)' /\ Allowed(k, v)' BY <1>1, <1>2, <1>4, <4>5, StillFresh
      <4>7. \A i \in 1..Len(signed'[k]) : v = signed'[k][i] BY <4>4
      <4> QED BY <4>1, <4>4, <4>6, <4>7
    <3> QED BY <3>1, <3>2
  <2> QED BY <2>1 DEF GoodInv
<1> QED BY <1>5, <1>8, <1>9, <1>10

-----------------------------------------------------------------------------
(* The theorems *)

(* No job exists at first.                                                   *)
LEMMA InitInv == ASSUME Bounds, Init PROVE TypeInv /\ Inv
<1> USE DEF Bounds, Init
<1>1. TypeInv
  <2>1. 0 \in 0..MaxAttempts /\ None \in Config BY DEF None, Config
  <2>2. NoJob \in Rows BY <2>1 DEF NoJob, Rows
  <2>3. NoReq \in Calls BY <2>1 DEF NoReq, Calls
  <2>4. NoTask \in Tasks BY <2>1 DEF NoTask, Tasks
  <2>5. PICK z \in Sources : config = [source |-> <<z>>, follower |-> None] OBVIOUS
  <2>6. config \in [source : Seq(Sources), follower : Config] /\ Len(config.source) >= 1
    BY <2>1, <2>5
  <2> QED BY <2>1, <2>2, <2>3, <2>4, <2>6 DEF TypeInv
<1>2. RowInv /\ CallInv BY DEF RowInv, CallInv, NoJob, NoReq, Waiting
<1>3. WorkInv /\ SignInv BY DEF WorkInv, SignInv, MaySign, On, NoTask, NoJob
<1>4. FreshInv BY <1>1 DEF FreshInv, NoTask, NoJob, TypeInv
<1>5. GoodInv BY DEF GoodInv
<1> QED BY <1>1, <1>2, <1>3, <1>4, <1>5 DEF Inv

(* Every step keeps the invariant.                                           *)
LEMMA NextInv == ASSUME Bounds, TypeInv, Inv, [Next]_vars PROVE TypeInv' /\ Inv'
<1>1. TypeInv' /\ RowsOK' /\ Kinds BY StepKinds DEF Inv
<1>2. WorkInv' /\ SignInv' /\ FreshInv' /\ GoodInv'
  BY <1>1, QuietKeeps, ClaimInv, PassInv DEF Kinds
<1> QED BY <1>1, <1>2 DEF Inv, RowsOK

(* Every behaviour keeps types and invariant.                                *)
LEMMA Invariance == ASSUME Bounds PROVE Spec => [](TypeInv /\ Inv)
<1>1. Init => TypeInv /\ Inv BY InitInv
<1>2. TypeInv /\ Inv /\ [Next]_vars => (TypeInv /\ Inv)' BY NextInv
<1> QED BY <1>1, <1>2, PTL DEF Spec

(* The invariant contains the types the runs check.                          *)
LEMMA InvTypes == TypeInv => TypeOK
BY DEF TypeInv, TypeOK, Rows, Calls, Tasks

(* Jobs, requests and tasks keep their types; no command is attempted more   *)
(* than MAX_JOB_RETRIES times.                                               *)
THEOREM TypeCorrect == ASSUME Bounds PROVE Spec => []TypeOK
BY InvTypes, Invariance, PTL

(* The invariant contains what the runs check of the signatures.             *)
LEMMA InvFresh == ASSUME TypeInv, Inv PROVE SignedOnceAndFresh
<1>1. ASSUME NEW j \in Requests
      PROVE  LET S == {config.source[k] : k \in claimed[j]..Len(config.source)}
             IN /\ Len(signed[j]) <= 1
                /\ \A i \in 1..Len(signed[j]) :
                      /\ Within(signed[j][i], job[j].asked)
                      /\ \E z \in S : Within(signed[j][i], z.master) /\ Within(signed[j][i], z.market)
                      /\ \E z \in S : Within(signed[j][i], z.risk)
  <2> DEFINE S == {config.source[k] : k \in claimed[j]..Len(config.source)}
  <2>1. ASSUME NEW i \in 1..Len(signed[j])
        PROVE  /\ Within(signed[j][i], job[j].asked)
               /\ \E z \in S : Within(signed[j][i], z.master) /\ Within(signed[j][i], z.market)
               /\ \E z \in S : Within(signed[j][i], z.risk)
    <3>1. PICK v : v = signed[j][i] OBVIOUS
    <3>2. Read(j, v) /\ Allowed(j, v) BY <2>1, <3>1 DEF Inv, GoodInv
    <3>3. \A k \in Since(j) : config.source[k] \in S BY DEF Since
    <3>4. Within(v, job[j].asked) BY <3>2 DEF Read
    <3>5. \E z \in S : Within(v, z.master) /\ Within(v, z.market) BY <3>2, <3>3 DEF Read
    <3>6. \E z \in S : Within(v, z.risk) BY <3>2, <3>3 DEF Allowed
    <3> QED BY <3>1, <3>4, <3>5, <3>6
  <2>2. Len(signed[j]) <= 1 BY DEF Inv, GoodInv
  <2> QED BY <2>1, <2>2
<1> QED BY <1>1 DEF SignedOnceAndFresh

(* _run_admin_leverage_sync: at most one signature for a job, within what    *)
(* master, market and risk profile allowed after the claim and within what   *)
(* the administrator was shown.                                              *)
THEOREM SignedOnce == ASSUME Bounds PROVE Spec => []SignedOnceAndFresh
<1>1. TypeInv /\ Inv => SignedOnceAndFresh BY InvFresh
<1> QED BY <1>1, Invariance, PTL
=============================================================================
