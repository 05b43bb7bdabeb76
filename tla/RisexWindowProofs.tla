-------------------------- MODULE RisexWindowProofs --------------------------
(***************************************************************************)
(* Theorems about RisexWindow for any number of requests, restarts and     *)
(* peers and any lifetime of the window.                                   *)
(***************************************************************************)
EXTENDS RisexWindow, SequenceTheorems, TLAPS

(* The bound on the requests and the window's lifetime are numbers.          *)
Bounds == MaxControls \in Nat /\ TTL \in Nat

ControlRows == [action : {"ARM", "DISARM"}, state : {"REQUESTED", "CONSUMED"}]
States   == {"DISABLED", "ARMING", "ENABLED", "LOCKED"}
Windows  == [state : States, attempt : Gens, snap : Nat, open : Gens, left : 0..TTL,
             epoch : Nat, last : Gens]
ArmTasks == [pc : {"none", "readiness", "decide", "commit"}, gen : Gens,
             fence : BOOLEAN, single : BOOLEAN]
Polls    == [pc : {"idle", "apply", "launch"}, gen : Gens]
Attempts == [pc : {"idle", "prepare", "probe", "authorize", "post"}, epoch : Nat, gen : Gens]

-----------------------------------------------------------------------------
(* The invariants *)

TypeInv ==
    /\ ctl \in Seq(ControlRows) /\ Len(ctl) <= MaxControls
    /\ win \in Windows
    /\ arm \in ArmTasks
    /\ poll \in [Pollers -> Polls]
    /\ job \in Attempts
    /\ hb \in States
    /\ peer \in BOOLEAN /\ peers \in Nat /\ boot \in Nat

(* A loop applies a request it has consumed, and launches only an ARM.       *)
PollsConsumed ==
    \A p \in Pollers :
        /\ poll[p].pc = "idle" => poll[p].gen = 0
        /\ poll[p].pc # "idle" => /\ poll[p].gen \in DOMAIN ctl
                                  /\ ctl[poll[p].gen].state = "CONSUMED"
        /\ poll[p].pc = "launch" => ctl[poll[p].gen].action = "ARM"

(* An open window is that of the newest ARM the controller knows, and the    *)
(* operator has asked for nothing but DISARM since: the heartbeat said that  *)
(* the window is taken.                                                      *)
WindowNewest ==
    /\ win.state \in {"ARMING", "ENABLED"} => hb \in {"ARMING", "ENABLED"}
    /\ win.state = "ENABLED" =>
          /\ win.open = win.last
          /\ \A g \in DOMAIN ctl : win.open < g => ctl[g].action = "DISARM"

(* The ARM task has a request; past its fence the newest one, and no other   *)
(* is created while it decides.                                              *)
ArmNewest ==
    /\ arm.pc # "none" => arm.gen \in DOMAIN ctl
    /\ arm.pc = "decide" /\ arm.fence => arm.gen = Len(ctl) /\ ctl[arm.gen].action = "ARM"

(* The epoch a job has seen identifies the window it has seen.               *)
EpochIdentifies ==
    job.pc \in {"probe", "authorize", "post"} =>
        /\ job.epoch <= win.epoch
        /\ job.epoch = win.epoch => win.state = "ENABLED" /\ win.open = job.gen

(* An applied DISARM is newer than neither the open window nor that of an    *)
(* order which holds the submission lock.                                    *)
DisarmFinal ==
    \A g \in DOMAIN ctl : Applied(g) =>
        /\ win.state = "ENABLED" => g < win.open
        /\ job.pc \in {"authorize", "post"} => g < job.gen

Inv == PollsConsumed /\ WindowNewest /\ ArmNewest /\ EpochIdentifies /\ DisarmFinal

-----------------------------------------------------------------------------
(* The controller's operations *)

(* The authorization is over.                                                *)
Shut(w, x) == x.state \in {"DISABLED", "LOCKED"} /\ x.open = 0 /\ x.epoch = w.epoch + 1

(* Nothing but the time left has changed.                                    *)
Same(w, x) == x.state = w.state /\ x.open = w.open /\ x.epoch = w.epoch /\ x.last = w.last

(* Ended closes a window and keeps its type.                                 *)
LEMMA EndedShuts ==
    ASSUME Bounds, NEW w \in Windows, NEW s \in {"DISABLED", "LOCKED"}
    PROVE  Ended(w, s) \in Windows /\ Shut(w, Ended(w, s)) /\ Ended(w, s).state = s
<1>1. 0 \in Gens /\ 0 \in 0..TTL /\ w.epoch + 1 \in Nat BY DEF Bounds, Gens, Windows
<1>2. Ended(w, s) \in Windows BY <1>1 DEF Ended, Windows, States
<1>3. Shut(w, Ended(w, s)) /\ Ended(w, s).state = s BY DEF Ended, Shut, Windows
<1> QED BY <1>2, <1>3

(* ExpireIfNeeded leaves a window as it is or closes it.                     *)
LEMMA ExpiryShuts ==
    ASSUME Bounds, NEW w \in Windows
    PROVE  /\ ExpireIfNeeded(w) \in Windows
           /\ ExpireIfNeeded(w) = w \/ Shut(w, ExpireIfNeeded(w))
           /\ ExpireIfNeeded(w).state \in {"ARMING", "ENABLED"} => ExpireIfNeeded(w) = w
BY EndedShuts DEF ExpireIfNeeded

(* Disarm ignores an overtaken request and ends everything else.             *)
LEMMA DisarmShuts ==
    ASSUME Bounds, NEW w \in Windows, NEW g \in Gens
    PROVE  /\ Disarm(w, g) \in Windows
           /\ \/ Disarm(w, g) = w /\ g < w.last
              \/ Shut(w, Disarm(w, g))
<1>1. CASE g < w.last BY <1>1 DEF Disarm
<1>2. CASE ~(g < w.last)
  <2>1. PICK s \in {"DISABLED", "LOCKED"} : Disarm(w, g) = [Ended(w, s) EXCEPT !.last = g]
    BY <1>2 DEF Disarm
  <2>2. Ended(w, s) \in Windows /\ Shut(w, Ended(w, s)) BY EndedShuts
  <2> HIDE DEF Ended
  <2>3. Disarm(w, g) \in Windows BY <2>1, <2>2 DEF Windows
  <2>4. Shut(w, Disarm(w, g)) BY <2>1, <2>2 DEF Shut, Windows
  <2> QED BY <2>3, <2>4
<1> QED BY <1>1, <1>2

(* A readiness result opens the window of its ARM: the newest request.       *)
Opens ==
    /\ ArmDecide /\ arm.fence /\ win.state = "ARMING" /\ win.last = arm.gen
    /\ win'.state = "ENABLED" /\ win'.open = arm.gen /\ win'.epoch = win.epoch
    /\ win'.last = win.last /\ UNCHANGED hb

(* An ARM newer than what the controller knows begins.                       *)
Begins(p) ==
    /\ PollArm(p) /\ win.last < poll[p].gen
    /\ win'.state = "ARMING" /\ win'.open = 0 /\ win'.epoch = win.epoch /\ hb' = "ARMING"

(* What a step can do to the window and to what the heartbeat reports.       *)
LEMMA WindowMoves ==
    ASSUME Bounds, TypeInv, [Next]_vars
    PROVE  /\ win' \in Windows
           /\ hb' = hb \/ hb' = win'.state
           /\ Same(win, win') \/ Shut(win, win') \/ Opens \/ Restart \/ \E p \in Pollers : Begins(p)
<1>0. win \in Windows /\ arm \in ArmTasks /\ poll \in [Pollers -> Polls] BY DEF TypeInv
<1>1. CASE UNCHANGED <<win, hb>> BY <1>0, <1>1 DEF Same
<1>2. CASE \/ AdminArm \/ AdminDisarm \/ ArmFence \/ JobAbandoned \/ JobProbeFails \/ JobPost
           \/ PeerAppears \/ PeerGone \/ UNCHANGED vars \/ \E p \in Pollers : PollClaim(p)
  BY <1>1, <1>2 DEF AdminArm, AdminDisarm, ArmFence, JobAbandoned, JobProbeFails, JobPost, PeerAppears,
       PeerGone, vars, PollClaim
<1>3. CASE Heartbeat \/ ArmCommit
  <2>1. win' = ExpireIfNeeded(win) /\ hb' = win'.state BY <1>3 DEF Heartbeat, ArmCommit
  <2> QED BY <1>0, <2>1, ExpiryShuts DEF Same
<1>4. CASE ReadinessFails
  <2>1. PICK st \in {"LOCKED", "DISABLED"} :
           win' = IF CanFinalize(win, arm.gen) THEN Ended(win, st) ELSE ExpireIfNeeded(win)
    BY <1>4 DEF ReadinessFails
  <2>2. hb' = win'.state BY <1>4 DEF ReadinessFails
  <2> QED BY <1>0, <2>1, <2>2, ExpiryShuts, EndedShuts DEF Same
<1>5. CASE ArmCommitFails
  <2>1. win' = Ended(win, "LOCKED") /\ hb' = "LOCKED" BY <1>5 DEF ArmCommitFails
  <2> QED BY <1>0, <2>1, EndedShuts
<1>6. CASE ArmDecide
  <2>1. CASE arm.fence /\ arm.single /\ CanFinalize(win, arm.gen)
    <3>1. win' = OpenWindow(win, arm.gen) /\ UNCHANGED hb BY <1>6, <2>1 DEF ArmDecide
    <3>2. arm.gen \in Gens /\ 0 \in Gens /\ TTL \in 0..TTL BY <1>0 DEF ArmTasks, Bounds, Gens
    <3>3. win' \in Windows BY <1>0, <3>1, <3>2 DEF OpenWindow, Windows, States
    <3>4. /\ win'.state = "ENABLED" /\ win'.open = arm.gen /\ win'.epoch = win.epoch
          /\ win'.last = win.last
      BY <1>0, <3>1 DEF OpenWindow, Windows
    <3> QED BY <1>6, <2>1, <3>1, <3>3, <3>4 DEF Opens, CanFinalize
  <2>2. CASE ~(arm.fence /\ arm.single /\ CanFinalize(win, arm.gen))
    <3>1. hb' = win'.state /\ \E st \in {"LOCKED", "DISABLED"} : win' = Ended(win, st)
      BY <1>6, <2>2 DEF ArmDecide
    <3> QED BY <1>0, <3>1, EndedShuts
  <2> QED BY <2>1, <2>2
<1>7. CASE MaintainWindow
  <2>1. win' = ExpireIfNeeded(win) \/ (win' = Ended(ExpireIfNeeded(win), "LOCKED") /\ ExpireIfNeeded(win) = win)
    BY <1>0, <1>7, ExpiryShuts DEF MaintainWindow
  <2>2. hb' = hb \/ hb' = win'.state BY <1>7 DEF MaintainWindow
  <2> QED BY <1>0, <2>1, <2>2, ExpiryShuts, EndedShuts DEF Same
<1>8. CASE JobStart \/ JobSnapshot \/ JobFence \/ JobAuthorize
  <2>1. UNCHANGED hb BY <1>8 DEF JobStart, JobSnapshot, JobFence, JobAuthorize
  <2>2. \/ win' = win \/ win' = ExpireIfNeeded(win)
        \/ win' = Ended(win, "LOCKED")
        \/ win' = Ended(ExpireIfNeeded(win), "LOCKED") /\ ExpireIfNeeded(win).state = "ENABLED"
    BY <1>8 DEF JobStart, JobSnapshot, JobFence, JobAuthorize
  <2> QED BY <1>0, <2>1, <2>2, ExpiryShuts, EndedShuts DEF Same
<1>9. CASE Tick
  <2>1. win' = [win EXCEPT !.left = @ - 1] /\ UNCHANGED hb /\ win.left > 0 BY <1>9 DEF Tick
  <2>2. win.left - 1 \in 0..TTL BY <1>0, <2>1 DEF Windows, Bounds
  <2> QED BY <1>0, <2>1, <2>2 DEF Windows, Same
<1>10. CASE Restart
  BY <1>10 DEF Restart, NewWindow, Windows, States, Gens, Bounds
<1>11. ASSUME NEW p \in Pollers, PollDisarm(p)
       PROVE  win' \in Windows /\ hb' = win'.state /\ (Same(win, win') \/ Shut(win, win'))
  <2>1. win' = Disarm(win, poll[p].gen) /\ hb' = win'.state BY <1>11 DEF PollDisarm
  <2>2. poll[p].gen \in Gens BY <1>0 DEF Polls
  <2> QED BY <1>0, <2>1, <2>2, DisarmShuts DEF Same
<1>12. ASSUME NEW p \in Pollers, PollArm(p)
       PROVE  /\ win' \in Windows /\ (hb' = hb \/ hb' = win'.state)
              /\ Same(win, win') \/ Begins(p)
  <2>1. poll[p].gen \in Gens BY <1>0 DEF Polls
  <2>2. CASE poll[p].gen <= win.last
    BY <1>0, <1>12, <2>2 DEF PollArm, Same
  <2>3. CASE ~(poll[p].gen <= win.last)
    <3>1. win' = BeginArm(win, poll[p].gen) /\ hb' = "ARMING" BY <1>12, <2>3 DEF PollArm
    <3>2. 0 \in Gens /\ 0 \in 0..TTL BY DEF Gens, Bounds
    <3>3. win' \in Windows BY <1>0, <2>1, <3>1, <3>2 DEF BeginArm, Windows, States
    <3>4. win'.state = "ARMING" /\ win'.open = 0 /\ win'.epoch = win.epoch
      BY <1>0, <3>1 DEF BeginArm, Windows
    <3>5. win.last < poll[p].gen BY <1>0, <2>1, <2>3 DEF Windows, Gens
    <3> QED BY <1>12, <3>1, <3>3, <3>4, <3>5 DEF Begins
  <2> QED BY <2>2, <2>3
<1>13. ASSUME NEW p \in Pollers, PollLaunch(p)
       PROVE  win' \in Windows /\ (hb' = hb \/ hb' = win'.state) /\ (Same(win, win') \/ Shut(win, win'))
  <2>1. UNCHANGED <<win, hb>> \/ (win' = Ended(win, "LOCKED") /\ hb' = "LOCKED") BY <1>13 DEF PollLaunch
  <2> QED BY <1>0, <2>1, EndedShuts DEF Same
<1> QED BY <1>2, <1>3, <1>4, <1>5, <1>6, <1>7, <1>8, <1>9, <1>10, <1>11, <1>12, <1>13
        DEF Next, Poll, JobStep

-----------------------------------------------------------------------------
(* The requests *)

(* The operator adds a request; an ARM only while the window is not taken.   *)
Requests(a) ==
    /\ Len(ctl') = Len(ctl) + 1 /\ \A g \in 1..Len(ctl) : ctl'[g] = ctl[g]
    /\ ctl'[Len(ctl) + 1] = [action |-> a, state |-> "REQUESTED"]
    /\ FenceFree /\ (a = "ARM" => hb \in {"DISABLED", "LOCKED"})
    /\ UNCHANGED <<win, arm, poll, job>>

(* A loop consumes a request.                                                *)
Consumes(p, g) ==
    /\ g \in 1..Len(ctl) /\ Len(ctl') = Len(ctl) /\ poll[p].pc = "idle"
    /\ \A h \in 1..Len(ctl) : /\ ctl'[h].action = ctl[h].action
                              /\ ctl'[h].state = IF h = g THEN "CONSUMED" ELSE ctl[h].state
    /\ poll' = [poll EXCEPT ![p] = [pc |-> "apply", gen |-> g]]
    /\ UNCHANGED <<win, arm, job>>

(* What a step can do to the requests.                                       *)
LEMMA RequestMoves ==
    ASSUME Bounds, TypeInv, [Next]_vars
    PROVE  /\ ctl' \in Seq(ControlRows) /\ Len(ctl') <= MaxControls
           /\ \/ UNCHANGED ctl \/ Restart
              \/ \E a \in {"ARM", "DISARM"} : Requests(a)
              \/ \E p \in Pollers, g \in 1..Len(ctl) : Consumes(p, g)
<1>0. ctl \in Seq(ControlRows) /\ Len(ctl) <= MaxControls /\ Len(ctl) \in Nat
  BY LenProperties DEF TypeInv
<1>1. CASE UNCHANGED ctl BY <1>0, <1>1
<1>2. CASE AdminArm \/ AdminDisarm
  <2>1. PICK a \in {"ARM", "DISARM"} :
           /\ ctl' = Append(ctl, [action |-> a, state |-> "REQUESTED"])
           /\ FenceFree /\ (a = "ARM" => hb \in {"DISABLED", "LOCKED"})
    BY <1>2 DEF AdminArm, AdminDisarm, Request
  <2>2. UNCHANGED <<win, arm, poll, job>> /\ Len(ctl) < MaxControls BY <1>2 DEF AdminArm, AdminDisarm
  <2>3. [action |-> a, state |-> "REQUESTED"] \in ControlRows BY DEF ControlRows
  <2>4. /\ ctl' \in Seq(ControlRows) /\ Len(ctl') = Len(ctl) + 1
        /\ \A g \in 1..Len(ctl) : ctl'[g] = ctl[g]
        /\ ctl'[Len(ctl) + 1] = [action |-> a, state |-> "REQUESTED"]
    BY <1>0, <2>1, <2>3, AppendProperties
  <2>5. Requests(a) BY <2>1, <2>2, <2>4 DEF Requests
  <2> QED BY <1>0, <2>2, <2>4, <2>5 DEF Bounds
<1>3. ASSUME NEW p \in Pollers, PollClaim(p)
      PROVE  /\ ctl' \in Seq(ControlRows) /\ Len(ctl') <= MaxControls
             /\ \E g \in 1..Len(ctl) : Consumes(p, g)
  <2>1. PICK g \in DOMAIN ctl :
           /\ ctl' = [ctl EXCEPT ![g].state = "CONSUMED"]
           /\ poll' = [poll EXCEPT ![p] = [pc |-> "apply", gen |-> g]]
    BY <1>3 DEF PollClaim, Requested
  <2> DEFINE c == [ctl[g] EXCEPT !.state = "CONSUMED"]
  <2>2. g \in 1..Len(ctl) BY <1>0, LenProperties
  <2>3. ctl[g] \in ControlRows BY <1>0, <2>2, ElementOfSeq
  <2>4. c \in ControlRows /\ c.state = "CONSUMED" /\ c.action = ctl[g].action BY <2>3 DEF ControlRows
  <2>5. ctl' = [ctl EXCEPT ![g] = c] BY <2>1
  <2> HIDE DEF c
  <2>6. /\ ctl' \in Seq(ControlRows) /\ Len(ctl') = Len(ctl)
        /\ \A h \in 1..Len(ctl) : ctl'[h] = IF h = g THEN c ELSE ctl[h]
    BY <1>0, <2>2, <2>4, <2>5, ExceptSeq
  <2>7. \A h \in 1..Len(ctl) : /\ ctl'[h].action = ctl[h].action
                              /\ ctl'[h].state = IF h = g THEN "CONSUMED" ELSE ctl[h].state
    BY <2>4, <2>6
  <2>8. UNCHANGED <<win, arm, job>> /\ poll[p].pc = "idle" BY <1>3 DEF PollClaim
  <2>9. Consumes(p, g) BY <2>1, <2>2, <2>6, <2>7, <2>8 DEF Consumes
  <2> QED BY <1>0, <2>2, <2>6, <2>9
<1>4. CASE Restart
  <2>1. ctl' = <<>> BY <1>4 DEF Restart
  <2> QED BY <1>4, <2>1, EmptySeq DEF Bounds
<1>5. CASE \/ ReadinessFails \/ ArmFence \/ ArmDecide \/ ArmCommit \/ ArmCommitFails
           \/ MaintainWindow \/ Heartbeat \/ JobStart \/ JobAbandoned \/ JobProbeFails \/ JobStep
           \/ Tick \/ PeerAppears \/ PeerGone \/ UNCHANGED vars
           \/ \E p \in Pollers : PollDisarm(p) \/ PollArm(p) \/ PollLaunch(p)
  BY <1>1, <1>5 DEF ReadinessFails, ArmFence, ArmDecide, ArmCommit, ArmCommitFails, MaintainWindow,
       Heartbeat, JobStart, JobAbandoned, JobProbeFails, JobStep, JobSnapshot, JobFence, JobAuthorize,
       JobPost, Tick, PeerAppears, PeerGone, vars, PollDisarm, PollArm, PollLaunch
<1> QED BY <1>2, <1>3, <1>4, <1>5 DEF Next, Poll

-----------------------------------------------------------------------------
(* The tasks *)

(* A loop is done with its request.                                          *)
Drops(p) ==
    /\ poll' = [poll EXCEPT ![p] = NoPoll] /\ UNCHANGED ctl
    /\ \/ PollDisarm(p)
       \/ poll[p].pc = "apply" /\ ctl[poll[p].gen].action = "ARM"
       \/ poll[p].pc = "launch"

(* A loop goes on to start the ARM task.                                     *)
Launches(p) ==
    /\ poll' = [poll EXCEPT ![p].pc = "launch"] /\ UNCHANGED ctl
    /\ poll[p].pc = "apply" /\ ctl[poll[p].gen].action = "ARM"

(* What a step can do to the loops.                                          *)
LEMMA PollMoves ==
    ASSUME Bounds, TypeInv, [Next]_vars
    PROVE  /\ poll' \in [Pollers -> Polls]
           /\ \/ UNCHANGED poll /\ (UNCHANGED ctl \/ \E a \in {"ARM", "DISARM"} : Requests(a))
              \/ Restart
              \/ \E p \in Pollers, g \in 1..Len(ctl) : Consumes(p, g)
              \/ \E p \in Pollers : Drops(p) \/ Launches(p)
<1>0. poll \in [Pollers -> Polls] /\ 0 \in Gens /\ NoPoll \in Polls
  BY DEF TypeInv, Bounds, Gens, NoPoll, Polls
<1>1. CASE UNCHANGED <<poll, ctl>> BY <1>0, <1>1
<1>2. CASE \E a \in {"ARM", "DISARM"} : Requests(a) BY <1>0, <1>2 DEF Requests
<1>3. ASSUME NEW p \in Pollers, NEW g \in 1..Len(ctl), Consumes(p, g) PROVE poll' \in [Pollers -> Polls]
  <2>1. Len(ctl) \in Nat /\ Len(ctl) <= MaxControls BY LenProperties DEF TypeInv
  <2>2. g \in Gens BY <2>1 DEF Gens, Bounds
  <2> QED BY <1>0, <1>3, <2>2 DEF Consumes, Polls
<1>4. ASSUME NEW p \in Pollers, PollDisarm(p) \/ PollLaunch(p)
      PROVE  Drops(p) /\ poll' \in [Pollers -> Polls]
  BY <1>0, <1>4 DEF PollDisarm, PollLaunch, Drops
<1>5. ASSUME NEW p \in Pollers, PollArm(p)
      PROVE  (Drops(p) \/ Launches(p)) /\ poll' \in [Pollers -> Polls]
  <2>1. Drops(p) \/ Launches(p) BY <1>5 DEF PollArm, Drops, Launches
  <2> QED BY <1>0, <2>1 DEF Drops, Launches, Polls
<1>6. CASE Restart BY <1>0, <1>6 DEF Restart
<1>7. CASE \/ ReadinessFails \/ ArmFence \/ ArmDecide \/ ArmCommit \/ ArmCommitFails
           \/ MaintainWindow \/ Heartbeat \/ JobStart \/ JobAbandoned \/ JobProbeFails \/ JobStep
           \/ Tick \/ PeerAppears \/ PeerGone \/ UNCHANGED vars
  BY <1>1, <1>7 DEF ReadinessFails, ArmFence, ArmDecide, ArmCommit, ArmCommitFails, MaintainWindow,
       Heartbeat, JobStart, JobAbandoned, JobProbeFails, JobStep, JobSnapshot, JobFence, JobAuthorize,
       JobPost, Tick, PeerAppears, PeerGone, vars
<1>8. CASE AdminArm \/ AdminDisarm
  <2>1. UNCHANGED poll BY <1>8 DEF AdminArm, AdminDisarm
  <2> QED BY <1>1, <1>2, <1>3, <1>6, <2>1, RequestMoves
<1>9. ASSUME NEW p \in Pollers, PollClaim(p), UNCHANGED ctl PROVE FALSE
  <2>1. PICK g \in Requested : ctl' = [ctl EXCEPT ![g].state = "CONSUMED"] BY <1>9 DEF PollClaim
  <2>2. ctl[g] \in ControlRows BY ElementOfSeq, LenProperties DEF Requested, TypeInv
  <2>3. ctl'[g].state = "CONSUMED" BY <2>1, <2>2 DEF Requested, ControlRows
  <2> QED BY <1>9, <2>3 DEF Requested
<1> QED BY <1>2, <1>3, <1>4, <1>5, <1>6, <1>7, <1>8, <1>9, RequestMoves DEF Next, Poll

(* What a step can do to the ARM task.                                       *)
LEMMA ArmMoves ==
    ASSUME Bounds, TypeInv, [Next]_vars
    PROVE  /\ arm' \in ArmTasks
           /\ \/ UNCHANGED arm \/ arm'.pc = "none"
              \/ ArmFence /\ arm'.gen = arm.gen /\ arm'.fence = FenceOk(arm.gen) /\ UNCHANGED ctl
              \/ ArmDecide /\ arm'.gen = arm.gen /\ arm'.pc = "commit" /\ UNCHANGED ctl
              \/ \E p \in Pollers : /\ PollLaunch(p) /\ arm'.gen = poll[p].gen /\ arm'.pc = "readiness"
                                     /\ UNCHANGED ctl
<1>0. arm \in ArmTasks /\ poll \in [Pollers -> Polls] /\ NoArm \in ArmTasks /\ NoArm.pc = "none"
  BY DEF TypeInv, Bounds, Gens, NoArm, ArmTasks
<1>1. CASE UNCHANGED arm BY <1>0, <1>1
<1>2. CASE arm' = NoArm BY <1>0, <1>2
<1>3. CASE ArmFence
  <2>1. FenceOk(arm.gen) \in BOOLEAN /\ (FenceOk(arm.gen) /\ ~peer) \in BOOLEAN BY DEF FenceOk
  <2>2. arm' = [arm EXCEPT !.pc = "decide", !.fence = FenceOk(arm.gen),
                           !.single = FenceOk(arm.gen) /\ ~peer] /\ UNCHANGED ctl
    BY <1>3 DEF ArmFence
  <2> QED BY <1>0, <1>3, <2>1, <2>2 DEF ArmTasks
<1>4. CASE ArmDecide BY <1>0, <1>2, <1>4 DEF ArmDecide, ArmTasks
<1>5. ASSUME NEW p \in Pollers, PollLaunch(p)
      PROVE  /\ arm' \in ArmTasks
             /\ UNCHANGED arm \/ (arm'.gen = poll[p].gen /\ arm'.pc = "readiness" /\ UNCHANGED ctl)
  <2>1. poll[p].gen \in Gens BY <1>0 DEF Polls
  <2> QED BY <1>0, <1>5, <2>1 DEF PollLaunch, ArmTasks, NoArm
<1>6. CASE \/ AdminArm \/ AdminDisarm \/ Heartbeat \/ JobStart \/ JobAbandoned \/ JobProbeFails \/ JobStep
           \/ Tick \/ PeerAppears \/ PeerGone \/ UNCHANGED vars
           \/ \E p \in Pollers : PollClaim(p) \/ PollArm(p)
  BY <1>1, <1>6 DEF AdminArm, AdminDisarm, Heartbeat, JobStart, JobAbandoned, JobProbeFails, JobStep,
       JobSnapshot, JobFence, JobAuthorize, JobPost, Tick, PeerAppears, PeerGone, vars, PollClaim, PollArm
<1>7. CASE \/ ReadinessFails \/ ArmCommit \/ ArmCommitFails \/ MaintainWindow \/ Restart
           \/ \E p \in Pollers : PollDisarm(p)
  <2>1. arm' = NoArm \/ arm' = arm
    BY <1>7 DEF ReadinessFails, ArmCommit, ArmCommitFails, MaintainWindow, Restart, PollDisarm
  <2> QED BY <1>1, <1>2, <2>1
<1> QED BY <1>3, <1>4, <1>5, <1>6, <1>7 DEF Next, Poll

(* What a step can do to the order attempt: only its snapshot, its fence and *)
(* the final authorization bring it nearer to the POST.                      *)
LEMMA JobMoves ==
    ASSUME Bounds, TypeInv, [Next]_vars
    PROVE  /\ job' \in Attempts
           /\ \/ UNCHANGED job \/ job'.pc \in {"idle", "prepare"}
              \/ /\ job'.pc = "probe" /\ job'.epoch = win'.epoch /\ job'.gen = win'.open
                 /\ win'.state = "ENABLED"
              \/ /\ job.pc = "probe" /\ win.state = "ENABLED" /\ win.epoch = job.epoch
                 /\ UNCHANGED <<win, ctl, poll>>
                 /\ job'.pc = "authorize" /\ job'.epoch = job.epoch /\ job'.gen = job.gen
              \/ /\ job.pc = "authorize" /\ UNCHANGED <<win, ctl, poll>>
                 /\ job'.pc = "post" /\ job'.epoch = job.epoch /\ job'.gen = job.gen
<1>0. job \in Attempts /\ win \in Windows /\ win' \in Windows /\ NoJob \in Attempts /\ NoJob.pc = "idle"
  BY WindowMoves DEF TypeInv, Bounds, Gens, NoJob, Attempts
<1>1. CASE UNCHANGED job BY <1>0, <1>1
<1>2. CASE job' = NoJob BY <1>0, <1>2
<1>3. CASE JobStart
  <2>1. job' = NoJob \/ job' = [NoJob EXCEPT !.pc = "prepare"] BY <1>3 DEF JobStart, Refuse
  <2> QED BY <1>0, <2>1 DEF Attempts, NoJob
<1>4. CASE JobSnapshot
  <2>1. CASE win'.state = "ENABLED"
    <3>1. job' = [pc |-> "probe", epoch |-> win'.epoch, gen |-> win'.open]
      BY <1>4, <2>1 DEF JobSnapshot
    <3> QED BY <1>0, <2>1, <3>1 DEF Attempts, Windows
  <2>2. CASE win'.state # "ENABLED" BY <1>2, <1>4, <2>2 DEF JobSnapshot, Refuse
  <2> QED BY <2>1, <2>2
<1>5. CASE JobFence
  <2>1. CASE job' = NoJob BY <1>2, <2>1
  <2>2. CASE job' # NoJob
    <3>1. /\ job' = [job EXCEPT !.pc = "authorize"] /\ win' = ExpireIfNeeded(win)
          /\ win'.state = "ENABLED" /\ win'.epoch = job.epoch /\ job.pc = "probe" /\ UNCHANGED <<ctl, poll>>
      BY <1>5, <2>2 DEF JobFence, Refuse
    <3>2. win' = win BY <1>0, <3>1, ExpiryShuts
    <3> QED BY <1>0, <3>1, <3>2 DEF Attempts
  <2> QED BY <2>1, <2>2
<1>6. CASE JobAuthorize
  <2>1. CASE job' = NoJob BY <1>2, <2>1
  <2>2. CASE job' # NoJob
    <3>1. /\ job' = [job EXCEPT !.pc = "post"] /\ job.pc = "authorize"
          /\ UNCHANGED <<win, ctl, poll>>
      BY <1>6, <2>2 DEF JobAuthorize, Refuse
    <3> QED BY <1>0, <3>1 DEF Attempts
  <2> QED BY <2>1, <2>2
<1>7. CASE JobAbandoned \/ JobProbeFails \/ JobPost \/ Restart
  BY <1>2, <1>7 DEF JobAbandoned, JobProbeFails, JobPost, Restart, Refuse
<1>8. CASE \/ AdminArm \/ AdminDisarm \/ ReadinessFails \/ ArmFence \/ ArmDecide \/ ArmCommit
           \/ ArmCommitFails \/ MaintainWindow \/ Heartbeat \/ Tick \/ PeerAppears \/ PeerGone
           \/ UNCHANGED vars \/ \E p \in Pollers : Poll(p)
  BY <1>1, <1>8 DEF AdminArm, AdminDisarm, ReadinessFails, ArmFence, ArmDecide, ArmCommit,
       ArmCommitFails, MaintainWindow, Heartbeat, Tick, PeerAppears, PeerGone, vars, Poll, PollClaim,
       PollDisarm, PollArm, PollLaunch
<1> QED BY <1>3, <1>4, <1>5, <1>6, <1>7, <1>8 DEF Next, JobStep

-----------------------------------------------------------------------------
(* The induction *)

(* The initial state satisfies the invariant.                                *)
LEMMA InitInv == ASSUME Bounds, Init PROVE TypeInv /\ Inv
<1> USE DEF Init, Process, NewWindow, NoArm, NoPoll, NoJob
<1>1. ctl \in Seq(ControlRows) /\ Len(ctl) = 0 /\ DOMAIN ctl = {} BY EmptySeq
<1>2. TypeInv
  <2>1. 0 \in Gens /\ 0 \in 0..TTL /\ 0 <= MaxControls BY DEF Bounds, Gens
  <2>2. win \in Windows /\ hb \in States BY <2>1 DEF Windows, States
  <2>3. arm \in ArmTasks /\ job \in Attempts BY <2>1 DEF ArmTasks, Attempts
  <2>4. poll \in [Pollers -> Polls] BY <2>1 DEF Polls
  <2> QED BY <1>1, <2>1, <2>2, <2>3, <2>4 DEF TypeInv
<1>3. Inv
  BY <1>1 DEF Inv, PollsConsumed, WindowNewest, ArmNewest, EpochIdentifies, DisarmFinal
<1> QED BY <1>2, <1>3

(* Every step keeps the types.                                               *)
LEMMA NextTyped == ASSUME Bounds, TypeInv, [Next]_vars PROVE TypeInv'
<1>1. ctl' \in Seq(ControlRows) /\ Len(ctl') <= MaxControls BY RequestMoves
<1>2. win' \in Windows /\ hb' \in States BY WindowMoves DEF TypeInv, Windows
<1>3. arm' \in ArmTasks /\ poll' \in [Pollers -> Polls] /\ job' \in Attempts
  BY ArmMoves, PollMoves, JobMoves
<1>4. peer' \in BOOLEAN /\ peers' \in Nat /\ boot' \in Nat
  <2>1. CASE UNCHANGED <<peer, peers, boot>> BY <2>1 DEF TypeInv
  <2>2. CASE PeerAppears BY <2>2 DEF TypeInv, PeerAppears
  <2>3. CASE PeerGone BY <2>3 DEF TypeInv, PeerGone
  <2>4. CASE Restart BY <2>4 DEF TypeInv, Restart
  <2> QED BY <2>1, <2>2, <2>3, <2>4 DEF Next, vars, Poll, JobStep, AdminArm, AdminDisarm, PollClaim, PollDisarm,
         PollArm, PollLaunch, ReadinessFails, ArmFence, ArmDecide, ArmCommit, ArmCommitFails,
         MaintainWindow, Heartbeat, JobStart, JobAbandoned, JobProbeFails, JobSnapshot, JobFence,
         JobAuthorize, JobPost, Tick
<1> QED BY <1>1, <1>2, <1>3, <1>4 DEF TypeInv

(* The requests of a sequence are numbered from 1.                           *)
LEMMA Numbered ==
    ASSUME Bounds, TypeInv
    PROVE  DOMAIN ctl = 1..Len(ctl) /\ Len(ctl) \in Nat
BY LenProperties DEF TypeInv

(* After a restart there are no requests, tasks or windows.                  *)
LEMMA RestartInv == ASSUME Bounds, TypeInv', Restart PROVE Inv'
<1>1. DOMAIN ctl' = {} BY EmptySeq DEF Restart
<1> QED BY <1>1 DEF Restart, NewWindow, NoArm, NoPoll, NoJob, Inv, PollsConsumed, WindowNewest,
               ArmNewest, EpochIdentifies, DisarmFinal

(* Every step but a restart keeps what the loops and the ARM task hold.      *)
LEMMA TasksStay ==
    ASSUME Bounds, TypeInv, TypeInv', Inv, [Next]_vars, ~Restart
    PROVE  PollsConsumed' /\ ArmNewest'
<1>0. /\ DOMAIN ctl = 1..Len(ctl) /\ Len(ctl) \in Nat
      /\ DOMAIN ctl' = 1..Len(ctl') /\ Len(ctl') \in Nat
      /\ PollsConsumed /\ ArmNewest /\ poll \in [Pollers -> Polls] /\ arm \in ArmTasks
  BY Numbered, LenProperties DEF Inv, TypeInv
<1>1. \A g \in DOMAIN ctl : /\ g \in DOMAIN ctl' /\ ctl'[g].action = ctl[g].action
                            /\ ctl[g].state = "CONSUMED" => ctl'[g].state = "CONSUMED"
  <2>1. CASE UNCHANGED ctl BY <2>1
  <2>2. CASE \E a \in {"ARM", "DISARM"} : Requests(a)
    <3>1. Len(ctl') = Len(ctl) + 1 /\ \A g \in 1..Len(ctl) : ctl'[g] = ctl[g] BY <2>2 DEF Requests
    <3> QED BY <1>0, <3>1
  <2>3. ASSUME NEW p \in Pollers, NEW h \in 1..Len(ctl), Consumes(p, h)
        PROVE  \A g \in DOMAIN ctl : /\ g \in DOMAIN ctl' /\ ctl'[g].action = ctl[g].action
                                     /\ ctl[g].state = "CONSUMED" => ctl'[g].state = "CONSUMED"
    BY <1>0, <2>3 DEF Consumes
  <2> QED BY <2>1, <2>2, <2>3, RequestMoves
<1>2. PollsConsumed'
  <2> SUFFICES ASSUME NEW p \in Pollers
               PROVE  /\ poll'[p].pc = "idle" => poll'[p].gen = 0
                      /\ poll'[p].pc # "idle" => /\ poll'[p].gen \in DOMAIN ctl'
                                                 /\ ctl'[poll'[p].gen].state = "CONSUMED"
                      /\ poll'[p].pc = "launch" => ctl'[poll'[p].gen].action = "ARM"
    BY DEF PollsConsumed
  <2>1. CASE poll'[p] = poll[p] BY <1>0, <1>1, <2>1 DEF PollsConsumed
  <2>2. CASE poll'[p] = NoPoll BY <2>2 DEF NoPoll
  <2>3. ASSUME NEW q \in Pollers, NEW g \in 1..Len(ctl), Consumes(q, g), p = q
        PROVE  poll'[p].pc = "apply" /\ poll'[p].gen \in DOMAIN ctl' /\ ctl'[poll'[p].gen].state = "CONSUMED"
    BY <1>0, <2>3 DEF Consumes
  <2>4. CASE Launches(p)
    <3>1. /\ poll'[p].gen = poll[p].gen /\ poll'[p].pc = "launch"
          /\ poll[p].pc = "apply" /\ ctl[poll[p].gen].action = "ARM"
      BY <1>0, <2>4 DEF Launches, Polls
    <3> QED BY <1>0, <1>1, <3>1 DEF PollsConsumed
  <2>5. \/ poll'[p] = poll[p] \/ poll'[p] = NoPoll \/ Launches(p)
        \/ \E g \in 1..Len(ctl) : Consumes(p, g)
    <3>1. CASE UNCHANGED poll BY <3>1
    <3>2. ASSUME NEW q \in Pollers, NEW g \in 1..Len(ctl), Consumes(q, g), p # q PROVE poll'[p] = poll[p]
      BY <1>0, <3>2 DEF Consumes
    <3>3. ASSUME NEW q \in Pollers, Drops(q) PROVE poll'[p] = poll[p] \/ poll'[p] = NoPoll
      BY <1>0, <3>3 DEF Drops
    <3>4. ASSUME NEW q \in Pollers, Launches(q), p # q PROVE poll'[p] = poll[p]
      BY <1>0, <3>4 DEF Launches
    <3> QED BY <3>1, <3>2, <3>3, <3>4, PollMoves
  <2> QED BY <2>1, <2>2, <2>3, <2>4, <2>5
<1>3. ArmNewest'
  <2>1. CASE UNCHANGED arm
    <3>1. arm.pc = "decide" => Len(ctl') = Len(ctl)
      BY <1>0, RequestMoves DEF Requests, Consumes, FenceFree
    <3> QED BY <1>0, <1>1, <2>1, <3>1 DEF ArmNewest
  <2>2. CASE arm'.pc = "none" BY <2>2 DEF ArmNewest
  <2>3. CASE ArmFence /\ arm'.gen = arm.gen /\ arm'.fence = FenceOk(arm.gen) /\ UNCHANGED ctl
    BY <1>0, <2>3 DEF ArmFence, FenceOk, ArmNewest
  <2>4. CASE ArmDecide /\ arm'.gen = arm.gen /\ arm'.pc = "commit" /\ UNCHANGED ctl
    BY <1>0, <2>4 DEF ArmDecide, ArmNewest
  <2>5. ASSUME NEW p \in Pollers, PollLaunch(p), arm'.gen = poll[p].gen, arm'.pc = "readiness",
               UNCHANGED ctl
        PROVE  ArmNewest'
    BY <1>0, <2>5 DEF PollLaunch, PollsConsumed, ArmNewest
  <2> QED BY <2>1, <2>2, <2>3, <2>4, <2>5, ArmMoves
<1> QED BY <1>2, <1>3

(* An ARM begins only while the window is closed: of the requests newer than *)
(* an open window none is an ARM.                                            *)
LEMMA BeginsClosed ==
    ASSUME Bounds, TypeInv, Inv, NEW p \in Pollers, Begins(p)
    PROVE  win.state # "ENABLED" /\ UNCHANGED ctl
<1>1. poll[p].pc = "apply" /\ ctl[poll[p].gen].action = "ARM" /\ UNCHANGED ctl BY DEF Begins, PollArm
<1>2. poll[p].gen \in DOMAIN ctl BY <1>1 DEF Inv, PollsConsumed
<1> QED BY <1>1, <1>2 DEF Begins, Inv, WindowNewest

(* Every step but a restart keeps the window's relation to the requests.     *)
LEMMA WindowStays ==
    ASSUME Bounds, TypeInv, TypeInv', Inv, [Next]_vars, ~Restart
    PROVE  WindowNewest'
<1>0. /\ DOMAIN ctl = 1..Len(ctl) /\ Len(ctl) \in Nat
      /\ DOMAIN ctl' = 1..Len(ctl') /\ Len(ctl') \in Nat
      /\ WindowNewest /\ ArmNewest /\ win \in Windows
  BY Numbered, LenProperties DEF Inv, TypeInv
<1>1. win'.state \in {"ARMING", "ENABLED"} => hb' \in {"ARMING", "ENABLED"}
  <2>1. CASE Same(win, win') BY <1>0, <2>1, WindowMoves DEF WindowNewest, Same
  <2>2. CASE Shut(win, win') BY <2>2 DEF Shut
  <2>3. CASE Opens BY <1>0, <2>3 DEF Opens, WindowNewest
  <2>4. CASE \E p \in Pollers : Begins(p) BY <2>4 DEF Begins
  <2> QED BY <2>1, <2>2, <2>3, <2>4, WindowMoves
<1>2. ASSUME win'.state = "ENABLED"
      PROVE  /\ win'.open = win'.last
             /\ \A g \in DOMAIN ctl' : win'.open < g => ctl'[g].action = "DISARM"
  <2>1. CASE Same(win, win')
    <3>1. win.state = "ENABLED" /\ win'.open = win.open /\ win'.last = win.last BY <1>2, <2>1 DEF Same
    <3>2. CASE UNCHANGED ctl BY <1>0, <3>1, <3>2 DEF WindowNewest
    <3>3. ASSUME NEW a \in {"ARM", "DISARM"}, Requests(a)
          PROVE  \A g \in DOMAIN ctl' : win'.open < g => ctl'[g].action = "DISARM"
      <4>1. a = "DISARM" BY <1>0, <3>1, <3>3 DEF Requests, WindowNewest
      <4>2. /\ Len(ctl') = Len(ctl) + 1 /\ \A g \in 1..Len(ctl) : ctl'[g] = ctl[g]
            /\ ctl'[Len(ctl) + 1].action = "DISARM"
        BY <3>3, <4>1 DEF Requests
      <4> QED BY <1>0, <3>1, <4>2 DEF WindowNewest
    <3>4. ASSUME NEW p \in Pollers, NEW h \in 1..Len(ctl), Consumes(p, h)
          PROVE  \A g \in DOMAIN ctl' : win'.open < g => ctl'[g].action = "DISARM"
      BY <1>0, <3>1, <3>4 DEF Consumes, WindowNewest
    <3> QED BY <1>0, <3>1, <3>2, <3>3, <3>4, RequestMoves DEF WindowNewest
  <2>2. CASE Opens
    <3>1. UNCHANGED ctl /\ arm.pc = "decide" /\ arm.fence BY <2>2 DEF Opens, ArmDecide
    <3> QED BY <1>0, <2>2, <3>1 DEF Opens, ArmNewest
  <2> QED BY <1>2, <2>1, <2>2, WindowMoves DEF Shut, Begins
<1> QED BY <1>1, <1>2 DEF WindowNewest

(* Every step but a restart keeps that an epoch identifies a window.         *)
LEMMA EpochStays ==
    ASSUME Bounds, TypeInv, TypeInv', Inv, [Next]_vars, ~Restart
    PROVE  EpochIdentifies'
<1>0. EpochIdentifies /\ job \in Attempts /\ win \in Windows /\ win' \in Windows BY DEF Inv, TypeInv
<1>n. job.epoch \in Nat /\ win.epoch \in Nat /\ win'.epoch \in Nat BY <1>0 DEF Attempts, Windows
<1>1. CASE UNCHANGED job
  <2>1. CASE Same(win, win') BY <1>0, <1>1, <2>1 DEF Same, EpochIdentifies
  <2>2. CASE Shut(win, win') BY <1>0, <1>n, <1>1, <2>2 DEF Shut, EpochIdentifies
  <2>3. CASE Opens BY <1>0, <1>n, <1>1, <2>3 DEF Opens, EpochIdentifies
  <2>4. ASSUME NEW p \in Pollers, Begins(p) PROVE EpochIdentifies'
    BY <1>0, <1>n, <1>1, <2>4, BeginsClosed DEF Begins, EpochIdentifies
  <2> QED BY <2>1, <2>2, <2>3, <2>4, WindowMoves
<1>2. CASE job'.pc \in {"idle", "prepare"} BY <1>2 DEF EpochIdentifies
<1>3. CASE /\ job'.pc = "probe" /\ job'.epoch = win'.epoch /\ job'.gen = win'.open
           /\ win'.state = "ENABLED"
  BY <1>n, <1>3 DEF EpochIdentifies
<1>4. CASE /\ job.pc \in {"probe", "authorize"} /\ UNCHANGED win
           /\ job'.epoch = job.epoch /\ job'.gen = job.gen
  BY <1>0, <1>4 DEF EpochIdentifies
<1> QED BY <1>1, <1>2, <1>3, <1>4, JobMoves

(* A DISARM that is applied after the step was applied before it, or is the  *)
(* one a loop has just dealt with.                                           *)
LEMMA NewlyApplied ==
    ASSUME Bounds, TypeInv, TypeInv', Inv, [Next]_vars, ~Restart,
           NEW g \in DOMAIN ctl', Applied(g)'
    PROVE  g \in DOMAIN ctl /\ (Applied(g) \/ \E p \in Pollers : PollDisarm(p) /\ poll[p].gen = g)
<1>0. /\ DOMAIN ctl = 1..Len(ctl) /\ Len(ctl) \in Nat
      /\ DOMAIN ctl' = 1..Len(ctl') /\ Len(ctl') \in Nat
      /\ PollsConsumed /\ poll \in [Pollers -> Polls]
  BY Numbered, LenProperties DEF Inv, TypeInv
<1>1. ctl'[g].action = "DISARM" /\ ctl'[g].state = "CONSUMED" /\ \A p \in Pollers : poll'[p].gen # g
  BY DEF Applied
<1>2. CASE UNCHANGED <<poll, ctl>> BY <1>0, <1>1, <1>2 DEF Applied
<1>3. ASSUME NEW a \in {"ARM", "DISARM"}, Requests(a) PROVE g \in DOMAIN ctl /\ Applied(g)
  <2>1. g \in 1..Len(ctl) /\ ctl'[g] = ctl[g] /\ UNCHANGED poll BY <1>0, <1>1, <1>3 DEF Requests
  <2> QED BY <1>0, <1>1, <2>1 DEF Applied
<1>4. ASSUME NEW p \in Pollers, NEW h \in 1..Len(ctl), Consumes(p, h)
      PROVE  g \in DOMAIN ctl /\ (Applied(g) \/ \E q \in Pollers : PollDisarm(q) /\ poll[q].gen = g)
  <2>1. g \in 1..Len(ctl) /\ ctl[g].action = "DISARM" BY <1>0, <1>1, <1>4 DEF Consumes
  <2>2. poll'[p].gen = h /\ \A q \in Pollers \ {p} : poll'[q] = poll[q] BY <1>0, <1>4 DEF Consumes
  <2>3. g # h /\ ctl[g].state = "CONSUMED" BY <1>1, <1>4, <2>1, <2>2 DEF Consumes
  <2>4. poll[p].gen # g BY <1>0, <1>4, <2>1 DEF Consumes, PollsConsumed
  <2> QED BY <1>0, <1>1, <2>1, <2>2, <2>3, <2>4 DEF Applied
<1>5. ASSUME NEW p \in Pollers, Drops(p)
      PROVE  g \in DOMAIN ctl /\ (Applied(g) \/ (PollDisarm(p) /\ poll[p].gen = g))
  <2>1. UNCHANGED ctl /\ \A q \in Pollers \ {p} : poll'[q] = poll[q] BY <1>0, <1>5 DEF Drops
  <2>2. PollDisarm(p) \/ poll[p].gen # g BY <1>0, <1>1, <1>5, <2>1 DEF Drops, PollsConsumed
  <2>3. poll[p].gen = g \/ Applied(g) BY <1>0, <1>1, <2>1 DEF Applied
  <2> QED BY <1>0, <2>1, <2>2, <2>3
<1>6. ASSUME NEW p \in Pollers, Launches(p) PROVE g \in DOMAIN ctl /\ Applied(g)
  <2>1. UNCHANGED ctl /\ \A q \in Pollers : poll'[q].gen = poll[q].gen BY <1>0, <1>6 DEF Launches, Polls
  <2> QED BY <1>0, <1>1, <2>1 DEF Applied
<1> QED BY <1>2, <1>3, <1>4, <1>5, <1>6, PollMoves

(* Every step but a restart keeps DISARM final.                              *)
LEMMA DisarmStays ==
    ASSUME Bounds, TypeInv, TypeInv', Inv, [Next]_vars, ~Restart
    PROVE  DisarmFinal'
<1>0. /\ DOMAIN ctl = 1..Len(ctl) /\ Len(ctl) \in Nat
      /\ WindowNewest /\ ArmNewest /\ EpochIdentifies /\ DisarmFinal
      /\ win \in Windows /\ poll \in [Pollers -> Polls]
  BY Numbered DEF Inv, TypeInv
<1> SUFFICES ASSUME NEW g \in DOMAIN ctl', Applied(g)'
             PROVE  /\ win'.state = "ENABLED" => g < win'.open
                    /\ job'.pc \in {"authorize", "post"} => g < job'.gen
  BY DEF DisarmFinal
<1>1. CASE Applied(g) /\ g \in DOMAIN ctl
  <2>1. ASSUME win'.state = "ENABLED" PROVE g < win'.open
    <3>1. CASE Same(win, win') BY <1>0, <1>1, <2>1, <3>1 DEF Same, DisarmFinal
    <3>2. CASE Opens
      <4>1. arm.gen = Len(ctl) /\ ctl[arm.gen].action = "ARM" BY <1>0, <3>2 DEF Opens, ArmDecide, ArmNewest
      <4>2. g # arm.gen BY <1>1, <4>1 DEF Applied
      <4> QED BY <1>0, <1>1, <3>2, <4>1, <4>2 DEF Opens
    <3> QED BY <2>1, <3>1, <3>2, WindowMoves DEF Shut, Begins
  <2>2. ASSUME job'.pc \in {"authorize", "post"} PROVE g < job'.gen
    <3>1. CASE UNCHANGED job BY <1>0, <1>1, <2>2, <3>1 DEF DisarmFinal
    <3>2. CASE /\ job.pc = "probe" /\ win.state = "ENABLED" /\ win.epoch = job.epoch
               /\ job'.gen = job.gen
      BY <1>0, <1>1, <3>2 DEF EpochIdentifies, DisarmFinal
    <3>3. CASE job.pc = "authorize" /\ job'.gen = job.gen BY <1>0, <1>1, <3>3 DEF DisarmFinal
    <3> QED BY <2>2, <3>1, <3>2, <3>3, JobMoves
  <2> QED BY <2>1, <2>2
<1>2. ASSUME NEW p \in Pollers, PollDisarm(p), poll[p].gen = g
      PROVE  /\ win'.state = "ENABLED" => g < win'.open
             /\ job'.pc \notin {"authorize", "post"}
  <2>1. win' = Disarm(win, g) /\ LockFree /\ UNCHANGED job BY <1>2 DEF PollDisarm
  <2>2. g \in Gens BY <1>0, <1>2 DEF Polls
  <2>3. (win' = win /\ g < win.last) \/ Shut(win, win') BY <1>0, <2>1, <2>2, DisarmShuts
  <2> QED BY <1>0, <2>1, <2>3 DEF Shut, WindowNewest, LockFree
<1> QED BY <1>1, <1>2, NewlyApplied

(* Every step keeps the invariant.                                           *)
LEMMA NextInv == ASSUME Bounds, TypeInv, Inv, [Next]_vars PROVE TypeInv' /\ Inv'
<1>1. TypeInv' BY NextTyped
<1>2. CASE Restart BY <1>1, <1>2, RestartInv
<1>3. CASE ~Restart BY <1>1, <1>3, TasksStay, WindowStays, EpochStays, DisarmStays DEF Inv
<1> QED BY <1>1, <1>2, <1>3

(* Every behaviour keeps the types and the invariant.                        *)
LEMMA Invariance == ASSUME Bounds PROVE Spec => [](TypeInv /\ Inv)
<1>1. Init => TypeInv /\ Inv BY InitInv
<1>2. TypeInv /\ Inv /\ [Next]_vars => (TypeInv /\ Inv)' BY NextInv
<1> QED BY <1>1, <1>2, PTL DEF Spec

-----------------------------------------------------------------------------
(* The theorems *)

(* The invariant contains the types the runs check.                          *)
LEMMA InvTypes == ASSUME TypeInv PROVE TypeOK
BY DEF TypeInv, TypeOK, ControlRows, Windows, States, ArmTasks, Polls, Attempts

(* The control rows, the window and the tasks keep their types: no request   *)
(* beyond the bound is ever named by a task or the window.                   *)
THEOREM TypeCorrect == ASSUME Bounds PROVE Spec => []TypeOK
<1>1. TypeInv /\ Inv => TypeOK BY InvTypes
<1> QED BY <1>1, Invariance, PTL

(* disarm, place_ioc: an applied DISARM is final for every older ARM.        *)
THEOREM DisarmIsFinal == ASSUME Bounds PROVE Spec => []NoPostAfterDisarm
<1>1. TypeInv /\ Inv => NoPostAfterDisarm BY DEF Inv, DisarmFinal, NoPostAfterDisarm
<1> QED BY <1>1, Invariance, PTL

(* A step opens only the window of the newest request.                       *)
LEMMA StepOpensNewest == ASSUME Bounds, TypeInv, Inv, [Next]_vars PROVE OpensNewest
<1>1. CASE Opens
  <2>1. arm.gen = Len(ctl) /\ UNCHANGED ctl BY <1>1 DEF Opens, ArmDecide, Inv, ArmNewest
  <2> QED BY <1>1, <2>1 DEF Opens, OpensNewest
<1>2. CASE Restart BY <1>2 DEF Restart, NewWindow, OpensNewest
<1> QED BY <1>1, <1>2, WindowMoves DEF Same, Shut, Begins, OpensNewest

(* arm_finalization_fence: a readiness result opens a window only if its ARM *)
(* is the newest request of this boot.                                       *)
THEOREM NewestArmWins == ASSUME Bounds PROVE Spec => NewestArmOpens
<1>1. TypeInv /\ Inv /\ [Next]_vars => [OpensNewest]_vars BY StepOpensNewest
<1> QED BY <1>1, Invariance, PTL DEF Spec, NewestArmOpens
=============================================================================
