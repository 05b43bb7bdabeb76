----------------------------- MODULE RisexWindow -----------------------------
(***************************************************************************)
(* The RISEx operational window of one execution-worker process: one-shot  *)
(* ARM and DISARM requests in PostgreSQL, the process-local window         *)
(* controller, the readiness task of an ARM, and the fence a RISEx order   *)
(* passes before its POST.                                                 *)
(*                                                                         *)
(* Tasks of the process: the consume loop (polls, then runs one job), the  *)
(* maintenance loop (polls, checks the window, heartbeats) and the ARM     *)
(* task. A task is interrupted only where the code awaits. The security    *)
(* context (build, URLs, environment) is fixed for the life of a process,  *)
(* so its fingerprint always matches; PAUSED is never entered, no code     *)
(* calls pause().                                                          *)
(***************************************************************************)
EXTENDS Integers, Sequences, FiniteSets

CONSTANTS
    MaxControls,    \* bound: ARM and DISARM requests per boot
    MaxBoots,       \* bound: process incarnations
    MaxPeers,       \* bound: times another execution-worker appears
    TTL             \* ticks a window lasts (24 hours)

VARIABLES
    ctl,            \* risex_execution_control rows of this boot, by generation
    win,            \* RISExOperationalWindowController
    arm,            \* _risex_arm_task
    poll,           \* _poll_risex_control_once of each loop
    job,            \* the RISEx order attempt of the consume loop
    hb,             \* reported_state of the last heartbeat
    peer,           \* another execution-worker has a fresh heartbeat
    peers, boot

vars == <<ctl, win, arm, poll, job, hb, peer, peers, boot>>

Pollers == {"consume", "maintenance"}
Gens    == 0..MaxControls

(* attempt, snap: generation and invalidation epoch of the ARM attempt;      *)
(* open: generation of the ARM that opened the window; left: time to expiry. *)
NewWindow == [state |-> "DISABLED", attempt |-> 0, snap |-> 0, open |-> 0,
              left |-> 0, epoch |-> 0, last |-> 0]
NoArm  == [pc |-> "none", gen |-> 0, fence |-> FALSE, single |-> FALSE]
NoPoll == [pc |-> "idle", gen |-> 0]
NoJob  == [pc |-> "idle", epoch |-> 0, gen |-> 0]

Process == /\ ctl = <<>> /\ win = NewWindow /\ arm = NoArm /\ job = NoJob
           /\ poll = [p \in Pollers |-> NoPoll] /\ hb = "DISABLED"

Init == Process /\ peer = FALSE /\ peers = 0 /\ boot = 1

-----------------------------------------------------------------------------
(* RISExOperationalWindowController *)

(* lock, disable, cancel_arm and disarm all end the authorization. *)
Ended(w, state) == [w EXCEPT !.state = state, !.attempt = 0, !.open = 0, !.left = 0,
                             !.epoch = @ + 1]

ExpireIfNeeded(w) ==
    IF w.state = "ENABLED" /\ w.left = 0 THEN Ended(w, "DISABLED") ELSE w

BeginArm(w, g) == [w EXCEPT !.last = g, !.open = 0, !.left = 0, !.attempt = g,
                            !.snap = w.epoch, !.state = "ARMING"]

CanFinalize(w, g) ==
    w.state = "ARMING" /\ w.attempt = g /\ w.last = g /\ w.snap = w.epoch

OpenWindow(w, g) == [w EXCEPT !.open = g, !.left = TTL, !.attempt = 0, !.state = "ENABLED"]

(* Mutant: DISARM cancels the attempt under way, not the open window. *)
Disarm_Arming(w, g) ==
    IF g < w.last \/ w.state = "ENABLED" THEN w
    ELSE [Ended(w, IF w.state = "LOCKED" THEN "LOCKED" ELSE "DISABLED") EXCEPT !.last = g]

Disarm(w, g) ==
    IF g < w.last THEN w
    ELSE [Ended(w, IF w.state = "LOCKED" THEN "LOCKED" ELSE "DISABLED") EXCEPT !.last = g]

-----------------------------------------------------------------------------
(* The operator. The ARM task holds the control fence from its check to its *)
(* commit, so no request is created meanwhile.                              *)

FenceFree == arm.pc \notin {"decide", "commit"}

Request(action) == ctl' = Append(ctl, [action |-> action, state |-> "REQUESTED"])

AdminArm ==
    /\ FenceFree /\ Len(ctl) < MaxControls
    /\ ~peer /\ hb \in {"DISABLED", "LOCKED"}
    /\ \A g \in DOMAIN ctl : ctl[g].state # "REQUESTED"
    /\ Request("ARM")
    /\ UNCHANGED <<win, arm, poll, job, hb, peer, peers, boot>>

AdminDisarm ==
    /\ FenceFree /\ Len(ctl) < MaxControls
    /\ Request("DISARM")
    /\ UNCHANGED <<win, arm, poll, job, hb, peer, peers, boot>>

-----------------------------------------------------------------------------
(* Polling. The submission lock is held by the job from its fence on; every *)
(* serialized transition waits for it.                                      *)

(* Mutant: transitions are not serialized with the POST. *)
LockFree_Unserialized == TRUE

LockFree == job.pc \notin {"authorize", "post"}

Requested == {g \in DOMAIN ctl : ctl[g].state = "REQUESTED"}

PollClaim(p) ==
    /\ poll[p].pc = "idle"
    /\ p = "consume" => job.pc = "idle"
    /\ \E g \in Requested :
          /\ \A h \in Requested : g <= h
          /\ ctl' = [ctl EXCEPT ![g].state = "CONSUMED"]
          /\ poll' = [poll EXCEPT ![p] = [pc |-> "apply", gen |-> g]]
    /\ UNCHANGED <<win, arm, job, hb, peer, peers, boot>>

(* DISARM: close the window under the lock, then cancel the ARM task. *)
PollDisarm(p) ==
    /\ poll[p].pc = "apply" /\ ctl[poll[p].gen].action = "DISARM"
    /\ LockFree
    /\ win' = Disarm(win, poll[p].gen)
    /\ arm' = NoArm
    /\ hb' = win'.state
    /\ poll' = [poll EXCEPT ![p] = NoPoll]
    /\ UNCHANGED <<ctl, job, peer, peers, boot>>

(* ARM: an overtaken generation is dropped. *)
PollArm(p) ==
    /\ poll[p].pc = "apply" /\ ctl[poll[p].gen].action = "ARM"
    /\ LockFree
    /\ LET g == poll[p].gen
       IN IF g <= win.last
          THEN poll' = [poll EXCEPT ![p] = NoPoll] /\ UNCHANGED <<win, hb>>
          ELSE /\ win' = BeginArm(win, g)
               /\ hb' = "ARMING"
               /\ poll' = [poll EXCEPT ![p].pc = "launch"]
    /\ UNCHANGED <<ctl, arm, job, peer, peers, boot>>

(* After the heartbeat: the singleton check, then a new ARM task that replaces *)
(* the previous one.                                                           *)
PollLaunch(p) ==
    /\ poll[p].pc = "launch"
    /\ IF peer
       THEN win' = Ended(win, "LOCKED") /\ hb' = "LOCKED" /\ arm' = arm
       ELSE /\ arm' = [NoArm EXCEPT !.pc = "readiness", !.gen = poll[p].gen]
            /\ UNCHANGED <<win, hb>>
    /\ poll' = [poll EXCEPT ![p] = NoPoll]
    /\ UNCHANGED <<ctl, job, peer, peers, boot>>

-----------------------------------------------------------------------------
(* The ARM task *)

(* Readiness fails: LOCKED for a security failure, DISABLED when the provider *)
(* was not reachable in time; nothing if the attempt is no longer current.    *)
ReadinessFails ==
    /\ arm.pc = "readiness"
    /\ \E state \in {"LOCKED", "DISABLED"} :
          win' = IF CanFinalize(win, arm.gen) THEN Ended(win, state) ELSE ExpireIfNeeded(win)
    /\ hb' = win'.state
    /\ arm' = NoArm
    /\ UNCHANGED <<ctl, poll, job, peer, peers, boot>>

(* Mutant: a newer request of the operator is not looked for. *)
FenceOk_Any(g) == ctl[g].action = "ARM" /\ ctl[g].state = "CONSUMED"

(* Readiness passes: the fence reads the newest generation under the lock   *)
(* shared with the operator's requests, then the heartbeats.                *)
FenceOk(g) == ctl[g].action = "ARM" /\ ctl[g].state = "CONSUMED" /\ g = Len(ctl)

ArmFence ==
    /\ arm.pc = "readiness"
    /\ arm' = [arm EXCEPT !.pc = "decide", !.fence = FenceOk(arm.gen),
                          !.single = FenceOk(arm.gen) /\ ~peer]
    /\ UNCHANGED <<ctl, win, poll, job, hb, peer, peers, boot>>

ArmDecide ==
    /\ arm.pc = "decide"
    /\ IF arm.fence /\ arm.single /\ CanFinalize(win, arm.gen)
       THEN /\ win' = OpenWindow(win, arm.gen)
            /\ arm' = [arm EXCEPT !.pc = "commit"]
            /\ UNCHANGED hb
       ELSE /\ win' = Ended(win, IF arm.single THEN "DISABLED" ELSE "LOCKED")
            /\ arm' = NoArm
            /\ hb' = win'.state
    /\ UNCHANGED <<ctl, poll, job, peer, peers, boot>>

ArmCommit ==
    /\ arm.pc = "commit"
    /\ arm' = NoArm
    /\ win' = ExpireIfNeeded(win)
    /\ hb' = win'.state
    /\ UNCHANGED <<ctl, poll, job, peer, peers, boot>>

ArmCommitFails ==
    /\ arm.pc = "commit" /\ LockFree
    /\ arm' = NoArm
    /\ win' = Ended(win, "LOCKED")
    /\ hb' = "LOCKED"
    /\ UNCHANGED <<ctl, poll, job, peer, peers, boot>>

-----------------------------------------------------------------------------
(* Maintenance and heartbeat *)

MaintainWindow ==
    /\ poll["maintenance"].pc = "idle" /\ LockFree
    /\ LET w == ExpireIfNeeded(win)
           lost == w.state \in {"ARMING", "ENABLED"} /\ peer
       IN /\ win' = IF lost THEN Ended(w, "LOCKED") ELSE w
          /\ arm' = IF lost THEN NoArm ELSE arm
          /\ hb' = IF win' # win THEN win'.state ELSE hb
    /\ UNCHANGED <<ctl, poll, job, peer, peers, boot>>

(* telemetry() expires the window too, and takes no lock. *)
Heartbeat ==
    /\ poll["maintenance"].pc = "idle"
    /\ win' = ExpireIfNeeded(win)
    /\ hb' = win'.state
    /\ UNCHANGED <<ctl, arm, poll, job, peer, peers, boot>>

-----------------------------------------------------------------------------
(* One RISEx order: _run_risex_copy_job and the continuous path of place_ioc *)

Refuse == job' = NoJob

JobStart ==
    /\ job.pc = "idle" /\ poll["consume"].pc = "idle"
    /\ LET w == ExpireIfNeeded(win)
       IN IF w.state # "ENABLED" THEN win' = w /\ Refuse
          ELSE IF peer THEN win' = Ended(w, "LOCKED") /\ Refuse
          ELSE win' = w /\ job' = [NoJob EXCEPT !.pc = "prepare"]
    /\ UNCHANGED <<ctl, arm, poll, hb, peer, peers, boot>>

(* The preparation fails before anything was sent. *)
JobAbandoned ==
    /\ job.pc = "prepare"
    /\ Refuse
    /\ UNCHANGED <<ctl, win, arm, poll, hb, peer, peers, boot>>

(* The snapshot before the freshness probe. *)
JobSnapshot ==
    /\ job.pc = "prepare"
    /\ win' = ExpireIfNeeded(win)
    /\ IF win'.state # "ENABLED" THEN Refuse
       ELSE job' = [pc |-> "probe", epoch |-> win'.epoch, gen |-> win'.open]
    /\ UNCHANGED <<ctl, arm, poll, hb, peer, peers, boot>>

(* The freshness probe is negative. *)
JobProbeFails ==
    /\ job.pc = "probe"
    /\ Refuse
    /\ UNCHANGED <<ctl, win, arm, poll, hb, peer, peers, boot>>

(* The fence after the probe takes the submission lock. *)
JobFence ==
    /\ job.pc = "probe"
    /\ LET w == ExpireIfNeeded(win)
       IN IF w.state # "ENABLED" THEN win' = w /\ Refuse
          ELSE IF w.epoch # job.epoch THEN win' = Ended(w, "LOCKED") /\ Refuse
          ELSE win' = w /\ job' = [job EXCEPT !.pc = "authorize"]
    /\ UNCHANGED <<ctl, arm, poll, hb, peer, peers, boot>>

(* final_authorizer reads the heartbeats once more. *)
JobAuthorize ==
    /\ job.pc = "authorize"
    /\ IF peer THEN win' = Ended(win, "LOCKED") /\ Refuse
       ELSE win' = win /\ job' = [job EXCEPT !.pc = "post"]
    /\ UNCHANGED <<ctl, arm, poll, hb, peer, peers, boot>>

JobPost ==
    /\ job.pc = "post"
    /\ Refuse
    /\ UNCHANGED <<ctl, win, arm, poll, hb, peer, peers, boot>>

-----------------------------------------------------------------------------
(* Environment *)

Tick ==
    /\ win.state = "ENABLED" /\ win.left > 0
    /\ win' = [win EXCEPT !.left = @ - 1]
    /\ UNCHANGED <<ctl, arm, poll, job, hb, peer, peers, boot>>

PeerAppears ==
    /\ ~peer /\ peers < MaxPeers
    /\ peer' = TRUE /\ peers' = peers + 1
    /\ UNCHANGED <<ctl, win, arm, poll, job, hb, boot>>

PeerGone ==
    /\ peer /\ peer' = FALSE
    /\ UNCHANGED <<ctl, win, arm, poll, job, hb, peers, boot>>

(* A new boot_id: the process-local window is gone and the requests of the  *)
(* old boot no longer match.                                                *)
Restart ==
    /\ boot < MaxBoots /\ boot' = boot + 1
    /\ ctl' = <<>> /\ win' = NewWindow /\ arm' = NoArm /\ job' = NoJob
    /\ poll' = [p \in Pollers |-> NoPoll] /\ hb' = "DISABLED"
    /\ UNCHANGED <<peer, peers>>

-----------------------------------------------------------------------------
Poll(p) == PollClaim(p) \/ PollDisarm(p) \/ PollArm(p) \/ PollLaunch(p)

JobStep == JobSnapshot \/ JobFence \/ JobAuthorize \/ JobPost

Next ==
    \/ AdminArm \/ AdminDisarm
    \/ \E p \in Pollers : Poll(p)
    \/ ReadinessFails \/ ArmFence \/ ArmDecide \/ ArmCommit \/ ArmCommitFails
    \/ MaintainWindow \/ Heartbeat
    \/ JobStart \/ JobAbandoned \/ JobProbeFails \/ JobStep
    \/ Tick \/ PeerAppears \/ PeerGone \/ Restart

(* The loops run for ever, every call they await has a timeout and the      *)
(* submission lock is first come, first served, so a waiting DISARM gets it *)
(* although orders follow each other (SF); the ARM task leaves the fence.   *)
Fairness ==
    /\ \A p \in Pollers : SF_vars(Poll(p))
    /\ WF_vars(JobStep)
    /\ WF_vars(ArmDecide) /\ WF_vars(ArmCommit)

Spec == Init /\ [][Next]_vars /\ Fairness

-----------------------------------------------------------------------------
(* Properties *)

(* Types of the control rows, the window, the tasks and the job. *)
TypeOK ==
    /\ ctl \in Seq([action : {"ARM", "DISARM"}, state : {"REQUESTED", "CONSUMED"}])
    /\ win \in [state : {"DISABLED", "ARMING", "ENABLED", "LOCKED"}, attempt : Gens,
                snap : Nat, open : Gens, left : 0..TTL, epoch : Nat, last : Gens]
    /\ arm \in [pc : {"none", "readiness", "decide", "commit"}, gen : Gens,
                fence : BOOLEAN, single : BOOLEAN]
    /\ poll \in [Pollers -> [pc : {"idle", "apply", "launch"}, gen : Gens]]
    /\ job \in [pc : {"idle", "prepare", "probe", "authorize", "post"}, epoch : Nat, gen : Gens]
    /\ peer \in BOOLEAN /\ peers \in Nat /\ boot \in Nat

(* A DISARM some loop has consumed and applied. *)
Applied(g) == /\ ctl[g].action = "DISARM" /\ ctl[g].state = "CONSUMED"
              /\ \A p \in Pollers : poll[p].gen # g

(* An applied DISARM is final for every older ARM: whichever loop consumed  *)
(* it, and whatever readiness result arrives later, no window opened by an  *)
(* older ARM is open, and no order such a window authorized is about to be  *)
(* posted: the submission lock orders the POST before the DISARM.           *)
NoPostAfterDisarm ==
    \A g \in DOMAIN ctl : Applied(g) => /\ win.state = "ENABLED" => g < win.open
                                        /\ job.pc = "post" => g < job.gen

(* A readiness result opens a window only if its ARM is still the newest    *)
(* request of this boot: a DISARM committed before the finalization wins    *)
(* although no loop has seen it yet (arm_finalization_fence).               *)
OpensNewest == win.open = 0 /\ win'.open # 0 => win'.open = Len(ctl')

NewestArmOpens == [][OpensNewest]_vars

DisarmAsked(g, b) == boot = b /\ g <= Len(ctl) /\ ctl[g].action = "DISARM"
OlderClosed(g, b) == boot # b \/ win.open = 0 \/ win.open > g

(* A DISARM ends every window older than it, unless the process restarts.   *)
DisarmTakesEffect ==
    \A g \in 1..MaxControls, b \in 1..MaxBoots : DisarmAsked(g, b) ~> OlderClosed(g, b)
=============================================================================
