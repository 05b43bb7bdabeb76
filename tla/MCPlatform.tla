----------------------------- MODULE MCPlatform -----------------------------
(***************************************************************************)
(* The protocols around the Hyperliquid copy path, side by side. A module  *)
(* has the rows, keys and tasks of its protocol, and what other parts do   *)
(* to them is an action or a choice of its own; the protocols are not      *)
(* composed: a behaviour follows one, focus names it and never changes.    *)
(* The components are instantiated on the same slots v1 .. v13; a slot its *)
(* component does not use stays 0. A component with theorems is            *)
(* instantiated through its proof module, which extends it, so that        *)
(* MCPlatformProofs can cite them.                                         *)
(***************************************************************************)
EXTENDS Integers, TLC

CONSTANTS
    Components,         \* the components looked at
    Controls, Boots,    \* bounds, named in the components' modules
    RisexJobs, RisexEvents,
    ExitMoves, ExitDecisions,
    SwitchEpochs, SwitchRequests,
    LimiterAllowances,  \* the allowance of each lane
    LimiterTotal, LimiterReserve, LimiterWeights, LimiterCallers,
    LimiterWindow, LimiterDelay, LimiterSkew, LimiterTime, LimiterAttempts,
    SignerOrders, SignerAdmins, SignerSlot, SignerReads,
    LeverageOrders, LeverageAttempts,
    AdminRequests, AdminWorkers, AdminKinds, AdminSources, AdminConfigs, AdminEvents

ASSUME WindowSizes == Controls \in Nat
ASSUME RisexSizes == RisexJobs \in Nat \ {0} /\ RisexEvents \in Nat
ASSUME ExitSizes == ExitMoves \in Nat
ASSUME SwitchSizes == SwitchEpochs \in Nat \ {0}
ASSUME SignerSizes ==
    /\ "nobody" \notin SignerOrders \cup SignerAdmins
    /\ SignerSlot \in Nat /\ SignerReads \in Nat /\ SignerReads <= SignerSlot
ASSUME LeverageSizes == LeverageOrders \in Nat \ {0} /\ LeverageAttempts \in Nat \ {0}

VARIABLES focus, v1, v2, v3, v4, v5, v6, v7, v8, v9, v10, v11, v12, v13

vars == <<focus, v1, v2, v3, v4, v5, v6, v7, v8, v9, v10, v11, v12, v13>>

Gate == INSTANCE RisexWindowProofs WITH
    MaxControls <- Controls, MaxBoots <- Boots, MaxPeers <- 1, TTL <- 1,
    ctl <- v1, win <- v2, arm <- v3, poll <- v4, job <- v5, hb <- v6, peer <- v7,
    peers <- v8, boot <- v9

Risex == INSTANCE RisexExecutionProofs WITH
    MaxJobs <- RisexJobs, MaxAttempts <- 2, MaxEvents <- RisexEvents,
    job <- v1, row <- v2, ord <- v3, indexed <- v4, ext <- v5, ledger <- v6, active <- v7,
    gen <- v8, cw <- v9, rs <- v10, ac <- v11, posts <- v12, events <- v13

Exit == INSTANCE ProfitExitProofs WITH
    Positions <- {-1, 0, 1, 2}, MaxMoves <- ExitMoves, MaxDecisions <- ExitDecisions,
    MaxAttempts <- 2, MaxEvents <- 1,
    moves <- v1, log <- v2, mode <- v3, copy <- v4, fpos <- v5, ledger <- v6, dec <- v7,
    ev <- v8, rc <- v9, wk <- v10, intent <- v11, entry <- v12, events <- v13

Switch == INSTANCE DestinationSwitchProofs WITH
    Dests <- {"mainnet", "risex"}, Home <- "mainnet", MaxJobs <- 2,
    MaxEpochs <- SwitchEpochs, MaxRequests <- SwitchRequests,
    user <- v1, epochs <- v2, jobs <- v3, ledger <- v4, pos <- v5, wk <- v6, fan <- v7,
    sw <- v8, act <- v9, late <- v10, requests <- v11

Limiter == INSTANCE RateLimiter WITH
    Lanes <- DOMAIN LimiterAllowances, Allowance <- LimiterAllowances,
    Total <- LimiterTotal, Reserve <- LimiterReserve, Weights <- LimiterWeights,
    Callers <- LimiterCallers, Window <- LimiterWindow, Delay <- LimiterDelay,
    MaxSkew <- LimiterSkew, MaxTime <- LimiterTime, Attempts <- LimiterAttempts,
    now <- v1, skew <- v2, glob <- v3, lane <- v4, call <- v5, cooldown <- v6, served <- v7

ASSUME LimiterSizes == Limiter!Sizes

Signer == INSTANCE SignerCadence WITH
    Orders <- SignerOrders, Admins <- SignerAdmins, Slot <- SignerSlot, Mode <- 8,
    MaxActions <- 4, MaxReads <- SignerReads, MaxCancels <- 1,
    slot <- v1, mode <- v2, lock <- v3, act <- v4, gap <- v5, floor <- v6, sent <- v7,
    cancels <- v8

Leverage == INSTANCE LeverageRecovery WITH
    MaxOrder <- LeverageOrders, MaxAttempts <- LeverageAttempts, MaxFaults <- 1,
    clock <- v1, job <- v2, rec <- v3, stream <- v4, up <- v5, marks <- v6,
    registered <- v7, wk <- v8, faults <- v9

Admin == INSTANCE AdminCommandsProofs WITH
    Requests <- AdminRequests, Workers <- AdminWorkers, Commands <- AdminKinds,
    MaxAttempts <- 2, Sources <- AdminSources, MaxConfig <- AdminConfigs, MaxEvents <- AdminEvents,
    config <- v1, permit <- v2, job <- v3, req <- v4, wk <- v5, maint <- v6, signed <- v7,
    claimed <- v8, events <- v9

ASSUME AdminSizes ==
    /\ AdminConfigs \in Nat \ {0}
    /\ AdminSources \subseteq [master : Admin!Config, market : Admin!Config, risk : Admin!Config]

(* Master, market and risk profile of the runs: everything high; the master  *)
(* with the lowest leverage, the market isolated and with less leverage, the *)
(* risk profile with less; no position of the master.                        *)
High == [lev |-> 3, cross |-> TRUE]

AllHigh == [master |-> High, market |-> High, risk |-> High]
Tight   == [master |-> [High EXCEPT !.lev = 1], market |-> [lev |-> 2, cross |-> FALSE],
            risk |-> [High EXCEPT !.lev = 2]]
Moving  == {AllHigh, Tight}
Closing == {AllHigh, [AllHigh EXCEPT !.master = [lev |-> 0, cross |-> FALSE]]}

(* Requests and workers of the administrator commands are interchangeable.   *)
AdminSymmetry == Permutations(AdminRequests) \cup Permutations(AdminWorkers)

(* The lanes of the runs. *)
TwoLanes == [l \in {"ORDER", "RECONCILE"} |-> 2]

-----------------------------------------------------------------------------
(* The slots a component with n variables does not use. *)
Slots7  == <<v8, v9, v10, v11, v12, v13>>
Slots8  == <<v9, v10, v11, v12, v13>>
Slots9  == <<v10, v11, v12, v13>>
Slots11 == <<v12, v13>>

Init ==
    /\ focus \in Components
    /\ \/ focus = "window"   /\ Gate!Init   /\ v10 = 0 /\ v11 = 0 /\ v12 = 0 /\ v13 = 0
       \/ focus = "risex"    /\ Risex!Init
       \/ focus = "exit"     /\ Exit!Init
       \/ focus = "switch"   /\ Switch!Init   /\ v12 = 0 /\ v13 = 0
       \/ focus = "limiter"  /\ Limiter!Init  /\ v8 = 0 /\ v9 = 0 /\ v10 = 0 /\ v11 = 0
                             /\ v12 = 0 /\ v13 = 0
       \/ focus = "signer"   /\ Signer!Init   /\ v9 = 0 /\ v10 = 0 /\ v11 = 0 /\ v12 = 0 /\ v13 = 0
       \/ focus = "leverage" /\ Leverage!Init /\ v10 = 0 /\ v11 = 0 /\ v12 = 0 /\ v13 = 0
       \/ focus = "admin"    /\ Admin!Init    /\ v10 = 0 /\ v11 = 0 /\ v12 = 0 /\ v13 = 0

WindowNext   == focus = "window"   /\ Gate!Next   /\ UNCHANGED <<focus, Slots9>>
RisexNext    == focus = "risex"    /\ Risex!Next    /\ UNCHANGED focus
ExitNext     == focus = "exit"     /\ Exit!Next     /\ UNCHANGED focus
SwitchNext   == focus = "switch"   /\ Switch!Next   /\ UNCHANGED <<focus, Slots11>>
LimiterNext  == focus = "limiter"  /\ Limiter!Next  /\ UNCHANGED <<focus, Slots7>>
SignerNext   == focus = "signer"   /\ Signer!Next   /\ UNCHANGED <<focus, Slots8>>
LeverageNext == focus = "leverage" /\ Leverage!Next /\ UNCHANGED <<focus, Slots9>>
AdminNext    == focus = "admin"    /\ Admin!Next    /\ UNCHANGED <<focus, Slots9>>

Next ==
    \/ WindowNext \/ RisexNext \/ ExitNext \/ SwitchNext
    \/ LimiterNext \/ SignerNext \/ LeverageNext \/ AdminNext

Spec == Init /\ [][Next]_vars

-----------------------------------------------------------------------------
(* The fairness each component's module states and justifies. *)

WindowFairness ==
    LET On(A) == focus = "window" /\ A /\ UNCHANGED <<focus, Slots9>>
    IN /\ \A p \in {"consume", "maintenance"} : SF_vars(On(Gate!Poll(p)))
       /\ WF_vars(On(Gate!JobStep)) /\ WF_vars(On(Gate!ArmDecide))
       /\ WF_vars(On(Gate!ArmCommit))

RisexFairness ==
    LET On(A) == focus = "risex" /\ A /\ UNCHANGED focus
    IN /\ WF_vars(On(Risex!WorkerStep)) /\ WF_vars(On(Risex!ResolverStep))
       /\ \A j \in 1..RisexJobs : WF_vars(On(Risex!Index(j)))

ExitFairness ==
    LET On(A) == focus = "exit" /\ A /\ UNCHANGED focus
    IN WF_vars(On(Exit!WorkerStep)) /\ WF_vars(On(Exit!Release))

SwitchFairness ==
    LET On(A) == focus = "switch" /\ A /\ UNCHANGED <<focus, Slots11>>
    IN /\ SF_vars(On(Switch!WorkerStep))
       /\ WF_vars(On(\E j \in DOMAIN v3 : Switch!Publish(j)))
       /\ WF_vars(On(\E j \in DOMAIN v3 : Switch!Land(j)))
       /\ WF_vars(On(Switch!SwitchAbort))

LeverageFairness ==
    LET On(A) == focus = "leverage" /\ A /\ UNCHANGED <<focus, Slots9>>
    IN /\ WF_vars(On(Leverage!RedisUp))
       /\ \A o \in 1..LeverageOrders : WF_vars(On(Leverage!ReplayRepair(o)))

AdminFairness ==
    LET On(A) == focus = "admin" /\ A /\ UNCHANGED <<focus, Slots9>>
    IN /\ \A w \in AdminWorkers :
             /\ WF_vars(On(Admin!WorkerStep(w)))
             /\ \A j \in AdminRequests : SF_vars(On(Admin!Claim(w, j)))
       /\ \A j \in AdminRequests : WF_vars(On(Admin!LeaseExpires(j)))
       /\ WF_vars(On(Admin!Maintenance))

FairSpec ==
    /\ Spec
    /\ WindowFairness /\ RisexFairness /\ ExitFairness
    /\ SwitchFairness /\ LeverageFairness /\ AdminFairness

-----------------------------------------------------------------------------
(* Safety. Each property is the one of its component's module. *)

(* Types of every component's state. *)
PlatformTypeOK ==
    /\ focus = "window"   => Gate!TypeOK
    /\ focus = "risex"    => Risex!TypeOK
    /\ focus = "exit"     => Exit!TypeOK
    /\ focus = "switch"   => Switch!TypeOK
    /\ focus = "limiter"  => Limiter!TypeOK
    /\ focus = "signer"   => Signer!TypeOK
    /\ focus = "leverage" => Leverage!TypeOK
    /\ focus = "admin"    => Admin!TypeOK

(* An applied DISARM is final: no window of an older ARM is open and no      *)
(* order it authorized is about to be posted (disarm, place_ioc).            *)
NoPostAfterDisarm == focus = "window" => Gate!NoPostAfterDisarm

(* A readiness result opens a window only if its ARM is still the newest     *)
(* request of this boot (arm_finalization_fence).                            *)
NewestArmOpens == [][focus = "window" => Gate!OpensNewest]_vars

(* A RISEx order is posted at most once over every retry, lease expiry and   *)
(* crash (persist_pre_post, claim_first_post).                               *)
AtMostOnePost == focus = "risex" => Risex!AtMostOnePost

(* At most one unresolved RISEx execution per user and asset, so that an     *)
(* absolute snapshot can be attributed (prepare_risex_submission).           *)
OneUnresolved == focus = "risex" => Risex!OneUnresolved

(* A RISEx row is settled with what the provider did, with the fill in the   *)
(* ledger, and no settlement replaces an observation by an older one.        *)
SettlementConverges == [][focus = "risex" => Risex!Converges]_vars

Journal == INSTANCE SubmissionJournal WITH
    Orders <- 1..RisexJobs,
    phase  <- [j \in 1..RisexJobs |-> IF focus = "risex" THEN Risex!Phase(j) ELSE "absent"],
    left   <- [j \in 1..RisexJobs |-> focus = "risex" /\ v12[j] > 0],
    result <- [j \in 1..RisexJobs |-> IF focus = "risex" THEN Risex!Result(j) ELSE "none"]

(* The RISEx order path implements a write-ahead submission journal.         *)
ImplementsJournal == Journal!Spec

(* Exposure never grows in a master cycle that an executed profit exit has   *)
(* left (protected_reconcile_target, the EVENT fence).                       *)
NoReopen == focus = "exit" => Exit!NoReopen

(* A second profit exit of a cycle never joins one that is pending or may    *)
(* still fill (evaluate_profit_exit_portfolio).                              *)
OneLiveExit == focus = "exit" => Exit!OneLiveExit

(* A profit exit is declared failed only when its order was never sent or    *)
(* the exchange is done with it (_process_ai_profit_exit_locked).            *)
FailedIsOver == focus = "exit" => Exit!FailedIsOver

(* No order and no position stays at a destination the user has left, and a  *)
(* job executes on its own destination only (set_user_destination, blockers, *)
(* bind_job_execution_epoch).                                                *)
NothingLeftBehind == focus = "switch" => Switch!NothingLeftBehind

(* At most one increase, already decided on, is sent after a pause           *)
(* (_process_job_locked, pause, close_positions, rollback).                  *)
PauseStops == focus = "switch" => Switch!PauseStops

(* The exchange never charges more than the budget, over all replicas        *)
(* (WeightedRateLimiter).                                                    *)
ServerWithinBudget == focus = "limiter" => Limiter!ServerWithinBudget

(* A lane within its allowance finds room in the global window.              *)
LaneGuaranteed == focus = "limiter" => Limiter!LaneGuaranteed

(* A signed request is sent alone, and in sustained mode only when the slot  *)
(* of the last one is over (signer_action_lock, _reserve_submission_slot).   *)
CadenceKept == [][focus = "signer" => Signer!SentInTime]_vars

(* The marker of a missing leverage is there exactly while a registered      *)
(* intent is newer than every repair, and outages are counted once (the      *)
(* scripts of master_leverage_cache).                                        *)
MarkerExact == focus = "leverage" => Leverage!MarkerExact

(* An administrative synchronization is signed at most once, with a          *)
(* configuration the master had after the claim (_run_admin_leverage_sync).  *)
SignedOnceAndFresh == focus = "admin" => Admin!SignedOnceAndFresh

-----------------------------------------------------------------------------
(* Liveness *)

(* A DISARM ends every window older than it, unless the process restarts.    *)
DisarmTakesEffect ==
    \A g \in 1..Controls, b \in 1..Boots :
        (focus = "window" /\ Gate!DisarmAsked(g, b)) ~> (focus = "window" /\ Gate!OlderClosed(g, b))

(* Every RISEx order the provider handled is settled (resolver, recovery).   *)
LandedSettles ==
    \A j \in 1..RisexJobs :
        (focus = "risex" /\ Risex!Handled(j)) ~> (focus = "risex" /\ Risex!Settled(j))

(* No profit-exit decision stays pending unless its job dies.                *)
DecisionSettles ==
    \A d \in 1..ExitDecisions :
        (focus = "exit" /\ Exit!Taken(d)) ~> (focus = "exit" /\ Exit!Decided(d))

(* Every CLOSE_ALL job is executed or refused.                               *)
CloseAllEnds ==
    \A j \in 1..2 :
        (focus = "switch" /\ Switch!CloseAsked(j)) ~> (focus = "switch" /\ Switch!CloseEnded(j))

(* A leverage repair that ran is finally accounted for in Redis.             *)
RepairAccounted ==
    \A o \in 1..LeverageOrders :
        (focus = "leverage" /\ Leverage!RepairRan(o)) ~> (focus = "leverage" /\ Leverage!Accounted(o))

(* Every administrative command ends.                                        *)
CommandsEnd ==
    \A j \in AdminRequests :
        (focus = "admin" /\ Admin!IsActive(j)) ~> (focus = "admin" /\ Admin!HasEnded(j))
=============================================================================
