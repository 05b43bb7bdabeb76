-------------------------- MODULE MCPlatformProofs --------------------------
(***************************************************************************)
(* The platform's safety properties for every value of its bounds: the     *)
(* theorems of the components, carried over to the specification the runs  *)
(* check.  A behaviour follows one component for ever, so the invariant of *)
(* a component, under the condition that it is the one followed, is an     *)
(* invariant of the platform.                                              *)
(***************************************************************************)
EXTENDS MCPlatform, FiniteSetTheorems, WellFoundedInduction, TLAPS

(* No step changes the component that is followed.                           *)
LEMMA FocusKept == [Next]_vars => UNCHANGED focus
BY DEF Next, vars, WindowNext, RisexNext, ExitNext, SwitchNext, LimiterNext, SignerNext,
       LeverageNext, AdminNext

-----------------------------------------------------------------------------
(* The RISEx execution window *)

WindowInv == focus = "window" => Gate!TypeInv /\ Gate!Inv

(* The platform's bounds are bounds of the component.                        *)
LEMMA WindowBounded == Gate!Bounds
BY WindowSizes DEF Gate!Bounds

(* A step of the platform is a step of the component that is followed.       *)
LEMMA WindowSteps ==
    ASSUME focus = "window", [Next]_vars
    PROVE  [Gate!Next]_(Gate!vars)
BY DEF Next, vars, WindowNext, RisexNext, ExitNext, SwitchNext, LimiterNext, SignerNext,
       LeverageNext, AdminNext, Gate!vars

(* The component's inductive invariant holds while it is followed.           *)
LEMMA WindowInvariance == Spec => []WindowInv
<1>1. Init => WindowInv
  <2>1. Init /\ focus = "window" => Gate!Init BY DEF Init
  <2> QED BY <2>1, WindowBounded, Gate!InitInv DEF WindowInv
<1>2. WindowInv /\ [Next]_vars => WindowInv'
  BY FocusKept, WindowBounded, WindowSteps, Gate!NextInv DEF WindowInv
<1> QED BY <1>1, <1>2, PTL DEF Spec

(* disarm, place_ioc: once a DISARM is applied no window of an older ARM is  *)
(* open and no order it authorized is about to be posted.                    *)
THEOREM WindowDisarmFinal == Spec => []NoPostAfterDisarm
<1>1. WindowInv => NoPostAfterDisarm
  BY DEF WindowInv, NoPostAfterDisarm, Gate!NoPostAfterDisarm, Gate!Inv, Gate!DisarmFinal
<1> QED BY <1>1, WindowInvariance, PTL

(* arm_finalization_fence: a readiness result opens a window only if its ARM *)
(* is still the newest request of this boot.                                 *)
THEOREM WindowNewestArmOpens == Spec => NewestArmOpens
<1>1. WindowInv /\ [Next]_vars => [focus = "window" => Gate!OpensNewest]_vars
  BY WindowBounded, WindowSteps, Gate!StepOpensNewest DEF WindowInv
<1> QED BY <1>1, WindowInvariance, PTL DEF Spec, NewestArmOpens

-----------------------------------------------------------------------------
(* RISEx execution *)

RisexInv == focus = "risex" => Risex!TypeInv /\ Risex!Inv

(* The platform's bounds are bounds of the component.                        *)
LEMMA RisexBounded == Risex!Bounds
BY RisexSizes DEF Risex!Bounds

(* A step of the platform is a step of the component that is followed.       *)
LEMMA RisexSteps ==
    ASSUME focus = "risex", [Next]_vars
    PROVE  [Risex!Next]_(Risex!vars)
BY DEF Next, vars, WindowNext, RisexNext, ExitNext, SwitchNext, LimiterNext, SignerNext,
       LeverageNext, AdminNext, Risex!vars

(* The component's inductive invariant holds while it is followed.           *)
LEMMA RisexInvariance == Spec => []RisexInv
<1>1. Init => RisexInv
  <2>1. Init /\ focus = "risex" => Risex!Init BY DEF Init
  <2> QED BY <2>1, RisexBounded, Risex!InitTyped, Risex!InitInv DEF RisexInv
<1>2. RisexInv /\ [Next]_vars => RisexInv'
  BY FocusKept, RisexBounded, RisexSteps, Risex!NextInv DEF RisexInv
<1> QED BY <1>1, <1>2, PTL DEF Spec

(* claim_risex_first_post, persist_pre_post: the order of a RISEx job is     *)
(* posted at most once over every retry, lease expiry, crash and rotation.   *)
THEOREM RisexPostedOnce == Spec => []AtMostOnePost
<1>1. RisexInv => AtMostOnePost
  BY DEF RisexInv, AtMostOnePost, Risex!AtMostOnePost, Risex!Inv, Risex!RowTruth
<1> QED BY <1>1, RisexInvariance, PTL

(* prepare_risex_worker_submission: a user and an asset never have two       *)
(* unresolved RISEx executions.                                              *)
THEOREM RisexOneUnresolved == Spec => []OneUnresolved
<1>1. RisexInv => OneUnresolved
  BY Risex!InvOneUnresolved DEF RisexInv, OneUnresolved
<1> QED BY <1>1, RisexInvariance, PTL

(* settle_risex_execution_under_accounting_lock and the resolver: a settled  *)
(* row tells what the provider did, a released fill is in the ledger, and no *)
(* settlement replaces an observation by an older one.                       *)
THEOREM RisexSettlementSound == Spec => SettlementConverges
<1>1. RisexInv /\ [Next]_vars => [focus = "risex" => Risex!Converges]_vars
  BY RisexBounded, RisexSteps, Risex!StepConverges DEF RisexInv
<1> QED BY <1>1, RisexInvariance, PTL DEF Spec, SettlementConverges

(* A step of the component's journal is one of the platform's.               *)
LEMMA SameJournal ==
    ASSUME focus = "risex", UNCHANGED focus, [Risex!Journal!Next]_(Risex!Journal!vars)
    PROVE  [Journal!Next]_(Journal!vars)
<1> DEFINE P == [j \in 1..RisexJobs |-> IF focus = "risex" THEN Risex!Phase(j) ELSE "absent"]
           L == [j \in 1..RisexJobs |-> focus = "risex" /\ v12[j] > 0]
           R == [j \in 1..RisexJobs |-> IF focus = "risex" THEN Risex!Result(j) ELSE "none"]
<1>1. P = Risex!Phases /\ L = Risex!Left /\ R = Risex!Results
  BY DEF Risex!Phases, Risex!Left, Risex!Results, Risex!Jobs
<1>2. P' = Risex!Phases' /\ L' = Risex!Left' /\ R' = Risex!Results'
  BY DEF Risex!Phases, Risex!Left, Risex!Results, Risex!Jobs
<1>3. CASE UNCHANGED Risex!Journal!vars
  <2>1. UNCHANGED <<Risex!Phases, Risex!Left, Risex!Results>>
    BY <1>3 DEF Risex!Journal!vars, Risex!Phases, Risex!Left, Risex!Results
  <2>2. UNCHANGED <<P, L, R>> BY <1>1, <1>2, <2>1
  <2> QED BY <2>2 DEF Journal!vars
<1>4. CASE Risex!Journal!Next
  <2>1. PICK o \in 1..RisexJobs :
           \/ Risex!Journal!Record(o) \/ Risex!Journal!Release(o) \/ Risex!Journal!Block(o)
           \/ Risex!Journal!Submit(o) \/ Risex!Journal!Settle(o)
           \/ \E r \in {"filled", "canceled"} : Risex!Journal!Execute(o, r)
    BY <1>4 DEF Risex!Journal!Next, Risex!Jobs
  <2>2. CASE Risex!Journal!Record(o)
    <3>1. Journal!Record(o)
      BY <1>1, <1>2, <2>2 DEF Risex!Journal!Record, Journal!Record, Risex!Phases, Risex!Left, Risex!Results
    <3> QED BY <3>1 DEF Journal!Next
  <2>3. CASE Risex!Journal!Release(o)
    <3>1. Journal!Release(o)
      BY <1>1, <1>2, <2>3 DEF Risex!Journal!Release, Journal!Release, Risex!Phases, Risex!Left, Risex!Results
    <3> QED BY <3>1 DEF Journal!Next
  <2>4. CASE Risex!Journal!Block(o)
    <3>1. Journal!Block(o)
      BY <1>1, <1>2, <2>4 DEF Risex!Journal!Block, Journal!Block, Risex!Phases, Risex!Left, Risex!Results
    <3> QED BY <3>1 DEF Journal!Next
  <2>5. CASE Risex!Journal!Submit(o)
    <3>1. Journal!Submit(o)
      BY <1>1, <1>2, <2>5 DEF Risex!Journal!Submit, Journal!Submit, Risex!Phases, Risex!Left, Risex!Results
    <3> QED BY <3>1 DEF Journal!Next
  <2>6. CASE Risex!Journal!Settle(o)
    <3>1. Journal!Settle(o)
      BY <1>1, <1>2, <2>6 DEF Risex!Journal!Settle, Journal!Settle, Risex!Phases, Risex!Left, Risex!Results
    <3> QED BY <3>1 DEF Journal!Next
  <2>7. ASSUME NEW r \in {"filled", "canceled"}, Risex!Journal!Execute(o, r)
        PROVE  Journal!Next
    <3>1. Journal!Execute(o, r)
      BY <1>1, <1>2, <2>7 DEF Risex!Journal!Execute, Journal!Execute, Risex!Phases, Risex!Left,
           Risex!Results
    <3> QED BY <3>1 DEF Journal!Next
  <2> QED BY <2>1, <2>2, <2>3, <2>4, <2>5, <2>6, <2>7
<1> QED BY <1>3, <1>4

(* The RISEx order path implements the write-ahead submission journal:       *)
(* recorded before it is released, released before it leaves, leaving at     *)
(* most once, settled with its own result.                                   *)
THEOREM RisexImplementsJournal == Spec => ImplementsJournal
<1>1. Init => Journal!Init
  <2>1. ASSUME Init, focus = "risex" PROVE Journal!Init
    <3>1. Risex!Journal!Init BY <2>1, RisexBounded, Risex!InitJournal DEF Init
    <3> QED BY <2>1, <3>1 DEF Risex!Journal!Init, Journal!Init, Risex!Jobs
  <2>2. focus # "risex" => Journal!Init BY DEF Journal!Init
  <2> QED BY <2>1, <2>2
<1>2. ASSUME RisexInv, RisexInv', [Next]_vars PROVE [Journal!Next]_(Journal!vars)
  <2>1. CASE focus = "risex"
    <3>1. [Risex!Journal!Next]_(Risex!Journal!vars)
      BY <1>2, <2>1, FocusKept, RisexBounded, RisexSteps, Risex!StepImplements DEF RisexInv
    <3> QED BY <1>2, <2>1, <3>1, FocusKept, SameJournal
  <2>2. CASE focus # "risex" BY <1>2, <2>2, FocusKept DEF Journal!vars
  <2> QED BY <2>1, <2>2
<1>3. RisexInv /\ RisexInv' /\ [Next]_vars => [Journal!Next]_(Journal!vars) BY <1>2
<1> QED BY <1>1, <1>3, RisexInvariance, PTL DEF Spec, ImplementsJournal, Journal!Spec

-----------------------------------------------------------------------------
(* The AI profit exit *)

ExitInv == focus = "exit" => Exit!Inv

(* The platform's bounds are bounds of the component.                        *)
LEMMA ExitBounded == Exit!Bounds
BY ExitSizes DEF Exit!Bounds

(* A step of the platform is a step of the component that is followed.       *)
LEMMA ExitSteps ==
    ASSUME focus = "exit", [Next]_vars
    PROVE  [Exit!Next]_(Exit!vars)
BY DEF Next, vars, WindowNext, RisexNext, ExitNext, SwitchNext, LimiterNext, SignerNext,
       LeverageNext, AdminNext, Exit!vars

(* The component's inductive invariant holds while it is followed.           *)
LEMMA ExitInvariance == Spec => []ExitInv
<1>1. Init => ExitInv
  <2>1. Init /\ focus = "exit" => Exit!Init BY DEF Init
  <2> QED BY <2>1, ExitBounded, Exit!InitInv DEF ExitInv
<1>2. ExitInv /\ [Next]_vars => ExitInv'
  BY FocusKept, ExitBounded, ExitSteps, Exit!NextInv DEF ExitInv
<1> QED BY <1>1, <1>2, PTL DEF Spec

(* protected_reconcile_target, the EVENT fence: exposure never grows in a    *)
(* master cycle that an executed profit exit has left.                       *)
THEOREM ExitNotReopened == Spec => []NoReopen
<1>1. ExitInv => NoReopen BY DEF ExitInv, NoReopen, Exit!Inv, Exit!PlaceInv
<1> QED BY <1>1, ExitInvariance, PTL

(* evaluate_profit_exit_portfolio: a second profit exit of a cycle never     *)
(* joins one that is pending or may still fill.                              *)
THEOREM ExitAlone == Spec => []OneLiveExit
<1>1. ExitInv => OneLiveExit BY Exit!InvAlone DEF ExitInv, OneLiveExit
<1> QED BY <1>1, ExitInvariance, PTL

(* _process_ai_profit_exit_locked: a profit exit fails only when its order   *)
(* was never sent or the exchange is done with it.                           *)
THEOREM ExitFailedOver == Spec => []FailedIsOver
<1>1. ExitInv => FailedIsOver BY Exit!InvFailed DEF ExitInv, FailedIsOver
<1> QED BY <1>1, ExitInvariance, PTL

-----------------------------------------------------------------------------
(* Signed actions *)

SignerCall == [pc : {"idle", "wait", "account", "authorize", "send", "reply", "shielded",
                     "observe"}, spent : 0..SignerReads, holds : 0..SignerSlot]

SignerState == /\ Signer!TypeOK /\ Signer!LockHeld /\ Signer!Reserved /\ Signer!Covered
               /\ v4 \in [Signer!Procs -> SignerCall]

SignerInv == focus = "signer" => SignerState

(* A step of the platform is a step of the component that is followed.       *)
LEMMA SignerSteps ==
    ASSUME focus = "signer", [Next]_vars
    PROVE  Signer!Next \/ UNCHANGED Signer!vars
BY DEF Next, vars, WindowNext, RisexNext, ExitNext, SwitchNext, LimiterNext, SignerNext,
       LeverageNext, AdminNext, Signer!vars

(* A call that is changed stays a call, and the others stay as they are.     *)
LEMMA SignerCallSet ==
    ASSUME v4 \in [Signer!Procs -> SignerCall], NEW p \in Signer!Procs, NEW r \in SignerCall,
           v4' = [v4 EXCEPT ![p] = r]
    PROVE  /\ v4' \in [Signer!Procs -> SignerCall]
           /\ v4'[p] = r
           /\ \A q \in Signer!Procs \ {p} : v4'[q] = v4[q]
OBVIOUS

(* An idle call is a call.                                                   *)
LEMMA SignerIdle ==
    /\ Signer!NoCall \in SignerCall
    /\ [Signer!NoCall EXCEPT !.pc = "observe"] \in SignerCall
    /\ Signer!NoCall.pc = "idle" /\ Signer!NoCall.spent = 0 /\ Signer!NoCall.holds = 0
    /\ [Signer!NoCall EXCEPT !.pc = "observe"].pc = "observe"
    /\ [Signer!NoCall EXCEPT !.pc = "observe"].spent = 0
    /\ [Signer!NoCall EXCEPT !.pc = "observe"].holds = 0
<1>1. 0 \in 0..SignerReads /\ 0 \in 0..SignerSlot BY SignerSizes
<1>2. PICK z : z = [Signer!NoCall EXCEPT !.pc = "observe"] OBVIOUS
<1>3. z = [pc |-> "observe", spent |-> 0, holds |-> 0] BY <1>2 DEF Signer!NoCall
<1>4. z \in SignerCall /\ z.pc = "observe" /\ z.spent = 0 /\ z.holds = 0
  BY <1>1, <1>3 DEF SignerCall
<1>5. Signer!NoCall \in SignerCall BY <1>1 DEF SignerCall, Signer!NoCall
<1> QED BY <1>2, <1>4, <1>5 DEF Signer!NoCall

(* A change of pc keeps the rest of a call.                                  *)
LEMMA SignerPc ==
    ASSUME NEW c \in SignerCall,
           NEW pc \in {"idle", "wait", "account", "authorize", "send", "reply", "shielded", "observe"}
    PROVE  /\ [c EXCEPT !.pc = pc] \in SignerCall
           /\ [c EXCEPT !.pc = pc].pc = pc
           /\ [c EXCEPT !.pc = pc].spent = c.spent /\ [c EXCEPT !.pc = pc].holds = c.holds
BY DEF SignerCall

(* Every step of a call keeps lock, reservations and cover: it changes one   *)
(* call, and the keys while no other call is between lock and answer.        *)
LEMMA SignerMoves ==
    ASSUME SignerState, NEW p \in Signer!Procs, NEW r \in SignerCall,
           v4' = [v4 EXCEPT ![p] = r],
           v1' \in 0..SignerSlot, v2' \in 0..8, v5' \in 0..SignerSlot, v6' \in 0..SignerSlot,
           v3' \in Signer!Procs \cup {"nobody"},
           v3' = v3 \/ (v3' = p /\ v3 = "nobody") \/ (v3 = p /\ v3' = "nobody"),
           r.pc \in Signer!Holding <=> v3' = p,
           v1' = v1 \/ (v1' >= v1 /\ v3 = p),
           (v5' = v5 /\ v6' = v6) \/ v3 = p,
           r.pc \notin {"authorize", "send", "reply", "shielded"} => r.spent = 0,
           r.pc = "authorize" => r.holds = 0 \/ v1' + r.spent >= r.holds + SignerReads,
           r.pc = "send" => v1' >= r.holds,
           r.pc \in {"authorize", "send"} => v5' >= v6',
           v1' + v5' >= v6'
    PROVE  SignerState'
<1> USE SignerSizes
<1>1. /\ v4' \in [Signer!Procs -> SignerCall] /\ v4'[p] = r
      /\ \A q \in Signer!Procs \ {p} : v4'[q] = v4[q]
  BY SignerCallSet DEF SignerState
<1>2. Signer!TypeOK' BY <1>1 DEF Signer!TypeOK, SignerCall, Signer!Nobody
<1>3. p # "nobody" /\ \A q \in Signer!Procs : q # "nobody" BY DEF Signer!Procs
<1>4. Signer!LockHeld'
  <2>1. ASSUME NEW q \in Signer!Procs PROVE v4'[q].pc \in Signer!Holding <=> v3' = q
    <3>1. CASE q = p BY <1>1, <3>1
    <3>2. CASE q # p
      <4>1. v4'[q] = v4[q] BY <1>1, <3>2
      <4>2. v3' = q <=> v3 = q BY <1>3, <3>2
      <4> QED BY <4>1, <4>2 DEF SignerState, Signer!LockHeld
    <3> QED BY <3>1, <3>2
  <2> QED BY <2>1 DEF Signer!LockHeld
<1>5. Signer!Reserved'
  <2>1. ASSUME NEW q \in Signer!Procs
        PROVE  /\ v4'[q].pc \notin {"authorize", "send", "reply", "shielded"} => v4'[q].spent = 0
               /\ v4'[q].pc = "authorize" =>
                     v4'[q].holds = 0 \/ v1' + v4'[q].spent >= v4'[q].holds + SignerReads
               /\ v4'[q].pc = "send" => v1' >= v4'[q].holds
               /\ v4'[q].pc \in {"authorize", "send"} => v5' >= v6'
    <3>1. CASE q = p BY <1>1, <3>1
    <3>2. CASE q # p
      <4>1. v4'[q] = v4[q] BY <1>1, <3>2
      <4>2. v4[q].pc \in {"authorize", "send"} => v3 # p
        BY <3>2 DEF SignerState, Signer!LockHeld, Signer!Holding
      <4>3. v4[q].pc \in {"authorize", "send"} => v1' = v1 /\ v5' = v5 /\ v6' = v6 BY <4>2
      <4> QED BY <4>1, <4>3 DEF SignerState, Signer!Reserved
    <3> QED BY <3>1, <3>2
  <2> QED BY <2>1 DEF Signer!Reserved
<1>6. Signer!Covered' BY DEF Signer!Covered
<1> QED BY <1>1, <1>2, <1>4, <1>5, <1>6 DEF SignerState

(* Every step of the component keeps its invariant.                          *)
LEMMA SignerNextInv == ASSUME SignerState, Signer!Next PROVE SignerState'
<1> USE SignerSizes
<1>1. /\ v1 \in 0..SignerSlot /\ v2 \in 0..8 /\ v5 \in 0..SignerSlot /\ v6 \in 0..SignerSlot
      /\ v3 \in Signer!Procs \cup {"nobody"} /\ v1 + v5 >= v6
      /\ SignerSlot \in 0..SignerSlot /\ 0 \in 0..SignerSlot /\ 0 \in 0..8 /\ 8 \in 0..8
      /\ SignerSlot - SignerReads \in 0..SignerSlot /\ 0 \in 0..SignerReads
  BY DEF SignerState, Signer!TypeOK, Signer!Nobody, Signer!Covered
<1>2. ASSUME NEW p \in Signer!Procs
      PROVE  /\ v4[p] \in SignerCall /\ p # "nobody"
             /\ v4[p].pc \in Signer!Holding <=> v3 = p
             /\ v4[p].pc \notin {"authorize", "send", "reply", "shielded"} => v4[p].spent = 0
             /\ v4[p].pc = "authorize" =>
                   v4[p].holds = 0 \/ v1 + v4[p].spent >= v4[p].holds + SignerReads
             /\ v4[p].pc = "send" => v1 >= v4[p].holds
             /\ v4[p].pc \in {"authorize", "send"} => v5 >= v6
             /\ v4[p].spent \in 0..SignerReads /\ v4[p].holds \in 0..SignerSlot
  <2>1. p # "nobody" BY DEF Signer!Procs
  <2>2. v4[p] \in SignerCall BY DEF SignerState
  <2>3. v4[p].spent \in 0..SignerReads /\ v4[p].holds \in 0..SignerSlot BY <2>2 DEF SignerCall
  <2> QED BY <2>1, <2>2, <2>3 DEF SignerState, Signer!LockHeld, Signer!Reserved
<1>3. ASSUME NEW p \in Signer!Procs, Signer!PreWait(p) PROVE SignerState'
  <2> DEFINE r == [v4[p] EXCEPT !.pc = "wait"]
  <2>1. r \in SignerCall /\ r.pc = "wait" /\ r.spent = v4[p].spent BY <1>2, SignerPc
  <2>2. v4' = [v4 EXCEPT ![p] = r] BY <1>3 DEF Signer!PreWait, Signer!Step
  <2>3. v3' = v3 /\ v1' = v1 /\ v2' = v2 /\ v5' = v5 /\ v6' = v6 /\ v4[p].pc = "idle"
    BY <1>3 DEF Signer!PreWait
  <2> HIDE DEF r
  <2>4. v3 # p /\ r.spent = 0 BY <1>2, <2>1, <2>3 DEF Signer!Holding
  <2>5. r.pc \in Signer!Holding <=> v3' = p BY <2>1, <2>3, <2>4 DEF Signer!Holding
  <2> QED BY <1>1, <2>1, <2>2, <2>3, <2>4, <2>5, SignerMoves
<1>4. ASSUME NEW p \in Signer!Procs, Signer!Lock(p) PROVE SignerState'
  <2> DEFINE r == [v4[p] EXCEPT !.pc = "account"]
  <2>1. r \in SignerCall /\ r.pc = "account" /\ r.spent = v4[p].spent BY <1>2, SignerPc
  <2>2. v4' = [v4 EXCEPT ![p] = r] BY <1>4 DEF Signer!Lock, Signer!Step
  <2>3. /\ v3' = p /\ v3 = "nobody" /\ v1' = v1 /\ v2' = v2 /\ v5' = v5 /\ v6' = v6
        /\ v4[p].pc = "wait"
    BY <1>4 DEF Signer!Lock, Signer!MayLock, Signer!Nobody
  <2> HIDE DEF r
  <2>4. r.spent = 0 /\ r.pc \in Signer!Holding BY <1>2, <2>1, <2>3 DEF Signer!Holding
  <2> QED BY <1>1, <2>1, <2>2, <2>3, <2>4, SignerMoves
<1>5. ASSUME NEW p \in Signer!Procs, Signer!Exhausted(p) \/ Signer!Refused(p) \/ Signer!Reply(p)
      PROVE  SignerState'
  <2>1. /\ v4' = [v4 EXCEPT ![p] = Signer!NoCall] /\ v3' = "nobody" /\ v1' = v1 /\ v2' = v2
        /\ v5' = v5 /\ v6' = v6 /\ v4[p].pc \in Signer!Holding
    BY <1>5 DEF Signer!Exhausted, Signer!Refused, Signer!Reply, Signer!Nobody, Signer!Holding
  <2>2. PICK r \in SignerCall : r = Signer!NoCall /\ r.pc = "idle" /\ r.spent = 0 BY SignerIdle
  <2>3. v3 = p /\ r.pc \notin Signer!Holding /\ v3' # p BY <1>2, <2>1, <2>2 DEF Signer!Holding
  <2> QED BY <1>1, <2>1, <2>2, <2>3, SignerMoves
<1>6. ASSUME NEW p \in Signer!Procs, Signer!ReserveSlot(p) PROVE SignerState'
  <2> DEFINE h == IF v2 > 0 THEN SignerSlot - SignerReads ELSE 0
             r == [v4[p] EXCEPT !.pc = "authorize", !.holds = h]
  <2>1. h \in 0..SignerSlot BY <1>1
  <2>2. r \in SignerCall /\ r.pc = "authorize" /\ r.spent = v4[p].spent /\ r.holds = h
    <3> HIDE DEF h
    <3> QED BY <1>2, <2>1 DEF SignerCall
  <2>3. v4' = [v4 EXCEPT ![p] = r] BY <1>6 DEF Signer!ReserveSlot
  <2>4. /\ v1 = 0 /\ v3' = v3 /\ v2' = v2 /\ v5' = v5 /\ v6' = v6 /\ v4[p].pc = "account"
        /\ v1' = IF v2 > 0 THEN SignerSlot ELSE 0
    BY <1>6 DEF Signer!ReserveSlot
  <2> HIDE DEF r
  <2>5. v3 = p /\ r.spent = 0 /\ r.pc \in Signer!Holding BY <1>2, <2>2, <2>4 DEF Signer!Holding
  <2>6. v5 >= v6 BY <1>1, <2>4
  <2>7. r.holds = 0 \/ v1' + r.spent >= r.holds + SignerReads BY <1>1, <2>2, <2>4, <2>5
  <2>8. v1' \in 0..SignerSlot /\ v1' >= v1 BY <1>1, <2>4
  <2>9. v1' + v5' >= v6' BY <1>1, <2>4, <2>6, <2>8
  <2> QED BY <1>1, <2>2, <2>3, <2>4, <2>5, <2>6, <2>7, <2>8, <2>9, SignerMoves
<1>7. ASSUME NEW p \in Signer!Procs, Signer!Authorized(p) PROVE SignerState'
  <2> DEFINE h == IF v2 > 0 /\ p \in SignerAdmins THEN SignerSlot ELSE v4[p].holds
             r == [v4[p] EXCEPT !.pc = "send", !.holds = h]
  <2>1. h \in 0..SignerSlot BY <1>1, <1>2
  <2>2. r \in SignerCall /\ r.pc = "send" /\ r.holds = h
    <3> HIDE DEF h
    <3> QED BY <1>2, <2>1 DEF SignerCall
  <2>3. v4' = [v4 EXCEPT ![p] = r] BY <1>7 DEF Signer!Authorized
  <2>4. /\ v3' = v3 /\ v2' = v2 /\ v5' = v5 /\ v6' = v6 /\ v4[p].pc = "authorize"
        /\ v1' = IF v2 > 0 /\ p \in SignerAdmins THEN SignerSlot ELSE v1
    BY <1>7 DEF Signer!Authorized, Signer!Renewal
  <2>5. v3 = p /\ v5 >= v6 BY <1>2, <2>4 DEF Signer!Holding
  <2>6. v1 >= v4[p].holds BY <1>1, <1>2, <2>4
  <2>7. v1' >= h /\ v1' >= v1 /\ v1' \in 0..SignerSlot BY <1>1, <2>4, <2>6
  <2> HIDE DEF r, h
  <2>8. r.pc \in Signer!Holding /\ v1' >= r.holds BY <2>2, <2>7 DEF Signer!Holding
  <2>9. v1' + v5' >= v6' BY <1>1, <2>4, <2>5, <2>7
  <2> QED BY <1>1, <2>2, <2>3, <2>4, <2>5, <2>7, <2>8, <2>9, SignerMoves
<1>8. ASSUME NEW p \in Signer!Procs, Signer!Send(p) PROVE SignerState'
  <2> DEFINE r == [v4[p] EXCEPT !.pc = "reply"]
  <2>1. r \in SignerCall /\ r.pc = "reply" BY <1>2, SignerPc
  <2>2. v4' = [v4 EXCEPT ![p] = r] BY <1>8 DEF Signer!Send, Signer!Step
  <2>3. /\ v1' = v1 /\ v2' = v2 /\ v3' = v3 /\ v5' = 0 /\ v6' = v4[p].holds /\ v4[p].pc = "send"
    BY <1>8 DEF Signer!Send
  <2> HIDE DEF r
  <2>4. v3 = p /\ v1 >= v4[p].holds /\ v4[p].holds \in 0..SignerSlot
    BY <1>2, <2>3 DEF Signer!Holding
  <2>5. r.pc \in Signer!Holding BY <2>1 DEF Signer!Holding
  <2>6. v1' + v5' >= v6' BY <1>1, <2>3, <2>4
  <2> QED BY <1>1, <2>1, <2>2, <2>3, <2>4, <2>5, <2>6, SignerMoves
<1>9. ASSUME NEW p \in Signer!Procs, Signer!ReplyThrottled(p) PROVE SignerState'
  <2>1. PICK r \in SignerCall : /\ r = [Signer!NoCall EXCEPT !.pc = "observe"]
                                /\ r.pc = "observe" /\ r.spent = 0
    BY SignerIdle
  <2>2. /\ v4' = [v4 EXCEPT ![p] = r] /\ v3' = "nobody" /\ v1' = SignerSlot /\ v2' = v2
        /\ v5' = v5 /\ v6' = v6 /\ v4[p].pc \in Signer!Holding
    BY <1>9, <2>1 DEF Signer!ReplyThrottled, Signer!Nobody, Signer!Holding
  <2>3. v3 = p /\ v3' # p /\ r.pc \notin Signer!Holding BY <1>2, <2>1, <2>2 DEF Signer!Holding
  <2>4. v1' >= v1 /\ v1' + v5' >= v6' BY <1>1, <2>2
  <2> QED BY <1>1, <2>1, <2>2, <2>3, <2>4, SignerMoves
<1>10. ASSUME NEW p \in Signer!Procs, Signer!Cancel(p) PROVE SignerState'
  <2> DEFINE r == [v4[p] EXCEPT !.pc = "shielded"]
  <2>1. r \in SignerCall /\ r.pc = "shielded" BY <1>2, SignerPc
  <2>2. v4' = [v4 EXCEPT ![p] = r] BY <1>10 DEF Signer!Cancel, Signer!Step
  <2>3. v1' = v1 /\ v2' = v2 /\ v3' = v3 /\ v5' = v5 /\ v6' = v6 /\ v4[p].pc = "reply"
    BY <1>10 DEF Signer!Cancel
  <2> HIDE DEF r
  <2>4. v3 = p /\ r.pc \in Signer!Holding BY <1>2, <2>1, <2>3 DEF Signer!Holding
  <2> QED BY <1>1, <2>1, <2>2, <2>3, <2>4, SignerMoves
<1>11. ASSUME NEW p \in Signer!Procs, Signer!Observe(p) PROVE SignerState'
  <2>1. v4[p].pc = "observe" /\ v3' = v3 /\ v5' = v5 BY <1>11 DEF Signer!Observe
  <2>2. v3 # p BY <1>2, <2>1 DEF Signer!Holding
  <2>3. CASE /\ v2' \in {8, v2} /\ v4' = [v4 EXCEPT ![p] = Signer!NoCall]
             /\ v1' = v1 /\ v6' = v6
    <3>1. PICK r \in SignerCall : r = Signer!NoCall /\ r.pc = "idle" /\ r.spent = 0 BY SignerIdle
    <3>2. r.pc \notin Signer!Holding /\ v2' \in 0..8 BY <1>1, <2>3, <3>1 DEF Signer!Holding
    <3> QED BY <1>1, <2>1, <2>2, <2>3, <3>1, <3>2, SignerMoves
  <2>4. CASE /\ v2' = 0 /\ v1' = 0 /\ v6' = 0
             /\ v4' = [q \in Signer!Procs |-> IF q = p THEN Signer!NoCall
                                              ELSE [v4[q] EXCEPT !.holds = 0]]
    <3>1. ASSUME NEW q \in Signer!Procs
          PROVE  /\ v4'[q] \in SignerCall /\ v4'[q].holds = 0
                 /\ q # p => v4'[q].pc = v4[q].pc /\ v4'[q].spent = v4[q].spent
                 /\ q = p => v4'[q].pc = "idle" /\ v4'[q].spent = 0
      <4>1. CASE q = p BY <2>4, <4>1, SignerIdle
      <4>2. CASE q # p
        <5>1. v4'[q] = [v4[q] EXCEPT !.holds = 0] BY <2>4, <4>2
        <5> QED BY <1>1, <1>2, <4>2, <5>1 DEF SignerCall
      <4> QED BY <4>1, <4>2
    <3>2. v4' \in [Signer!Procs -> SignerCall] BY <2>4, <3>1
    <3>3. Signer!TypeOK' BY <1>1, <2>1, <2>4, <3>2 DEF Signer!TypeOK, SignerCall, Signer!Nobody
    <3>4. Signer!LockHeld' BY <1>2, <2>1, <2>2, <3>1 DEF Signer!LockHeld, Signer!Holding
    <3>5. Signer!Reserved'
      <4>1. v1' = 0 /\ v5' >= v6' /\ v5' \in 0..SignerSlot BY <1>1, <2>1, <2>4
      <4>2. ASSUME NEW q \in Signer!Procs
            PROVE  v4'[q].pc \notin {"authorize", "send", "reply", "shielded"} => v4'[q].spent = 0
        BY <1>2, <3>1
      <4>3. \A q \in Signer!Procs : v4'[q].holds = 0 BY <3>1
      <4> QED BY <4>1, <4>2, <4>3 DEF Signer!Reserved
    <3>6. Signer!Covered' BY <1>1, <2>1, <2>4 DEF Signer!Covered
    <3> QED BY <3>2, <3>3, <3>4, <3>5, <3>6 DEF SignerState
  <2> QED BY <1>11, <2>3, <2>4 DEF Signer!Observe
<1>12. ASSUME Signer!Tick PROVE SignerState'
  <2>1. /\ v1' = (IF v1 = 0 THEN 0 ELSE v1 - 1) /\ v2' = (IF v2 = 0 THEN 0 ELSE v2 - 1)
        /\ v5' = (IF v5 < SignerSlot THEN v5 + 1 ELSE v5)
        /\ v3' = v3 /\ v6' = v6
        /\ v4' = [p \in Signer!Procs |-> IF v4[p].pc = "authorize"
                                         THEN [v4[p] EXCEPT !.spent = @ + 1] ELSE v4[p]]
    BY <1>12 DEF Signer!Tick, Signer!Less
  <2>2. \A q \in Signer!Procs : /\ v4[q].pc # "send"
                                /\ v4[q].pc = "authorize" => v4[q].spent < SignerReads
    BY <1>12 DEF Signer!Tick
  <2>3. /\ v1' \in 0..SignerSlot /\ v2' \in 0..8 /\ v5' \in 0..SignerSlot /\ v6' \in 0..SignerSlot
        /\ v5' >= v5 /\ v1' + 1 >= v1 /\ v1' + v5' >= v6'
    BY <1>1, <2>1
  <2>4. ASSUME NEW q \in Signer!Procs
        PROVE  /\ v4'[q] \in SignerCall /\ v4'[q].holds = v4[q].holds /\ v4'[q].pc = v4[q].pc
               /\ v4[q].pc = "authorize" => v4'[q].spent = v4[q].spent + 1
               /\ v4[q].pc # "authorize" => v4'[q].spent = v4[q].spent
    <3>1. CASE v4[q].pc = "authorize"
      <4>1. v4'[q] = [v4[q] EXCEPT !.spent = @ + 1] BY <2>1, <3>1
      <4>2. v4[q].spent + 1 \in 0..SignerReads BY <1>2, <2>2, <3>1
      <4> QED BY <1>2, <3>1, <4>1, <4>2 DEF SignerCall
    <3>2. CASE v4[q].pc # "authorize" BY <1>2, <2>1, <3>2
    <3> QED BY <3>1, <3>2
  <2>5. v4' \in [Signer!Procs -> SignerCall] BY <2>1, <2>4
  <2>6. Signer!TypeOK' BY <1>1, <2>1, <2>3, <2>5 DEF Signer!TypeOK, SignerCall, Signer!Nobody
  <2>7. Signer!LockHeld' BY <1>2, <2>1, <2>4 DEF Signer!LockHeld
  <2>8. Signer!Reserved'
    <3>1. ASSUME NEW q \in Signer!Procs
          PROVE  /\ v4'[q].pc \notin {"authorize", "send", "reply", "shielded"} => v4'[q].spent = 0
                 /\ v4'[q].pc = "authorize" =>
                       v4'[q].holds = 0 \/ v1' + v4'[q].spent >= v4'[q].holds + SignerReads
                 /\ v4'[q].pc = "send" => v1' >= v4'[q].holds
                 /\ v4'[q].pc \in {"authorize", "send"} => v5' >= v6'
      BY <1>1, <1>2, <2>1, <2>2, <2>3, <2>4
    <3> QED BY <3>1 DEF Signer!Reserved
  <2>9. Signer!Covered' BY <2>3 DEF Signer!Covered
  <2> QED BY <2>5, <2>6, <2>7, <2>8, <2>9 DEF SignerState
<1> QED BY <1>3, <1>4, <1>5, <1>6, <1>7, <1>8, <1>9, <1>10, <1>11, <1>12 DEF Signer!Next

(* The component's inductive invariant holds while it is followed.           *)
LEMMA SignerInvariance == Spec => []SignerInv
<1>1. Init => SignerInv
  <2>1. ASSUME Init, focus = "signer" PROVE SignerState
    <3>1. Signer!Init BY <2>1 DEF Init
    <3>2. v4 \in [Signer!Procs -> SignerCall] /\ \A p \in Signer!Procs : v4[p] = Signer!NoCall
      BY <3>1, SignerIdle DEF Signer!Init
    <3>3. \A p \in Signer!Procs : p # "nobody" BY SignerSizes DEF Signer!Procs
    <3>4. Signer!TypeOK
      BY <3>1, <3>2, SignerSizes DEF Signer!Init, Signer!TypeOK, SignerCall, Signer!Nobody
    <3>5. Signer!LockHeld
      BY <3>1, <3>2, <3>3, SignerIdle DEF Signer!Init, Signer!LockHeld, Signer!Nobody, Signer!Holding
    <3>6. Signer!Reserved BY <3>2, SignerIdle DEF Signer!Reserved
    <3>7. Signer!Covered BY <3>1, SignerSizes DEF Signer!Init, Signer!Covered
    <3> QED BY <3>2, <3>4, <3>5, <3>6, <3>7 DEF SignerState
  <2> QED BY <2>1 DEF SignerInv
<1>2. SignerInv /\ [Next]_vars => SignerInv'
  <2>1. ASSUME SignerState, UNCHANGED Signer!vars PROVE SignerState'
    BY <2>1 DEF SignerState, Signer!vars, Signer!TypeOK, Signer!LockHeld, Signer!Reserved,
         Signer!Covered
  <2> QED BY <2>1, FocusKept, SignerSteps, SignerNextInv DEF SignerInv
<1> QED BY <1>1, <1>2, PTL DEF Spec

(* signer_action_lock, _reserve_submission_slot: a signed request is sent    *)
(* alone, and in sustained mode only when the slot of the last one is over.  *)
THEOREM SignerCadenceKept == Spec => CadenceKept
<1>1. ASSUME SignerInv, [Next]_vars, focus = "signer" PROVE Signer!SentInTime
  <2>1. SUFFICES ASSUME NEW p \in Signer!Procs, v4[p].pc = "send", v4'[p].pc = "reply"
                 PROVE  /\ v5 >= v6
                        /\ \A q \in Signer!Procs \ {p} :
                              v4[q].pc \notin {"authorize", "send", "reply", "shielded"}
    BY DEF Signer!SentInTime
  <2>2. SignerState BY <1>1 DEF SignerInv
  <2>3. v3 = p BY <2>1, <2>2 DEF SignerState, Signer!LockHeld, Signer!Holding
  <2>4. v5 >= v6 BY <2>1, <2>2 DEF SignerState, Signer!Reserved
  <2> QED BY <2>2, <2>3, <2>4 DEF SignerState, Signer!LockHeld, Signer!Holding
<1>2. SignerInv /\ [Next]_vars => [focus = "signer" => Signer!SentInTime]_vars BY <1>1
<1> QED BY <1>2, SignerInvariance, PTL DEF Spec, CadenceKept

-----------------------------------------------------------------------------
(* Execution destination and switch *)

SwitchInv == focus = "switch" => Switch!Inv

(* The platform's bounds are bounds of the component.                        *)
LEMMA SwitchBounded == Switch!Bounds
BY SwitchSizes DEF Switch!Bounds

(* A step of the platform is a step of the component that is followed.       *)
LEMMA SwitchSteps ==
    ASSUME focus = "switch", [Next]_vars
    PROVE  [Switch!Next]_(Switch!vars)
BY DEF Next, vars, WindowNext, RisexNext, ExitNext, SwitchNext, LimiterNext, SignerNext,
       LeverageNext, AdminNext, Switch!vars

(* The component's inductive invariant holds while it is followed.           *)
LEMMA SwitchInvariance == Spec => []SwitchInv
<1>1. Init => SwitchInv
  <2>1. Init /\ focus = "switch" => Switch!Init BY DEF Init
  <2> QED BY <2>1, SwitchBounded, Switch!InitInv DEF SwitchInv
<1>2. SwitchInv /\ [Next]_vars => SwitchInv'
  BY FocusKept, SwitchBounded, SwitchSteps, Switch!NextInv DEF SwitchInv
<1> QED BY <1>1, <1>2, PTL DEF Spec

(* set_user_destination, blockers, bind_job_execution_epoch: nothing stays   *)
(* at a destination the user has left, and a job executes on its own.        *)
THEOREM SwitchLeavesNothing == Spec => []NothingLeftBehind
<1>1. SwitchInv => NothingLeftBehind
  BY Switch!InvLeft DEF SwitchInv, NothingLeftBehind
<1> QED BY <1>1, SwitchInvariance, PTL

(* pause, close_positions, rollback, _process_job_locked: a pause lets one   *)
(* increase through, the one already decided on.                             *)
THEOREM SwitchPauseStops == Spec => []PauseStops
<1>1. SwitchInv => PauseStops BY Switch!InvPause DEF SwitchInv, PauseStops
<1> QED BY <1>1, SwitchInvariance, PTL

-----------------------------------------------------------------------------
(* Recovery of missing leverage. The component is instantiated without a     *)
(* proof module: its lemmas are stated here over the slots, where v2 holds   *)
(* the recovery jobs, v6 the keys in Redis, v7 the intents registered and v8 *)
(* the worker's task.                                                        *)

(* The repair script keeps the marker exact.                                 *)
LEMMA LeverageRepairMarks ==
    ASSUME Leverage!Bounds, Leverage!MarkInv, NEW o \in Leverage!Orders,
        v6' = Leverage!RecordRepair(o), UNCHANGED v7
    PROVE  Leverage!MarkInv'
<1> USE DEF Leverage!Bounds, Leverage!Orders
<1>1. v6 \in Leverage!Keys BY DEF Leverage!MarkInv
<1>2. CASE Leverage!Closes(o)
  <2>1. v6' = [v6 EXCEPT !.repaired = IF o > v6.repaired THEN o ELSE v6.repaired,
                               !.started = FALSE, !.latest = 0, !.recovered = v6.recovered + 1]
    BY <1>1, <1>2 DEF Leverage!RecordRepair, Leverage!Keys
  <2>2. v6'.started = FALSE /\ v6'.latest = 0 /\ v6'.repaired >= o
        /\ v6'.repaired >= v6.repaired /\ v6'.missing = v6.missing
        /\ v6'.recovered = v6.recovered + 1
    BY <1>1, <2>1 DEF Leverage!Keys
  <2>3. v6' \in Leverage!Keys
    <3>1. 0 \in 0..LeverageOrders
        /\ (IF o > v6.repaired THEN o ELSE v6.repaired) \in 0..LeverageOrders
          /\ v6.recovered + 1 \in Nat
      BY <1>1 DEF Leverage!Keys
    <3> QED BY <1>1, <2>1, <3>1 DEF Leverage!Keys
  <2>4. v6.started /\ v6.latest <= o BY <1>2, <1>1 DEF Leverage!Closes, Leverage!Keys
  <2>5. \A r \in v7 : r <= v6'.repaired
    BY <1>1, <2>2, <2>3, <2>4 DEF Leverage!MarkInv, Leverage!MarkerExact, Leverage!Keys
  <2>6. {r \in v7' : r > v6'.repaired} = {}
    <3>1. \A r \in v7 : ~(r > v6'.repaired) BY <2>3, <2>5 DEF Leverage!MarkInv, Leverage!Keys
    <3> QED BY <3>1
  <2>7. Leverage!MarkerExact' BY <1>1, <2>2, <2>4, <2>6 DEF Leverage!MarkInv,
      Leverage!MarkerExact, Leverage!Keys
  <2> QED BY <2>2, <2>3, <2>7 DEF Leverage!MarkInv
<1>3. CASE ~Leverage!Closes(o)
  <2>1. v6' = [v6 EXCEPT !.repaired = IF o > v6.repaired THEN o ELSE v6.repaired]
    BY <1>1, <1>3 DEF Leverage!RecordRepair, Leverage!Keys
  <2>2. v6'.started = v6.started /\ v6'.latest = v6.latest
        /\ v6'.repaired = (IF o > v6.repaired THEN o ELSE v6.repaired)
        /\ v6'.missing = v6.missing /\ v6'.recovered = v6.recovered
    BY <1>1, <2>1 DEF Leverage!Keys
  <2>3. v6' \in Leverage!Keys BY <1>1, <2>1 DEF Leverage!Keys
  <2>4. v6.started => o < v6.latest BY <1>1, <1>3 DEF Leverage!Closes, Leverage!Keys
  <2>5. CASE v6.started
    <3>1. v6.latest \in v7 /\ v6.latest > v6'.repaired
      BY <1>1, <2>2, <2>4, <2>5 DEF Leverage!MarkInv, Leverage!MarkerExact, Leverage!Keys
    <3>2. \A r \in v7 : r > v6'.repaired => r <= v6.latest
      BY <1>1, <2>2, <2>5 DEF Leverage!MarkInv, Leverage!MarkerExact, Leverage!Keys
    <3> QED BY <2>2, <2>3, <2>5, <3>1, <3>2 DEF Leverage!MarkInv, Leverage!MarkerExact
  <2>6. CASE ~v6.started
    <3>1. \A r \in v7 : ~(r > v6'.repaired)
      BY <1>1, <2>2, <2>6 DEF Leverage!MarkInv, Leverage!MarkerExact, Leverage!Keys
    <3> QED BY <2>2, <2>3, <2>6, <3>1 DEF Leverage!MarkInv, Leverage!MarkerExact
  <2> QED BY <2>5, <2>6
<1> QED BY <1>2, <1>3

(* The registration script keeps the marker exact.                           *)
LEMMA LeverageRegisterMarks ==
    ASSUME Leverage!Bounds, Leverage!MarkInv, NEW o \in Leverage!Orders,
        v6' = Leverage!RegisterMissing(o),
           v7' = v7 \cup {o}
    PROVE  Leverage!MarkInv'
<1> USE DEF Leverage!Bounds, Leverage!Orders
<1>1. v6 \in Leverage!Keys BY DEF Leverage!MarkInv
<1>2. CASE Leverage!Covered(o)
  <2>1. v6' = v6 BY <1>2 DEF Leverage!RegisterMissing
  <2>2. ~(o > v6.repaired) BY <1>1, <1>2 DEF Leverage!Covered, Leverage!Keys
  <2>3. {r \in v7' : r > v6'.repaired} = {r \in v7 : r > v6.repaired}
    BY <2>1, <2>2
  <2>4. Leverage!MarkerExact' BY <2>1, <2>3 DEF Leverage!MarkInv, Leverage!MarkerExact
  <2> QED BY <2>1, <2>4 DEF Leverage!MarkInv
<1>3. CASE ~Leverage!Covered(o)
  <2>1. v6' = [v6 EXCEPT !.started = TRUE,
                               !.latest = IF o > v6.latest THEN o ELSE v6.latest,
                               !.missing = IF v6.started THEN v6.missing ELSE v6.missing + 1]
    BY <1>1, <1>3 DEF Leverage!RegisterMissing, Leverage!Keys
  <2>2. v6'.started /\ v6'.latest = (IF o > v6.latest THEN o ELSE v6.latest)
        /\ v6'.repaired = v6.repaired /\ v6'.recovered = v6.recovered
        /\ v6'.missing = (IF v6.started THEN v6.missing ELSE v6.missing + 1)
    BY <1>1, <2>1 DEF Leverage!Keys
  <2>3. v6' \in Leverage!Keys
    <3>1. (IF o > v6.latest THEN o ELSE v6.latest) \in 0..LeverageOrders
          /\ (IF v6.started THEN v6.missing ELSE v6.missing + 1) \in Nat
      BY <1>1 DEF Leverage!Keys
    <3> QED BY <1>1, <2>1, <3>1 DEF Leverage!Keys
  <2>4. o > v6'.repaired BY <1>1, <1>3, <2>2 DEF Leverage!Covered, Leverage!Keys
  <2>5. v6'.latest \in v7' /\ v6'.latest > v6'.repaired
    BY <1>1, <2>2, <2>4 DEF Leverage!MarkInv, Leverage!MarkerExact, Leverage!Keys
  <2>6. \A r \in v7' : r > v6'.repaired => r <= v6'.latest
    BY <1>1, <2>2 DEF Leverage!MarkInv, Leverage!MarkerExact, Leverage!Keys
  <2>7. v6'.missing = v6'.recovered + 1 BY <1>1, <2>2 DEF Leverage!MarkInv,
      Leverage!MarkerExact, Leverage!Keys
  <2> QED BY <2>2, <2>3, <2>5, <2>6, <2>7 DEF Leverage!MarkInv, Leverage!MarkerExact
<1> QED BY <1>2, <1>3

(* Nothing but the two scripts changes the keys.                             *)
LEMMA LeverageMarkMoves ==
    ASSUME Leverage!Bounds, Leverage!TaskInv, [Leverage!Next]_(Leverage!vars)
    PROVE  \/ UNCHANGED <<v6, v7>>
           \/ \E o \in Leverage!Orders : v6' = Leverage!RecordRepair(o) /\ UNCHANGED v7
           \/ \E o \in Leverage!Orders : v6' = Leverage!RegisterMissing(o) /\ v7' = v7 \cup {o}
<1>1. CASE Leverage!Register
  <2>1. v8.j \in Leverage!Orders BY DEF Leverage!TaskInv, Leverage!Tasks
  <2> QED BY <1>1, <2>1 DEF Leverage!Register
<1>2. CASE \E o \in Leverage!Orders : \/ Leverage!PublishJob(o) \/ Leverage!PublishLost(o)
                                      \/ Leverage!ReplayRepair(o) \/ Leverage!ReplayLost(o)
  BY <1>2 DEF Leverage!PublishJob, Leverage!PublishLost, Leverage!ReplayRepair,
      Leverage!ReplayLost, Leverage!Booked
<1>3. CASE \/ Leverage!NewIntent \/ Leverage!SnapshotStart \/ Leverage!NewRepair
           \/ \E o \in Leverage!Orders : \/ Leverage!Supersede(o) \/ Leverage!ReleaseStale(o)
                                         \/ Leverage!Consume(o) \/ Leverage!Fallback(o)
           \/ Leverage!Claim \/ Leverage!Run \/ Leverage!RunBlocked \/ Leverage!Crash
           \/ Leverage!RedisDown \/ Leverage!RedisUp \/ UNCHANGED Leverage!vars
  BY <1>3 DEF Leverage!NewIntent, Leverage!SnapshotStart, Leverage!NewRepair,
      Leverage!Supersede, Leverage!ReleaseStale, Leverage!Consume, Leverage!Fallback,
      Leverage!Claim, Leverage!Run, Leverage!RunBlocked, Leverage!Crash,
      Leverage!RedisDown, Leverage!RedisUp, Leverage!vars
<1> QED BY <1>1, <1>2, <1>3 DEF Leverage!Next

(* Every step keeps the marker exact.                                        *)
LEMMA LeverageNextMarks ==
    ASSUME Leverage!Bounds, Leverage!TaskInv, Leverage!MarkInv, [Leverage!Next]_(Leverage!vars)
    PROVE  Leverage!MarkInv'
<1>1. CASE UNCHANGED <<v6, v7>> BY <1>1 DEF Leverage!MarkInv, Leverage!MarkerExact
<1> QED BY <1>1, LeverageMarkMoves, LeverageRepairMarks, LeverageRegisterMarks

(* Rows and tasks *)

(* The clock, the stream and the worker keep their types.                    *)
LEMMA LeverageNextTasks ==
    ASSUME Leverage!Bounds, Leverage!TaskInv, [Leverage!Next]_(Leverage!vars)
    PROVE  Leverage!TaskInv'
<1> USE DEF Leverage!Bounds, Leverage!TaskInv, Leverage!Orders
<1>1. Leverage!NoTask \in Leverage!Tasks BY DEF Leverage!NoTask, Leverage!Tasks
<1>2. CASE Leverage!NewIntent \/ Leverage!SnapshotStart \/ Leverage!NewRepair
  BY <1>2 DEF Leverage!NewIntent, Leverage!SnapshotStart, Leverage!NewRepair
<1>3. ASSUME NEW o \in Leverage!Orders,
           \/ Leverage!PublishJob(o) \/ Leverage!PublishLost(o)
           \/ Leverage!ReplayRepair(o) \/ Leverage!ReplayLost(o)
           \/ Leverage!Supersede(o) \/ Leverage!ReleaseStale(o)
      PROVE  Leverage!TaskInv'
  BY <1>3 DEF Leverage!PublishJob, Leverage!PublishLost, Leverage!ReplayRepair,
      Leverage!ReplayLost, Leverage!Supersede, Leverage!ReleaseStale
<1>4. ASSUME NEW o \in Leverage!Orders, Leverage!Consume(o) \/ Leverage!Fallback(o)
      PROVE  Leverage!TaskInv'
  <2>1. [pc |-> "claim", j |-> o] \in Leverage!Tasks BY DEF Leverage!Tasks
  <2> QED BY <1>1, <1>4, <2>1 DEF Leverage!Consume, Leverage!Fallback
<1>5. CASE Leverage!Claim \/ Leverage!RunBlocked
  <2>1. /\ [v8 EXCEPT !.pc = "run"] \in Leverage!Tasks
        /\ [v8 EXCEPT !.pc = "register"] \in Leverage!Tasks BY DEF Leverage!Tasks
  <2> QED BY <1>1, <1>5, <2>1 DEF Leverage!Claim, Leverage!RunBlocked
<1>6. CASE \/ Leverage!Run \/ Leverage!Register \/ Leverage!Crash
           \/ Leverage!RedisDown \/ Leverage!RedisUp
  BY <1>1, <1>6 DEF Leverage!Run, Leverage!Register, Leverage!Crash, Leverage!RedisDown,
      Leverage!RedisUp
<1>7. CASE UNCHANGED Leverage!vars BY <1>7 DEF Leverage!vars
<1> QED BY <1>2, <1>3, <1>4, <1>5, <1>6, <1>7 DEF Leverage!Next

(* Every step moves the rows that way.                                       *)
LEMMA LeverageJobMoves ==
    ASSUME Leverage!Bounds, Leverage!RowInv, Leverage!TaskInv, [Leverage!Next]_(Leverage!vars)
    PROVE  v2' = [o \in Leverage!Orders |-> v2'[o]]
        /\ \A o \in Leverage!Orders : Leverage!RowMoves(o)
<1> USE DEF Leverage!Bounds, Leverage!RowInv, Leverage!TaskInv
<1>1. v8.j \in Leverage!Orders BY DEF Leverage!Tasks
<1>2. CASE Leverage!NewIntent
  <2>1. v1 + 1 \in Leverage!Orders BY <1>2 DEF Leverage!NewIntent, Leverage!Orders
  <2> QED BY <1>2, <2>1 DEF Leverage!NewIntent, Leverage!RowMoves
<1>3. CASE Leverage!NewRepair
  <2>1. v3 \in Leverage!Orders BY <1>3 DEF Leverage!NewRepair, Leverage!Orders
  <2> QED BY <1>3, <2>1 DEF Leverage!NewRepair, Leverage!RowMoves
<1>4. ASSUME NEW o \in Leverage!Orders,
           \/ Leverage!Supersede(o) \/ Leverage!PublishJob(o)
           \/ Leverage!ReplayRepair(o) \/ Leverage!ReleaseStale(o)
           \/ Leverage!Fallback(o)
      PROVE  /\ v2' = [q \in Leverage!Orders |-> v2'[q]]
             /\ \A q \in Leverage!Orders : Leverage!RowMoves(q)
  <2>1. CASE Leverage!Supersede(o) \/ Leverage!ReleaseStale(o)
    <3>1. PICK s \in {"SKIPPED", Leverage!Released(o)} :
             v2' = [v2 EXCEPT ![o] = [v2[o] EXCEPT !.state = s]]
      BY <2>1 DEF Leverage!Supersede, Leverage!ReleaseStale
    <3> QED BY <3>1 DEF Leverage!RowMoves
  <2>2. CASE Leverage!PublishJob(o) \/ Leverage!ReplayRepair(o)
    <3>1. v2' = [v2 EXCEPT ![o] = [v2[o] EXCEPT !.pend = FALSE]]
      BY <2>2 DEF Leverage!PublishJob, Leverage!ReplayRepair
    <3> QED BY <3>1 DEF Leverage!RowMoves
  <2>3. CASE Leverage!Fallback(o) BY <2>3 DEF Leverage!Fallback, Leverage!RowMoves
  <2> QED BY <1>4, <2>1, <2>2, <2>3
<1>5. CASE Leverage!Claim
  <2>1. CASE UNCHANGED v2 BY <2>1 DEF Leverage!RowMoves
  <2>2. CASE ~UNCHANGED v2
    <3>1. /\ v2[v8.j].state \in Leverage!Queued
          /\ v2' = [v2 EXCEPT ![v8.j] =
                      [v2[v8.j] EXCEPT !.state = "PROCESSING", !.att = v2[v8.j].att + 1]]
      BY <1>5, <2>2 DEF Leverage!Claim
    <3> QED BY <1>1, <3>1 DEF Leverage!RowMoves
  <2> QED BY <2>1, <2>2
<1>6. CASE Leverage!Run \/ Leverage!RunBlocked
  <2>1. \E s \in {"DONE", "SKIPPED", Leverage!Released(v8.j)} :
           v2' = [v2 EXCEPT ![v8.j].state = s]
    BY <1>6 DEF Leverage!Run, Leverage!RunBlocked
  <2>2. PICK s \in {"DONE", "SKIPPED", Leverage!Released(v8.j)} :
           v2' = [v2 EXCEPT ![v8.j] = [v2[v8.j] EXCEPT !.state = s]]
    BY <2>1
  <2> QED BY <1>1, <2>2 DEF Leverage!RowMoves
<1>7. CASE \/ Leverage!SnapshotStart \/ Leverage!Register \/ Leverage!Crash
           \/ Leverage!RedisDown \/ Leverage!RedisUp \/ UNCHANGED Leverage!vars
           \/ \E o \in Leverage!Orders :
                 Leverage!PublishLost(o) \/ Leverage!ReplayLost(o) \/ Leverage!Consume(o)
  <2>1. v2' = v2
    BY <1>7 DEF Leverage!SnapshotStart, Leverage!Register, Leverage!Crash,
             Leverage!RedisDown, Leverage!RedisUp, Leverage!vars, Leverage!PublishLost,
             Leverage!ReplayLost, Leverage!Consume
  <2> QED BY <2>1 DEF Leverage!RowMoves
<1> QED BY <1>2, <1>3, <1>4, <1>5, <1>6, <1>7 DEF Leverage!Next

(* A row that moves that way keeps its type, and has an attempt left if it   *)
(* waits.                                                                    *)
LEMMA LeverageRowStays ==
    ASSUME Leverage!Bounds, NEW o \in Leverage!Orders, v2[o] \in Leverage!Rows,
           v2[o].state \in Leverage!Queued => v2[o].att < LeverageAttempts, Leverage!RowMoves(o)
    PROVE  v2'[o] \in Leverage!Rows
        /\ (v2'[o].state \in Leverage!Queued => v2'[o].att < LeverageAttempts)
<1> USE DEF Leverage!Bounds
<1>1. CASE v2'[o] = v2[o] BY <1>1
<1>2. ASSUME NEW kind \in {"intent", "repair"},
             v2'[o] = [Leverage!NoJob EXCEPT !.kind = kind, !.state = "QUEUED"]
      PROVE  v2'[o] \in Leverage!Rows /\ v2'[o].att < LeverageAttempts
  <2>1. v2'[o] = [kind |-> kind, state |-> "QUEUED", att |-> 0, pend |-> FALSE]
    BY <1>2 DEF Leverage!NoJob
  <2>2. 0 \in 0..LeverageAttempts /\ 0 < LeverageAttempts OBVIOUS
  <2> QED BY <2>1, <2>2 DEF Leverage!Rows, Leverage!Queued
<1>3. ASSUME v2'[o] = [v2[o] EXCEPT !.pend = FALSE]
      PROVE  v2'[o] \in Leverage!Rows /\ v2'[o].att = v2[o].att /\ v2'[o].state = v2[o].state
  BY <1>3 DEF Leverage!Rows
<1>4. ASSUME v2'[o] = [v2[o] EXCEPT !.pend = v2[o].pend \/ v2[o].kind = "repair"]
      PROVE  v2'[o] \in Leverage!Rows /\ v2'[o].att = v2[o].att /\ v2'[o].state = v2[o].state
  BY <1>4 DEF Leverage!Rows
<1>5. ASSUME NEW s \in {"DONE", "SKIPPED", Leverage!Released(o)},
             v2'[o] = [v2[o] EXCEPT !.state = s]
      PROVE  v2'[o] \in Leverage!Rows
          /\ (v2'[o].state \in Leverage!Queued => v2'[o].att < LeverageAttempts)
  <2>1. s \in {"DONE", "SKIPPED", "DEAD", "RETRYING"}
        /\ (s = "RETRYING" => v2[o].att < LeverageAttempts)
    BY DEF Leverage!Released
  <2> QED BY <1>5, <2>1 DEF Leverage!Rows, Leverage!Queued, Leverage!Ended
<1>6. ASSUME v2[o].state \in Leverage!Queued,
             v2'[o] = [v2[o] EXCEPT !.state = "PROCESSING", !.att = v2[o].att + 1]
      PROVE  v2'[o] \in Leverage!Rows /\ v2'[o].state \notin Leverage!Queued
  <2>1. v2[o].att + 1 \in 0..LeverageAttempts BY <1>6 DEF Leverage!Rows
  <2> QED BY <1>6, <2>1 DEF Leverage!Rows, Leverage!Queued
<1> QED BY <1>1, <1>2, <1>3, <1>4, <1>5, <1>6 DEF Leverage!RowMoves

(* The rows keep their types, and no job runs more often than it may.        *)
LEMMA LeverageNextRows == ASSUME Leverage!Bounds, Leverage!RowInv, Leverage!TaskInv,
    [Leverage!Next]_(Leverage!vars) PROVE Leverage!RowInv'
<1>1. \A o \in Leverage!Orders : v2'[o] \in Leverage!Rows
    /\ (v2'[o].state \in Leverage!Queued => v2'[o].att < LeverageAttempts)
  BY LeverageJobMoves, LeverageRowStays DEF Leverage!RowInv, Leverage!AttemptsLeft
<1>2. v2' \in [Leverage!Orders -> Leverage!Rows] BY <1>1, LeverageJobMoves
<1> QED BY <1>1, <1>2 DEF Leverage!RowInv, Leverage!AttemptsLeft

(* Nothing is registered at first.                                           *)
LEMMA LeverageInitInv == ASSUME Leverage!Bounds, Leverage!Init PROVE Leverage!Inv
<1> USE DEF Leverage!Bounds, Leverage!Init
<1>1. Leverage!RowInv BY DEF Leverage!RowInv, Leverage!AttemptsLeft, Leverage!NoJob,
    Leverage!Rows, Leverage!Queued
<1>2. Leverage!TaskInv BY DEF Leverage!TaskInv, Leverage!NoTask, Leverage!Tasks, Leverage!Orders
<1>3. Leverage!MarkInv BY DEF Leverage!MarkInv, Leverage!MarkerExact, Leverage!Keys
<1> QED BY <1>1, <1>2, <1>3 DEF Leverage!Inv

(* Every step keeps the invariant.                                           *)
LEMMA LeverageNextInv == ASSUME Leverage!Bounds, Leverage!Inv,
    [Leverage!Next]_(Leverage!vars) PROVE Leverage!Inv'
BY LeverageNextRows, LeverageNextTasks, LeverageNextMarks DEF Leverage!Inv

LeverageInv == focus = "leverage" => Leverage!Inv

(* The platform's bounds are bounds of the component.                        *)
LEMMA LeverageBounded == Leverage!Bounds
BY LeverageSizes DEF Leverage!Bounds

(* A step of the platform is a step of the component that is followed.       *)
LEMMA LeverageSteps ==
    ASSUME focus = "leverage", [Next]_vars
    PROVE  [Leverage!Next]_(Leverage!vars)
BY DEF Next, vars, WindowNext, RisexNext, ExitNext, SwitchNext, LimiterNext, SignerNext,
       LeverageNext, AdminNext, Leverage!vars

(* The component's inductive invariant holds while it is followed.           *)
LEMMA LeverageInvariance == Spec => []LeverageInv
<1>1. Init => LeverageInv
  <2>1. Init /\ focus = "leverage" => Leverage!Init BY DEF Init
  <2> QED BY <2>1, LeverageBounded, LeverageInitInv DEF LeverageInv
<1>2. LeverageInv /\ [Next]_vars => LeverageInv'
  BY FocusKept, LeverageBounded, LeverageSteps, LeverageNextInv DEF LeverageInv
<1> QED BY <1>1, <1>2, PTL DEF Spec

(* The scripts of master_leverage_cache: the marker is there exactly while a *)
(* registered intent is newer than every repair, and outages are counted     *)
(* once.                                                                     *)
THEOREM LeverageMarkerExact == Spec => []MarkerExact
<1>1. LeverageInv => MarkerExact BY DEF LeverageInv, MarkerExact, Leverage!Inv, Leverage!MarkInv
<1> QED BY <1>1, LeverageInvariance, PTL

-----------------------------------------------------------------------------
(* Administrator commands *)

AdminInv == focus = "admin" => Admin!TypeInv /\ Admin!Inv

(* The platform's bounds are bounds of the component.                        *)
LEMMA AdminBounded == Admin!Bounds
BY AdminSizes DEF Admin!Bounds

(* A step of the platform is a step of the component that is followed.       *)
LEMMA AdminSteps ==
    ASSUME focus = "admin", [Next]_vars
    PROVE  [Admin!Next]_(Admin!vars)
BY DEF Next, vars, WindowNext, RisexNext, ExitNext, SwitchNext, LimiterNext, SignerNext,
       LeverageNext, AdminNext, Admin!vars

(* The component's inductive invariant holds while it is followed.           *)
LEMMA AdminInvariance == Spec => []AdminInv
<1>1. Init => AdminInv
  <2>1. Init /\ focus = "admin" => Admin!Init BY DEF Init
  <2> QED BY <2>1, AdminBounded, Admin!InitInv DEF AdminInv
<1>2. AdminInv /\ [Next]_vars => AdminInv'
  BY FocusKept, AdminBounded, AdminSteps, Admin!NextInv DEF AdminInv
<1> QED BY <1>1, <1>2, PTL DEF Spec

(* _run_admin_leverage_sync: a synchronization is signed at most once,       *)
(* within what master, market and risk profile allowed after the claim and   *)
(* within what the administrator was shown.                                  *)
THEOREM AdminSignedOnce == Spec => []SignedOnceAndFresh
<1>1. AdminInv => SignedOnceAndFresh BY Admin!InvFresh DEF AdminInv, SignedOnceAndFresh
<1> QED BY <1>1, AdminInvariance, PTL

-----------------------------------------------------------------------------
(* Sums of weights                                                           *)
(* What entries weigh together is a fold of the community modules: a         *)
(* function defined by recursion over the subsets of the set. That it exists *)
(* is shown layer by layer, with induction as a fact about sets of numbers.  *)

(* A set of natural numbers with 0 and all successors is all of them.        *)
LEMMA AllNaturals ==
    ASSUME NEW P \in SUBSET Nat, 0 \in P, \A n \in P : n + 1 \in P
    PROVE  P = Nat
<1> SUFFICES ASSUME Nat \ P # {} PROVE FALSE OBVIOUS
<1>1. \E x \in Nat \ P : \A y \in Nat \ P : ~ (<<y, x>> \in OpToRel(<, Nat))
  BY NatLessThanWellFounded, WFMin, Zenon
<1>2. PICK m \in Nat \ P : \A y \in Nat \ P : ~(y < m) BY <1>1 DEF OpToRel
<1>3. m # 0 /\ m - 1 \in Nat /\ m - 1 < m OBVIOUS
<1>4. m - 1 \in P BY <1>2, <1>3
<1>5. (m - 1) + 1 \in P BY <1>4
<1> QED BY <1>2, <1>5

(* The element a fold takes next, and what is left of a set without it.      *)
Chosen(s) == CHOOSE x \in s : TRUE
Rest(s)   == s \ {Chosen(s)}

(* Taking out an element leaves a smaller subset.                            *)
LEMMA TakeOut ==
    ASSUME NEW S, IsFiniteSet(S), NEW s \in SUBSET S
    PROVE  /\ IsFiniteSet(s) /\ Cardinality(s) \in Nat /\ Cardinality(s) <= Cardinality(S)
           /\ Cardinality(s) = 0 <=> s = {}
           /\ \A e \in s : s \ {e} \in SUBSET S /\ Cardinality(s \ {e}) = Cardinality(s) - 1
           /\ s # {} => Chosen(s) \in s
<1>1. IsFiniteSet(s) /\ Cardinality(s) <= Cardinality(S) BY FS_Subset
<1>2. Cardinality(s) \in Nat BY <1>1, FS_CardinalityType
<1>3. Cardinality(s) = 0 <=> s = {} BY <1>1, FS_EmptySet
<1>4. s # {} => Chosen(s) \in s BY DEF Chosen
<1>5. \A e \in s : Cardinality(s \ {e}) = Cardinality(s) - 1 BY <1>1, FS_RemoveElement
<1> QED BY <1>1, <1>2, <1>3, <1>4, <1>5

(* The equation of the weights of the subsets of a set.                      *)
Weighs(it, S) == it = [s \in SUBSET S |-> IF s = {} THEN 0 ELSE Chosen(s).w + it[Rest(s)]]

(* They exist, layer by layer: the sets of at most n + 1 elements after      *)
(* those of at most n.                                                       *)
LEMMA WeightsExist == ASSUME NEW S, IsFiniteSet(S) PROVE \E it : Weighs(it, S)
<1> DEFINE Layer(n)    == {s \in SUBSET S : Cardinality(s) <= n}
           Step(it, s) == IF s = {} THEN 0 ELSE Chosen(s).w + it[Rest(s)]
           P == {n \in Nat : \E it : it = [s \in Layer(n) |-> Step(it, s)]}
<1>c. \A s \in SUBSET S : Cardinality(s) \in Nat /\ Cardinality(s) <= Cardinality(S)
  BY TakeOut
<1> HIDE DEF Step
<1>1. 0 \in P
  <2> DEFINE it == [s \in Layer(0) |-> 0]
  <2>1. \A s \in Layer(0) : s = {} BY TakeOut
  <2>2. it = [s \in Layer(0) |-> Step(it, s)] BY <2>1 DEF Step
  <2> QED BY <2>2
<1>2. ASSUME NEW n \in P PROVE n + 1 \in P
  <2>1. PICK it : it = [s \in Layer(n) |-> Step(it, s)] OBVIOUS
  <2> DEFINE up == [s \in Layer(n + 1) |-> Step(it, s)]
  <2>2. \A s \in Layer(n) : s \in Layer(n + 1) BY <1>c
  <2>3. \A s \in Layer(n) : up[s] = it[s] BY <2>1, <2>2
  <2>4. \A s \in Layer(n + 1) : s # {} => Rest(s) \in Layer(n) BY <1>c, TakeOut DEF Rest
  <2>5. (\A s \in Layer(n + 1) : up[s] = Step(it, s)) /\ up = [s \in Layer(n + 1) |-> up[s]]
    OBVIOUS
  <2>6. n + 1 \in Nat OBVIOUS
  <2> HIDE DEF up, Layer
  <2>7. \A s \in Layer(n + 1) : Step(up, s) = Step(it, s) BY <2>3, <2>4 DEF Step
  <2>8. up = [s \in Layer(n + 1) |-> Step(up, s)] BY <2>5, <2>7
  <2> QED BY <2>6, <2>8
<1>3. P = Nat BY <1>1, <1>2, AllNaturals
<1>4. Layer(Cardinality(S)) = SUBSET S BY <1>c
<1>5. Cardinality(S) \in P BY <1>3, FS_CardinalityType
<1>6. \E it : it = [s \in SUBSET S |-> Step(it, s)] BY <1>4, <1>5
<1> QED BY <1>6 DEF Weighs, Step

(* Two solutions agree on the sets both have.                                *)
LEMMA WeightsAgree ==
    ASSUME NEW S, IsFiniteSet(S), NEW T \in SUBSET S, NEW F, NEW G, Weighs(F, S), Weighs(G, T)
    PROVE  \A s \in SUBSET T : G[s] = F[s]
<1> DEFINE P == {n \in Nat : \A s \in SUBSET T : Cardinality(s) = n => G[s] = F[s]}
<1>1. /\ \A s \in SUBSET S : F[s] = IF s = {} THEN 0 ELSE Chosen(s).w + F[Rest(s)]
      /\ \A s \in SUBSET T : G[s] = IF s = {} THEN 0 ELSE Chosen(s).w + G[Rest(s)]
  BY DEF Weighs
<1>2. IsFiniteSet(T) BY FS_Subset
<1>3. 0 \in P BY <1>1, <1>2, TakeOut
<1>4. ASSUME NEW n \in P PROVE n + 1 \in P
  <2> SUFFICES ASSUME NEW s \in SUBSET T, Cardinality(s) = n + 1 PROVE G[s] = F[s] OBVIOUS
  <2>1. n + 1 # 0 OBVIOUS
  <2>2. s # {} /\ Chosen(s) \in s BY <1>2, <2>1, TakeOut
  <2>3. Rest(s) \in SUBSET T /\ Cardinality(Rest(s)) = (n + 1) - 1 BY <1>2, <2>2, TakeOut DEF Rest
  <2>4. s \in SUBSET S /\ Rest(s) \in SUBSET T /\ Cardinality(Rest(s)) = n BY <2>3
  <2> QED BY <1>1, <2>2, <2>4
<1>5. P = Nat BY <1>3, <1>4, AllNaturals
<1> QED BY <1>2, <1>5, TakeOut

(* The weight of a finite set is found by taking elements out.               *)
LEMMA WeightStep ==
    ASSUME NEW S, IsFiniteSet(S)
    PROVE  /\ S = {} => Limiter!Weight(S) = 0
           /\ S # {} => Limiter!Weight(S) = Chosen(S).w + Limiter!Weight(Rest(S))
<1>1. ASSUME NEW T, IsFiniteSet(T) PROVE \E F : Weighs(F, T) /\ Limiter!Weight(T) = F[T]
  <2> DEFINE F == CHOOSE it : Weighs(it, T)
  <2>1. Limiter!Weight(T) = F[T]
    BY DEF Limiter!Weight, Limiter!FoldSet, Limiter!MapThenFoldSet, Weighs, Chosen, Rest
  <2>2. Weighs(F, T) BY <1>1, WeightsExist
  <2> HIDE DEF F
  <2> QED BY <2>1, <2>2
<1>2. Rest(S) \in SUBSET S /\ IsFiniteSet(Rest(S)) BY FS_Subset DEF Rest
<1>3. PICK F : Weighs(F, S) /\ Limiter!Weight(S) = F[S] BY <1>1
<1>4. PICK G : Weighs(G, Rest(S)) /\ Limiter!Weight(Rest(S)) = G[Rest(S)] BY <1>1, <1>2
<1>5. G[Rest(S)] = F[Rest(S)] BY <1>2, <1>3, <1>4, WeightsAgree
<1>6. F[S] = IF S = {} THEN 0 ELSE Chosen(S).w + F[Rest(S)] BY <1>3 DEF Weighs
<1> QED BY <1>3, <1>4, <1>5, <1>6

(* What entries weigh is a number of their own: taking one out takes out its *)
(* weight.                                                                   *)
Weighed(S) == IsFiniteSet(S) /\ \A e \in S : e.w \in Nat

LEMMA WeightRemove ==
    ASSUME NEW S, Weighed(S)
    PROVE  /\ Limiter!Weight(S) \in Nat
           /\ \A e \in S : Limiter!Weight(S) = e.w + Limiter!Weight(S \ {e})
<1> DEFINE Wt(s) == Limiter!Weight(s)
           Ok(s) == Wt(s) \in Nat /\ \A e \in s : Wt(s) = e.w + Wt(s \ {e})
           P == {n \in Nat : \A s \in SUBSET S : Cardinality(s) <= n => Ok(s)}
<1>1. IsFiniteSet(S) /\ \A e \in S : e.w \in Nat BY DEF Weighed
<1> HIDE DEF Wt
<1>2. \A s \in SUBSET S : s # {} => Chosen(s) \in s /\ Wt(s) = Chosen(s).w + Wt(s \ {Chosen(s)})
  BY <1>1, TakeOut, WeightStep DEF Wt, Rest
<1>3. 0 \in P
  <2>1. \A s \in SUBSET S : Cardinality(s) <= 0 => s = {} BY <1>1, TakeOut
  <2>2. Wt({}) = 0 BY WeightStep, FS_EmptySet DEF Wt
  <2>3. Ok({}) BY <2>2
  <2> QED BY <2>1, <2>3
<1>4. ASSUME NEW n \in P PROVE n + 1 \in P
  <2> SUFFICES ASSUME NEW s \in SUBSET S, Cardinality(s) = n + 1 PROVE Ok(s)
    <3>1. \A s \in SUBSET S : Cardinality(s) <= n + 1 => Cardinality(s) <= n \/ Cardinality(s) = n + 1
      BY <1>1, TakeOut
    <3> QED BY <3>1
  <2> DEFINE x == Chosen(s)
  <2>1. n + 1 # 0 /\ (n + 1) - 1 = n OBVIOUS
  <2>2. x \in s /\ Wt(s) = x.w + Wt(s \ {x}) BY <1>1, <1>2, <2>1, TakeOut
  <2>3. \A e \in s : s \ {e} \in SUBSET S /\ Cardinality(s \ {e}) = n BY <1>1, <2>1, TakeOut
  <2>4. \A e \in s : Ok(s \ {e}) BY <2>3
  <2>5. Wt(s) \in Nat BY <1>1, <2>2, <2>4
  <2>6. ASSUME NEW e \in s, e # x PROVE Wt(s) = e.w + Wt(s \ {e})
    <3> DEFINE t == (s \ {x}) \ {e}
    <3>1. Wt(s \ {x}) = e.w + Wt(t) BY <2>2, <2>4, <2>6
    <3>2. (s \ {e}) \ {x} = t OBVIOUS
    <3>3. Wt(s \ {e}) = x.w + Wt(t)
      <4>1. Wt(s \ {e}) = x.w + Wt((s \ {e}) \ {x}) BY <2>2, <2>4, <2>6
      <4> HIDE DEF t
      <4> QED BY <3>2, <4>1
    <3>4. Wt(t) \in Nat
      <4>1. s \ {x} \in SUBSET S /\ Cardinality(s \ {x}) = n /\ e \in s \ {x} BY <2>2, <2>3, <2>6
      <4>2. \A r \in SUBSET S : \A y \in r :
               r \ {y} \in SUBSET S /\ Cardinality(r \ {y}) = Cardinality(r) - 1
        BY <1>1, TakeOut
      <4>3. Cardinality(t) <= n /\ t \in SUBSET S BY <4>1, <4>2
      <4> HIDE DEF t
      <4> QED BY <4>3
    <3>5. e.w \in Nat /\ x.w \in Nat BY <1>1, <2>2, <2>6
    <3> HIDE DEF t, x
    <3> QED BY <2>2, <3>1, <3>3, <3>4, <3>5
  <2> QED BY <2>2, <2>5, <2>6
<1>5. P = Nat BY <1>3, <1>4, AllNaturals
<1>6. Ok(S) BY <1>1, <1>5, TakeOut
<1> QED BY <1>6 DEF Wt

(* Adding one.                                                               *)
LEMMA WeightAdd ==
    ASSUME NEW S, Weighed(S), NEW e, e.w \in Nat, e \notin S
    PROVE  Weighed(S \cup {e}) /\ Limiter!Weight(S \cup {e}) = e.w + Limiter!Weight(S)
<1>1. Weighed(S \cup {e}) BY FS_AddElement DEF Weighed
<1>2. (S \cup {e}) \ {e} = S /\ e \in S \cup {e} OBVIOUS
<1> QED BY <1>1, <1>2, WeightRemove

(* The weight of two sets without a common entry.                            *)
LEMMA WeightUnion ==
    ASSUME NEW A, Weighed(A), NEW B, Weighed(B), A \cap B = {}
    PROVE  Weighed(A \cup B) /\ Limiter!Weight(A \cup B) = Limiter!Weight(A) + Limiter!Weight(B)
<1> DEFINE Ok(b) == Weighed(A \cup b) /\ Limiter!Weight(A \cup b) = Limiter!Weight(A) + Limiter!Weight(b)
           P == {n \in Nat : \A b \in SUBSET B : Cardinality(b) = n => Ok(b)}
<1>1. IsFiniteSet(B) /\ \A b \in SUBSET B : Weighed(b) BY FS_Subset DEF Weighed
<1>2. 0 \in P
  <2>1. \A b \in SUBSET B : Cardinality(b) = 0 => b = {} BY <1>1, TakeOut
  <2>2. Limiter!Weight({}) = 0 BY WeightStep, FS_EmptySet
  <2>3. A \cup {} = A /\ Limiter!Weight(A) \in Nat BY WeightRemove
  <2>4. Ok({}) BY <2>2, <2>3
  <2> QED BY <2>1, <2>4
<1>3. ASSUME NEW n \in P PROVE n + 1 \in P
  <2> SUFFICES ASSUME NEW b \in SUBSET B, Cardinality(b) = n + 1 PROVE Ok(b) OBVIOUS
  <2>1. n + 1 # 0 /\ (n + 1) - 1 = n OBVIOUS
  <2>2. PICK x : x \in b BY <1>1, <2>1, TakeOut
  <2> DEFINE r == b \ {x}
  <2>3. r \in SUBSET B /\ Cardinality(r) = n BY <1>1, <2>1, <2>2, TakeOut
  <2>4. Ok(r) BY <2>3
  <2>5. x.w \in Nat /\ x \notin A \cup r BY <2>2 DEF Weighed
  <2>6. A \cup b = (A \cup r) \cup {x} BY <2>2
  <2>7. Weighed(A \cup b) /\ Limiter!Weight(A \cup b) = x.w + Limiter!Weight(A \cup r)
    BY <2>4, <2>5, <2>6, WeightAdd
  <2>8. Limiter!Weight(b) = x.w + Limiter!Weight(r) BY <1>1, <2>2, WeightRemove
  <2>9. Limiter!Weight(A) \in Nat /\ Limiter!Weight(r) \in Nat BY <1>1, <2>3, WeightRemove
  <2> HIDE DEF r
  <2> QED BY <2>4, <2>5, <2>7, <2>8, <2>9
<1>4. P = Nat BY <1>2, <1>3, AllNaturals
<1>5. Cardinality(B) \in Nat BY <1>1, FS_CardinalityType
<1> QED BY <1>4, <1>5

(* A part weighs no more than the whole.                                     *)
LEMMA WeightOfPart ==
    ASSUME NEW A, NEW B, Weighed(B), A \subseteq B
    PROVE  /\ Weighed(A) /\ Limiter!Weight(A) \in Nat /\ Limiter!Weight(B) \in Nat
           /\ Limiter!Weight(A) <= Limiter!Weight(B)
<1>1. Weighed(A) /\ Weighed(B \ A) BY FS_Subset DEF Weighed
<1>2. A \cap (B \ A) = {} /\ A \cup (B \ A) = B OBVIOUS
<1>3. Limiter!Weight(B) = Limiter!Weight(A) + Limiter!Weight(B \ A) BY <1>1, <1>2, WeightUnion
<1>4. Limiter!Weight(A) \in Nat /\ Limiter!Weight(B \ A) \in Nat BY <1>1, WeightRemove
<1> QED BY <1>1, <1>3, <1>4

(* Entries sorted into groups, none of which is over its limit, are together *)
(* not over the sum of the limits.                                           *)
LEMMA WeightByGroups ==
    ASSUME NEW A, Weighed(A), NEW B, Weighed(B), NEW g \in [A -> B],
           \A b \in B : Limiter!Weight({a \in A : g[a] = b}) <= b.w
    PROVE  Limiter!Weight(A) <= Limiter!Weight(B)
<1> DEFINE In(s) == {a \in A : g[a] \in s}
           Ok(s) == Limiter!Weight(In(s)) <= Limiter!Weight(s)
           P == {n \in Nat : \A s \in SUBSET B : Cardinality(s) = n => Ok(s)}
<1>1. IsFiniteSet(B) /\ \A s \in SUBSET B : Weighed(s) BY FS_Subset DEF Weighed
<1>a. \A s \in SUBSET B : Weighed(In(s)) BY FS_Subset DEF Weighed
<1>2. 0 \in P
  <2>1. \A s \in SUBSET B : Cardinality(s) = 0 => s = {} BY <1>1, TakeOut
  <2>2. Limiter!Weight({}) = 0 BY WeightStep, FS_EmptySet
  <2>3. In({}) = {} OBVIOUS
  <2>4. Ok({}) BY <2>2, <2>3
  <2> QED BY <2>1, <2>4
<1>3. ASSUME NEW n \in P PROVE n + 1 \in P
  <2> SUFFICES ASSUME NEW s \in SUBSET B, Cardinality(s) = n + 1 PROVE Ok(s) OBVIOUS
  <2>1. n + 1 # 0 /\ (n + 1) - 1 = n OBVIOUS
  <2>2. PICK b : b \in s BY <1>1, <2>1, TakeOut
  <2> DEFINE r   == s \ {b}
             grp == {a \in A : g[a] = b}
  <2>3. r \in SUBSET B /\ Cardinality(r) = n BY <1>1, <2>1, <2>2, TakeOut
  <2>4. Ok(r) BY <2>3
  <2>5. In(s) = In(r) \cup grp /\ In(r) \cap grp = {} BY <2>2
  <2>6. Weighed(grp) BY FS_Subset DEF Weighed
  <2>7. Limiter!Weight(In(s)) = Limiter!Weight(In(r)) + Limiter!Weight(grp)
    <3> HIDE DEF In, grp
    <3> QED BY <1>a, <2>3, <2>5, <2>6, WeightUnion
  <2>8. Limiter!Weight(s) = b.w + Limiter!Weight(r) BY <1>1, <2>2, WeightRemove
  <2>9. Limiter!Weight(grp) \in Nat /\ Limiter!Weight(r) \in Nat /\ Limiter!Weight(In(r)) \in Nat
    BY <1>1, <1>a, <2>3, <2>6, WeightRemove
  <2>10. Limiter!Weight(grp) <= b.w /\ b.w \in Nat BY <2>2 DEF Weighed
  <2> HIDE DEF r, grp, In
  <2> QED BY <2>4, <2>7, <2>8, <2>9, <2>10
<1>4. P = Nat BY <1>2, <1>3, AllNaturals
<1>5. Cardinality(B) \in Nat BY <1>1, FS_CardinalityType
<1>6. Ok(B) BY <1>4, <1>5
<1>7. In(B) = A OBVIOUS
<1> QED BY <1>6, <1>7

-----------------------------------------------------------------------------
(* The limiter                                                               *)
(* v1 is the time, v2 how far the replicas' clocks are ahead, v3 the global  *)
(* window, v4 the windows of the lanes, v5 the calls, v6 the replicas that   *)
(* cool down and v7 what the exchange has charged.                           *)

LimiterLanes == DOMAIN LimiterAllowances
LimiterEntry == [id : Nat \ {0}, w : Nat, at : Nat]
LimiterCall  == [pc : {"idle", "reserved", "sent", "retry"}, lane : LimiterLanes, w : Nat,
                 id : Nat, at : Nat, real : Nat, att : 0..LimiterAttempts]
Held         == v3 \cup UNION {v4[l] : l \in LimiterLanes}

LimiterTypes ==
    /\ v1 \in Nat /\ v2 \in [LimiterCallers -> 0..LimiterSkew] /\ v6 \subseteq LimiterCallers
    /\ v5 \in [LimiterCallers -> LimiterCall]
    /\ v3 \subseteq LimiterEntry /\ v4 \in [LimiterLanes -> SUBSET LimiterEntry]
    /\ v7 \subseteq LimiterEntry
    /\ IsFiniteSet(Held) /\ IsFiniteSet(v7)

(* A reservation is one entry, in one lane, and in its lane as long as it is *)
(* in the global window by every clock.                                      *)
EntriesInv ==
    /\ \A e, f \in Held : e.id = f.id => e = f
    /\ \A l, m \in LimiterLanes : \A e \in v4[l] : e \in v4[m] => l = m
    /\ \A e \in v3 : e.at > v1 + LimiterSkew - LimiterWindow => \E l \in LimiterLanes : e \in v4[l]

(* No window is over its limit.                                              *)
CapsInv ==
    /\ Limiter!Weight(v3) <= LimiterTotal - LimiterReserve
    /\ \A l \in LimiterLanes : Limiter!Weight(v4[l]) <= LimiterAllowances[l]

(* What a call on its way knows of its reservation.                          *)
CallsInv ==
    /\ \A c, d \in LimiterCallers : v5[c].id # 0 /\ v5[c].id = v5[d].id => c = d
    /\ \A c \in LimiterCallers : v5[c].pc \in {"reserved", "sent"} =>
          /\ v5[c].id # 0
          /\ \A e \in Held : e.id = v5[c].id => e.w = v5[c].w
          /\ \A l \in LimiterLanes : \A e \in v4[l] : e.id = v5[c].id => l = v5[c].lane
    /\ \A c \in LimiterCallers : v5[c].pc = "reserved" =>
          /\ \A s \in v7 : s.id # v5[c].id
          /\ v5[c].at <= v1 /\ v1 - v5[c].at <= LimiterDelay
          /\ \E e \in v3 : e.id = v5[c].id /\ e.at >= v5[c].at
    /\ \A c \in LimiterCallers : v5[c].pc = "sent" =>
          /\ v5[c].real <= v5[c].w
          /\ \A s \in v7 : s.id = v5[c].id => s.w = v5[c].real

(* What was charged a short while ago is still in the global window.         *)
ServedInv ==
    /\ \A s, t \in v7 : s.id = t.id => s = t
    /\ \A s \in v7 : s.at > v1 - (LimiterWindow - LimiterDelay - LimiterSkew) =>
          \E e \in v3 : e.id = s.id /\ e.w >= s.w /\ e.at >= s.at - LimiterDelay

LimiterState == LimiterTypes /\ EntriesInv /\ CapsInv /\ CallsInv /\ ServedInv

(* The sizes, one by one.                                                    *)
LEMMA LimiterBounds ==
    /\ IsFiniteSet(LimiterLanes) /\ "ORDER" \in LimiterLanes
    /\ LimiterAllowances \in [LimiterLanes -> Nat]
    /\ LimiterTotal \in Nat /\ LimiterReserve \in Nat /\ Limiter!Validated
    /\ LimiterWeights \subseteq Nat \ {0} /\ IsFiniteSet(LimiterCallers)
    /\ LimiterAttempts \in Nat \ {0} /\ LimiterWindow \in Nat /\ LimiterDelay \in Nat
    /\ LimiterSkew \in Nat /\ LimiterDelay + LimiterSkew < LimiterWindow
BY LimiterSizes DEF Limiter!Sizes, LimiterLanes, Limiter!IsFiniteSet, IsFiniteSet

(* What is in a window.                                                      *)
LEMMA HeldIs == \A e : e \in Held <=> e \in v3 \/ \E l \in LimiterLanes : e \in v4[l]
BY DEF Held

(* The windows are finite.                                                   *)
LEMMA WindowsWeighed ==
    ASSUME LimiterTypes
    PROVE  Weighed(v3) /\ Weighed(v7) /\ \A l \in LimiterLanes : Weighed(v4[l])
<1>1. v3 \subseteq Held /\ \A l \in LimiterLanes : v4[l] \subseteq Held BY DEF Held
<1>2. IsFiniteSet(v3) /\ \A l \in LimiterLanes : IsFiniteSet(v4[l])
  BY <1>1, FS_Subset DEF LimiterTypes
<1> QED BY <1>2 DEF LimiterTypes, Weighed, LimiterEntry

(* Trimming takes out nothing that is not over by the fastest clock.         *)
LEMMA FreshKeeps ==
    ASSUME LimiterTypes, NEW c \in LimiterCallers, NEW S \in SUBSET LimiterEntry
    PROVE  /\ Limiter!Fresh(c, S) \subseteq S
           /\ \A e \in S : e.at > v1 + LimiterSkew - LimiterWindow => e \in Limiter!Fresh(c, S)
BY LimiterBounds DEF LimiterTypes, Limiter!Fresh, Limiter!Clock, LimiterEntry

(* The image of a finite set under a function is finite.                     *)
LEMMA ImageFinite ==
    ASSUME NEW S, IsFiniteSet(S), NEW f, DOMAIN f = S
    PROVE  IsFiniteSet({f[x] : x \in S})
<1> DEFINE T == {f[x] : x \in S}
<1>1. [x \in S |-> f[x]] \in Surjection(S, T) BY DEF Surjection
<1> QED BY <1>1, FS_Surjection

(* A finite set of numbers leaves one of the first numbers free.             *)
LEMMA FreshId ==
    ASSUME LimiterTypes
    PROVE  /\ Limiter!NewId \in Nat \ {0}
           /\ \A e \in Held : e.id # Limiter!NewId
           /\ \A s \in v7 : s.id # Limiter!NewId
           /\ \A c \in LimiterCallers : v5[c].id # Limiter!NewId
<1> DEFINE U == Limiter!Used
           n == Cardinality(U)
           Free == (1..(n + 1)) \ U
           E == Held \cup v7
           ids == [e \in E |-> e.id]
           used == [c \in LimiterCallers |-> v5[c].id]
<1>1. U = {ids[e] : e \in E} \cup {used[c] : c \in LimiterCallers}
  BY DEF Limiter!Used, Held, LimiterLanes
<1>2. IsFiniteSet(E) BY FS_Union DEF LimiterTypes
<1>3. IsFiniteSet(U)
  <2>1. IsFiniteSet({ids[e] : e \in E}) BY <1>2, ImageFinite
  <2>2. IsFiniteSet({used[c] : c \in LimiterCallers}) BY LimiterBounds, ImageFinite
  <2> QED BY <1>1, <2>1, <2>2, FS_Union
<1>4. n \in Nat BY <1>3, FS_CardinalityType
<1>5. Free # {}
  <2> SUFFICES ASSUME 1..(n + 1) \subseteq U PROVE FALSE OBVIOUS
  <2>1. Cardinality(1..(n + 1)) <= n BY <1>3, FS_Subset
  <2>2. Cardinality(1..(n + 1)) = n + 1 BY <1>4, FS_Interval
  <2> HIDE DEF n
  <2> QED BY <1>4, <2>1, <2>2
<1>6. \E x \in Free : \A y \in Free : x <= y
  <2>1. Free \subseteq Nat BY <1>4
  <2>2. PICK x \in Free : \A y \in Free : ~ (<<y, x>> \in OpToRel(<, Nat))
    <3> HIDE DEF Free
    <3> QED BY <1>5, <2>1, NatLessThanWellFounded, WFMin, Zenon
  <2>3. \A y \in Free : ~(y < x) BY <2>1, <2>2 DEF OpToRel
  <2> HIDE DEF Free
  <2> QED BY <2>1, <2>3
<1>7. Limiter!NewId \in Free
  <2>1. Limiter!Cardinality(U) = n
    BY DEF Limiter!Cardinality, Cardinality, Limiter!IsFiniteSet, IsFiniteSet
  <2>2. Limiter!NewId = CHOOSE x \in Free : \A y \in Free : x <= y
    BY <2>1 DEF Limiter!NewId, Limiter!Min
  <2> HIDE DEF Free
  <2> QED BY <1>6, <2>2
<1>8. Limiter!NewId \in Nat \ {0} /\ Limiter!NewId \notin U BY <1>4, <1>7
<1>9. \A e \in E : e.id \in U BY <1>1
<1>10. \A c \in LimiterCallers : v5[c].id \in U BY <1>1
<1> HIDE DEF U
<1> QED BY <1>8, <1>9, <1>10

(* A window after a trim: of the old entries, and all that are recent.       *)
Recent(e)      == e.at > v1 + LimiterSkew - LimiterWindow
Trims(S, T)    == T \subseteq S /\ \A e \in S : Recent(e) => e \in T

(* Refused requests and observations trim windows and do nothing else.       *)
LEMMA TrimSteps ==
    ASSUME LimiterTypes, NEW c \in LimiterCallers, Limiter!Refused(c) \/ Limiter!Observe(c)
    PROVE  /\ Trims(v3, v3') /\ v4' \in [LimiterLanes -> SUBSET LimiterEntry]
           /\ \A l \in LimiterLanes : Trims(v4[l], v4'[l])
           /\ UNCHANGED <<v1, v2, v5, v6, v7>>
<1>1. UNCHANGED <<v1, v2, v5, v6, v7>> BY DEF Limiter!Refused, Limiter!Observe
<1>2. v3' = v3 \/ v3' = Limiter!Fresh(c, v3) BY DEF Limiter!Refused, Limiter!Observe
<1>3. v4' = v4 \/ \E l \in LimiterLanes : v4' = [v4 EXCEPT ![l] = Limiter!Fresh(c, v4[l])]
  BY DEF Limiter!Refused, Limiter!Observe, LimiterLanes
<1>4. \A S \in SUBSET LimiterEntry : Trims(S, S) /\ Trims(S, Limiter!Fresh(c, S))
  BY FreshKeeps DEF Trims, Recent
<1>5. v3 \in SUBSET LimiterEntry /\ v4 \in [LimiterLanes -> SUBSET LimiterEntry] BY DEF LimiterTypes
<1>6. Trims(v3, v3') BY <1>2, <1>4, <1>5
<1>7. CASE v4' = v4 BY <1>1, <1>4, <1>5, <1>6, <1>7
<1>8. ASSUME NEW l \in LimiterLanes, v4' = [v4 EXCEPT ![l] = Limiter!Fresh(c, v4[l])]
      PROVE  v4' \in [LimiterLanes -> SUBSET LimiterEntry] /\ \A m \in LimiterLanes : Trims(v4[m], v4'[m])
  <2>1. Limiter!Fresh(c, v4[l]) \in SUBSET LimiterEntry BY <1>5, FreshKeeps
  <2>2. v4' \in [LimiterLanes -> SUBSET LimiterEntry] BY <1>5, <1>8, <2>1
  <2>3. \A m \in LimiterLanes : v4'[m] = IF m = l THEN Limiter!Fresh(c, v4[l]) ELSE v4[m]
    BY <1>5, <1>8
  <2> QED BY <1>4, <1>5, <2>2, <2>3
<1> QED BY <1>1, <1>3, <1>6, <1>7, <1>8

(* An admitted request: both windows are trimmed and get the entry.          *)
NewEntry(c, w) == [id |-> Limiter!NewId, w |-> w, at |-> Limiter!Clock(c)]
NewCall(c, l, w) == [pc |-> "reserved", lane |-> l, w |-> w, id |-> Limiter!NewId, at |-> v1,
                     real |-> 0, att |-> v5[c].att]

Reserves(c, l, w) ==
    /\ Limiter!Admits(c, l, w)
    /\ v3' = Limiter!Fresh(c, v3) \cup {NewEntry(c, w)}
    /\ v4' = [v4 EXCEPT ![l] = Limiter!Fresh(c, v4[l]) \cup {NewEntry(c, w)}]
    /\ v5' = [v5 EXCEPT ![c] = NewCall(c, l, w)]
    /\ UNCHANGED <<v1, v2, v6, v7>>

LEMMA ReserveSteps ==
    ASSUME NEW c \in LimiterCallers, Limiter!TryReserve(c)
    PROVE  \E l \in LimiterLanes, w \in LimiterWeights : Reserves(c, l, w)
BY DEF Limiter!TryReserve, Reserves, NewEntry, NewCall, Limiter!NoCall, LimiterLanes

(* The other steps leave the windows alone, but for the settlement.          *)
Idles(c) == v5' = [v5 EXCEPT ![c] = Limiter!NoCall]
Retries(c) == v5' = [v5 EXCEPT ![c] = [v5[c] EXCEPT !.pc = "retry", !.att = v5[c].att + 1]]

(* A step that only ends or repeats a call.                                  *)
CallEnds(c) ==
    /\ v6' \subseteq LimiterCallers /\ UNCHANGED <<v1, v2, v3, v4, v7>>
    /\ \/ UNCHANGED v5 \/ Idles(c)
       \/ v5[c].pc = "sent" /\ v5[c].att + 1 < LimiterAttempts /\ Retries(c)

LEMMA CallSteps ==
    ASSUME LimiterTypes, NEW c \in LimiterCallers,
           \/ Limiter!GiveUp(c) \/ Limiter!RespondFixed(c) \/ Limiter!Failed(c)
           \/ Limiter!Throttled(c) \/ Limiter!CooldownEnds(c)
    PROVE  CallEnds(c)
<1>1. v6 \subseteq LimiterCallers BY DEF LimiterTypes
<1>2. CASE Limiter!Failed(c)
  <2>1. CASE v5[c].att + 1 < LimiterAttempts
    <3>1. Retries(c) BY <1>2, <2>1, Zenon DEF Limiter!Failed, Retries
    <3> QED BY <1>1, <1>2, <2>1, <3>1 DEF Limiter!Failed, CallEnds
  <2>2. CASE ~(v5[c].att + 1 < LimiterAttempts)
    BY <1>1, <1>2, <2>2 DEF Limiter!Failed, CallEnds, Idles
  <2> QED BY <2>1, <2>2
<1>3. CASE Limiter!GiveUp(c) \/ Limiter!RespondFixed(c)
  BY <1>1, <1>3 DEF Limiter!GiveUp, Limiter!RespondFixed, CallEnds, Idles
<1>4. CASE Limiter!Throttled(c) BY <1>1, <1>4 DEF Limiter!Throttled, CallEnds, Idles
<1>5. CASE Limiter!CooldownEnds(c) BY <1>1, <1>5 DEF Limiter!CooldownEnds, CallEnds
<1> QED BY <1>2, <1>3, <1>4, <1>5

(* Whoever idles is a call, whoever retries is one too.                      *)
LEMMA CallsTyped ==
    ASSUME LimiterTypes, NEW c \in LimiterCallers
    PROVE  /\ Limiter!NoCall \in LimiterCall /\ v5[c] \in LimiterCall
           /\ Idles(c) \/ (Retries(c) /\ v5[c].att + 1 < LimiterAttempts) =>
                v5' \in [LimiterCallers -> LimiterCall]
<1>1. Limiter!NoCall \in LimiterCall /\ v5[c] \in LimiterCall
  BY LimiterBounds DEF Limiter!NoCall, LimiterCall, LimiterTypes
<1>2. Idles(c) => v5' \in [LimiterCallers -> LimiterCall] BY <1>1 DEF Idles, LimiterTypes
<1>3. ASSUME Retries(c), v5[c].att + 1 < LimiterAttempts
      PROVE  v5' \in [LimiterCallers -> LimiterCall]
  <2> DEFINE x == [v5[c] EXCEPT !.pc = "retry", !.att = v5[c].att + 1]
  <2>1. v5[c].att + 1 \in 0..LimiterAttempts
    BY <1>1, <1>3, LimiterBounds DEF LimiterCall
  <2>2. x \in LimiterCall BY <1>1, <2>1 DEF LimiterCall
  <2>3. v5' = [v5 EXCEPT ![c] = x] BY <1>3 DEF Retries
  <2> HIDE DEF x
  <2> QED BY <2>2, <2>3 DEF LimiterTypes
<1> QED BY <1>1, <1>2, <1>3

(* Refused requests and observations keep the invariant.                     *)
LEMMA TrimKeeps ==
    ASSUME LimiterState, NEW c \in LimiterCallers, Limiter!Refused(c) \/ Limiter!Observe(c)
    PROVE  LimiterState'
<1> USE LimiterBounds
<1>t. LimiterTypes BY DEF LimiterState
<1>1. /\ v3' \subseteq v3 /\ \A e \in v3 : Recent(e) => e \in v3'
      /\ \A l \in LimiterLanes :
            v4'[l] \subseteq v4[l] /\ \A e \in v4[l] : Recent(e) => e \in v4'[l]
      /\ v4' \in [LimiterLanes -> SUBSET LimiterEntry] /\ UNCHANGED <<v1, v2, v5, v6, v7>>
  BY <1>t, TrimSteps DEF Trims
<1>2. Held' \subseteq Held BY <1>1 DEF Held
<1>3. LimiterTypes' BY <1>t, <1>1, <1>2, FS_Subset DEF LimiterTypes
<1>4. EntriesInv' BY <1>1, <1>2 DEF LimiterState, EntriesInv, Recent
<1>5. CapsInv'
  <2>1. /\ Limiter!Weight(v3') <= Limiter!Weight(v3)
        /\ Limiter!Weight(v3) \in Nat /\ Limiter!Weight(v3') \in Nat
    BY <1>t, <1>1, WindowsWeighed, WeightOfPart
  <2>2. ASSUME NEW l \in LimiterLanes
        PROVE  /\ Limiter!Weight(v4'[l]) <= Limiter!Weight(v4[l])
               /\ Limiter!Weight(v4[l]) \in Nat /\ Limiter!Weight(v4'[l]) \in Nat
    BY <1>t, <1>1, WindowsWeighed, WeightOfPart
  <2>4. Limiter!Weight(v3') <= LimiterTotal - LimiterReserve
    BY <2>1 DEF LimiterState, CapsInv
  <2>5. ASSUME NEW l \in LimiterLanes PROVE Limiter!Weight(v4'[l]) <= LimiterAllowances[l]
    <3>1. LimiterAllowances[l] \in Nat OBVIOUS
    <3> QED BY <2>2, <3>1 DEF LimiterState, CapsInv
  <2>6. CapsInv' = /\ Limiter!Weight(v3') <= LimiterTotal - LimiterReserve
                   /\ \A l \in LimiterLanes : Limiter!Weight(v4'[l]) <= LimiterAllowances[l]
    BY DEF CapsInv
  <2> QED BY <2>4, <2>5, <2>6
<1>6. CallsInv'
  <2>1. \A d \in LimiterCallers : v5[d] \in LimiterCall BY <1>t DEF LimiterTypes
  <2>2. ASSUME NEW d \in LimiterCallers, v5[d].pc = "reserved"
        PROVE  \E e \in v3' : e.id = v5[d].id /\ e.at >= v5[d].at
    <3>1. PICK e \in v3 : e.id = v5[d].id /\ e.at >= v5[d].at
      BY <2>2 DEF LimiterState, CallsInv
    <3>2. v1 - v5[d].at <= LimiterDelay BY <2>2 DEF LimiterState, CallsInv
    <3>3. e.at \in Nat /\ v5[d].at \in Nat /\ v1 \in Nat
      BY <1>t, <2>1 DEF LimiterTypes, LimiterEntry, LimiterCall
    <3>4. Recent(e) BY <3>1, <3>2, <3>3 DEF Recent
    <3> QED BY <1>1, <3>1, <3>4
  <2> QED BY <1>1, <1>2, <2>2 DEF LimiterState, CallsInv
<1>7. ServedInv'
  <2>1. ASSUME NEW s \in v7, s.at > v1 - (LimiterWindow - LimiterDelay - LimiterSkew)
        PROVE  \E e \in v3' : e.id = s.id /\ e.w >= s.w /\ e.at >= s.at - LimiterDelay
    <3>1. PICK e \in v3 : e.id = s.id /\ e.w >= s.w /\ e.at >= s.at - LimiterDelay
      BY <2>1 DEF LimiterState, ServedInv
    <3>2. e.at \in Nat /\ s.at \in Nat /\ v1 \in Nat BY <1>t DEF LimiterTypes, LimiterEntry
    <3>3. Recent(e) BY <2>1, <3>1, <3>2 DEF Recent
    <3> QED BY <1>1, <3>1, <3>3
  <2> QED BY <1>1, <2>1 DEF LimiterState, ServedInv
<1> QED BY <1>3, <1>4, <1>5, <1>6, <1>7 DEF LimiterState

(* Ends of calls keep it.                                                    *)
LEMMA CallEndKeeps ==
    ASSUME LimiterState, NEW c \in LimiterCallers, CallEnds(c) PROVE LimiterState'
<1>t. LimiterTypes BY DEF LimiterState
<1>1. UNCHANGED <<v1, v2, v3, v4, v7>> /\ v6' \subseteq LimiterCallers BY DEF CallEnds
<1>2. UNCHANGED v5 \/ Idles(c) \/ (v5[c].att + 1 < LimiterAttempts /\ Retries(c))
  BY Zenon DEF CallEnds
<1>3. v5' \in [LimiterCallers -> LimiterCall]
  <2>1. v5 \in [LimiterCallers -> LimiterCall] BY <1>t DEF LimiterTypes
  <2> QED BY <1>t, <1>2, <2>1, CallsTyped, Zenon
<1>4. \A d \in LimiterCallers : v5'[d] = v5[d] \/ (d = c /\ v5'[d].pc \in {"idle", "retry"})
  <2>1. UNCHANGED v5 => \A d \in LimiterCallers : v5'[d] = v5[d] OBVIOUS
  <2>2. Idles(c) \/ Retries(c) => \A d \in LimiterCallers \ {c} : v5'[d] = v5[d]
    BY <1>t DEF Idles, Retries, LimiterTypes
  <2>3. Idles(c) => v5'[c].pc = "idle" BY <1>t DEF Idles, LimiterTypes, Limiter!NoCall
  <2>4. Retries(c) => v5'[c].pc = "retry" BY <1>t DEF Retries, LimiterTypes, LimiterCall
  <2> QED BY <1>2, <2>1, <2>2, <2>3, <2>4
<1>5. v5'[c].id = v5[c].id \/ v5'[c].id = 0
  <2>1. Idles(c) => v5'[c].id = 0 BY <1>t DEF Idles, LimiterTypes, Limiter!NoCall
  <2>2. Retries(c) => v5'[c].id = v5[c].id BY <1>t DEF Retries, LimiterTypes, LimiterCall
  <2> QED BY <1>2, <2>1, <2>2
<1>6. Held' = Held BY <1>1 DEF Held
<1>7. LimiterTypes' BY <1>t, <1>1, <1>3, <1>6 DEF LimiterTypes
<1>8. EntriesInv' BY <1>1, <1>6 DEF LimiterState, EntriesInv
<1>9. CapsInv' BY <1>1 DEF LimiterState, CapsInv
<1>10. CallsInv'
  <2>1. ASSUME NEW d \in LimiterCallers, NEW f \in LimiterCallers, v5'[d].id # 0, v5'[d].id = v5'[f].id
        PROVE  d = f
    BY <1>4, <1>5, <2>1 DEF LimiterState, CallsInv
  <2>2. \A d \in LimiterCallers : v5'[d].pc \in {"reserved", "sent"} => v5'[d] = v5[d] BY <1>4
  <2> QED BY <1>1, <1>6, <2>1, <2>2 DEF LimiterState, CallsInv
<1>11. ServedInv' BY <1>1 DEF LimiterState, ServedInv
<1> QED BY <1>7, <1>8, <1>9, <1>10, <1>11 DEF LimiterState

(* So does a request that leaves: what is charged is not more than reserved. *)
LEMMA SendKeeps ==
    ASSUME LimiterState, NEW c \in LimiterCallers, Limiter!Send(c) PROVE LimiterState'
<1> USE LimiterBounds
<1>t. LimiterTypes BY DEF LimiterState
<1>1. PICK real \in 1..v5[c].w :
         /\ v7' = v7 \cup {[id |-> v5[c].id, w |-> real, at |-> v1]}
         /\ v5' = [v5 EXCEPT ![c] = [v5[c] EXCEPT !.pc = "sent", !.real = real]]
  BY DEF Limiter!Send
<1>2. v5[c].pc = "reserved" /\ UNCHANGED <<v1, v2, v3, v4, v6>> BY DEF Limiter!Send
<1>3. v5[c] \in LimiterCall /\ v1 \in Nat BY <1>t DEF LimiterTypes
<1>4. real \in Nat /\ real <= v5[c].w BY <1>3 DEF LimiterCall
<1>5. [v5[c] EXCEPT !.pc = "sent", !.real = real] \in LimiterCall BY <1>3, <1>4 DEF LimiterCall
<1>6. v5' \in [LimiterCallers -> LimiterCall] BY <1>t, <1>1, <1>5 DEF LimiterTypes
<1>7. /\ \A d \in LimiterCallers \ {c} : v5'[d] = v5[d]
      /\ v5'[c].pc = "sent" /\ v5'[c].real = real /\ v5'[c].id = v5[c].id /\ v5'[c].w = v5[c].w
      /\ v5'[c].lane = v5[c].lane
  BY <1>t, <1>1, <1>3 DEF LimiterTypes, LimiterCall
<1> DEFINE new == [id |-> v5[c].id, w |-> real, at |-> v1]
<1>8. v5[c].id # 0 /\ (\A s \in v7 : s.id # v5[c].id) /\ v1 - v5[c].at <= LimiterDelay
  BY <1>2 DEF LimiterState, CallsInv
<1>9. new \in LimiterEntry BY <1>3, <1>4, <1>8 DEF LimiterEntry, LimiterCall
<1>10. Held' = Held BY <1>2 DEF Held
<1>11. LimiterTypes'
  <2>1. IsFiniteSet(v7') BY <1>t, <1>1, FS_AddElement DEF LimiterTypes
  <2>2. v7' \subseteq LimiterEntry BY <1>t, <1>1, <1>9 DEF LimiterTypes
  <2> QED BY <1>t, <1>2, <1>6, <1>10, <2>1, <2>2 DEF LimiterTypes
<1>12. EntriesInv' BY <1>2, <1>10 DEF LimiterState, EntriesInv
<1>13. CapsInv' BY <1>2 DEF LimiterState, CapsInv
<1>14. \A s \in v7' : s \in v7 \/ (s.id = v5[c].id /\ s.w = real /\ s.at = v1)
  <2>1. new.id = v5[c].id /\ new.w = real /\ new.at = v1 OBVIOUS
  <2>2. \A s \in v7' : s \in v7 \/ s = new BY <1>1
  <2> HIDE DEF new
  <2> QED BY <2>1, <2>2
<1>15. CallsInv'
  <2>1. \A d, f \in LimiterCallers : v5'[d].id # 0 /\ v5'[d].id = v5'[f].id => d = f
    BY <1>7 DEF LimiterState, CallsInv
  <2>2. \A d \in LimiterCallers : v5'[d].pc \in {"reserved", "sent"} =>
          /\ v5'[d].id # 0
          /\ \A e \in Held' : e.id = v5'[d].id => e.w = v5'[d].w
          /\ \A l \in LimiterLanes : \A e \in v4'[l] : e.id = v5'[d].id => l = v5'[d].lane
    BY <1>2, <1>7, <1>10 DEF LimiterState, CallsInv
  <2>3. ASSUME NEW d \in LimiterCallers, v5'[d].pc = "reserved"
        PROVE  /\ \A s \in v7' : s.id # v5'[d].id
               /\ v5'[d].at <= v1' /\ v1' - v5'[d].at <= LimiterDelay
               /\ \E e \in v3' : e.id = v5'[d].id /\ e.at >= v5'[d].at
    BY <1>2, <1>7, <1>8, <1>14, <2>3 DEF LimiterState, CallsInv
  <2>4. ASSUME NEW d \in LimiterCallers, v5'[d].pc = "sent"
        PROVE  /\ v5'[d].real <= v5'[d].w
               /\ \A s \in v7' : s.id = v5'[d].id => s.w = v5'[d].real
    BY <1>4, <1>7, <1>8, <1>14, <2>4 DEF LimiterState, CallsInv
  <2> QED BY <2>1, <2>2, <2>3, <2>4 DEF CallsInv
<1>16. ServedInv'
  <2>1. \A s, r \in v7' : s.id = r.id => s = r BY <1>1, <1>8 DEF LimiterState, ServedInv
  <2>2. PICK e \in v3 : e.id = v5[c].id /\ e.at >= v5[c].at BY <1>2 DEF LimiterState, CallsInv
  <2>3. e.w = v5[c].w BY <1>2, <2>2, HeldIs DEF LimiterState, CallsInv
  <2>4. e.at >= v1 - LimiterDelay
    BY <1>t, <1>3, <1>8, <2>2 DEF LimiterTypes, LimiterEntry, LimiterCall
  <2>5. \A s \in v7' : s.at > v1 - (LimiterWindow - LimiterDelay - LimiterSkew) =>
          \E x \in v3 : x.id = s.id /\ x.w >= s.w /\ x.at >= s.at - LimiterDelay
    BY <1>4, <1>14, <2>2, <2>3, <2>4 DEF LimiterState, ServedInv
  <2> QED BY <1>2, <2>1, <2>5 DEF ServedInv
<1> QED BY <1>11, <1>12, <1>13, <1>15, <1>16 DEF LimiterState

(* Time passes only while every reserved call may still wait.                *)
LEMMA TickKeeps == ASSUME LimiterState, Limiter!Tick PROVE LimiterState'
<1> USE LimiterBounds
<1>t. LimiterTypes BY DEF LimiterState
<1>1. /\ v1' = v1 + 1 /\ v7' \subseteq v7 /\ UNCHANGED <<v2, v3, v4, v5, v6>>
      /\ \A c \in LimiterCallers : v5[c].pc = "reserved" => v1 - v5[c].at < LimiterDelay
  BY DEF Limiter!Tick
<1>2. v1 \in Nat /\ \A c \in LimiterCallers : v5[c].at \in Nat BY <1>t DEF LimiterTypes, LimiterCall
<1>3. Held' = Held BY <1>1 DEF Held
<1>4. LimiterTypes' BY <1>t, <1>1, <1>2, <1>3, FS_Subset DEF LimiterTypes
<1>5. EntriesInv'
  <2>1. \A e \in v3 : e.at > v1' + LimiterSkew - LimiterWindow => e.at > v1 + LimiterSkew - LimiterWindow
    BY <1>t, <1>1, <1>2 DEF LimiterTypes, LimiterEntry
  <2> QED BY <1>1, <1>3, <2>1 DEF LimiterState, EntriesInv
<1>6. CapsInv' BY <1>1 DEF LimiterState, CapsInv
<1>7. CallsInv'
  <2>1. \A c \in LimiterCallers : v5[c].pc = "reserved" =>
           v5[c].at <= v1' /\ v1' - v5[c].at <= LimiterDelay
    BY <1>1, <1>2 DEF LimiterState, CallsInv
  <2> QED BY <1>1, <1>3, <2>1 DEF LimiterState, CallsInv
<1>8. ServedInv'
  <2>1. \A s \in v7 : s.at > v1' - (LimiterWindow - LimiterDelay - LimiterSkew) =>
                      s.at > v1 - (LimiterWindow - LimiterDelay - LimiterSkew)
    BY <1>t, <1>1, <1>2 DEF LimiterTypes, LimiterEntry
  <2> QED BY <1>1, <2>1 DEF LimiterState, ServedInv
<1> QED BY <1>4, <1>5, <1>6, <1>7, <1>8 DEF LimiterState

(* An admitted request keeps it: the entry is new, and the limits were       *)
(* checked on the very windows it is added to.                               *)
LEMMA ReserveKeeps ==
    ASSUME LimiterState, NEW c \in LimiterCallers, NEW l \in LimiterLanes,
           NEW w \in LimiterWeights, Reserves(c, l, w)
    PROVE  LimiterState'
<1> USE LimiterBounds
<1>t. LimiterTypes BY DEF LimiterState
<1> DEFINE id  == Limiter!NewId
           n   == NewEntry(c, w)
           S   == Limiter!Fresh(c, v3)
           T   == Limiter!Fresh(c, v4[l])
           new == NewCall(c, l, w)
<1>1. /\ v3' = S \cup {n} /\ v4' = [v4 EXCEPT ![l] = T \cup {n}]
      /\ v5' = [v5 EXCEPT ![c] = new] /\ UNCHANGED <<v1, v2, v6, v7>>
  BY DEF Reserves
<1>2. /\ v1 \in Nat /\ v5 \in [LimiterCallers -> LimiterCall] /\ v3 \in SUBSET LimiterEntry
      /\ v4 \in [LimiterLanes -> SUBSET LimiterEntry] /\ v7 \in SUBSET LimiterEntry
  BY <1>t DEF LimiterTypes
<1>3. /\ id \in Nat \ {0} /\ \A e \in Held : e.id # id
      /\ \A s \in v7 : s.id # id
  BY <1>t, FreshId
<1>d. \A d \in LimiterCallers : v5[d].id # id BY <1>t, FreshId
<1>4. Limiter!Clock(c) \in Nat /\ Limiter!Clock(c) >= v1
  BY <1>t DEF LimiterTypes, Limiter!Clock
<1>5. w \in Nat OBVIOUS
<1>6. /\ n \in LimiterEntry /\ n.id = id /\ n.w = w /\ n.at >= v1
  BY <1>3, <1>4, <1>5 DEF NewEntry, LimiterEntry
<1>7. /\ new \in LimiterCall /\ new.pc = "reserved" /\ new.lane = l /\ new.w = w
      /\ new.id = id /\ new.at = v1
  BY <1>2, <1>3, <1>5 DEF NewCall, LimiterCall
<1>8. /\ S \subseteq v3 /\ \A e \in v3 : Recent(e) => e \in S
      /\ T \subseteq v4[l] /\ \A e \in v4[l] : Recent(e) => e \in T
  BY <1>t, <1>2, FreshKeeps DEF Recent
<1>9. /\ Limiter!Weight(S) + w <= LimiterTotal - LimiterReserve
      /\ Limiter!Weight(T) + w <= LimiterAllowances[l]
  BY DEF Reserves, Limiter!Admits
<1> HIDE DEF id, n, S, T, new
<1>10. /\ v4' \in [LimiterLanes -> SUBSET LimiterEntry] /\ v4'[l] = T \cup {n}
       /\ \A m \in LimiterLanes \ {l} : v4'[m] = v4[m]
  BY <1>1, <1>2, <1>6, <1>8
<1>11. /\ v5' \in [LimiterCallers -> LimiterCall] /\ v5'[c] = new
       /\ \A d \in LimiterCallers \ {c} : v5'[d] = v5[d]
  BY <1>1, <1>2, <1>7
<1>12. \A e \in Held' : e \in Held \/ e = n
  <2>1. \A e \in Held' : e \in v3' \/ \E m \in LimiterLanes : e \in v4'[m] BY DEF Held
  <2> QED BY <1>1, <1>8, <1>10, <2>1, HeldIs
<1>13. LimiterTypes'
  <2>1. Held' \subseteq Held \cup {n} BY <1>12
  <2>2. IsFiniteSet(Held \cup {n}) BY <1>t, FS_AddElement DEF LimiterTypes
  <2>3. IsFiniteSet(Held') BY <2>1, <2>2, FS_Subset
  <2>4. v3' \subseteq LimiterEntry BY <1>1, <1>2, <1>6, <1>8
  <2> QED BY <1>t, <1>1, <1>10, <1>11, <2>3, <2>4 DEF LimiterTypes
<1>14. n \notin v3 /\ n \notin v4[l] BY <1>3, <1>6, HeldIs
<1>15. EntriesInv'
  <2>1. \A e, f \in Held' : e.id = f.id => e = f
    BY <1>3, <1>6, <1>12 DEF LimiterState, EntriesInv
  <2>2. ASSUME NEW j \in LimiterLanes, NEW m \in LimiterLanes, NEW e \in v4'[j], e \in v4'[m]
        PROVE  j = m
    <3>1. CASE e = n
      <4>1. \A k \in LimiterLanes : n \in v4'[k] => k = l BY <1>3, <1>6, <1>10, HeldIs
      <4> QED BY <2>2, <3>1, <4>1
    <3>2. CASE e # n
      <4>1. e \in v4[j] /\ e \in v4[m] BY <1>8, <1>10, <2>2, <3>2
      <4> QED BY <4>1 DEF LimiterState, EntriesInv
    <3> QED BY <3>1, <3>2
  <2>3. ASSUME NEW e \in v3', e.at > v1' + LimiterSkew - LimiterWindow
        PROVE  \E m \in LimiterLanes : e \in v4'[m]
    <3>1. CASE e = n BY <1>10, <3>1
    <3>2. CASE e # n
      <4>1. e \in v3 /\ Recent(e) BY <1>1, <1>8, <2>3, <3>2 DEF Recent
      <4>2. PICK m \in LimiterLanes : e \in v4[m]
        BY <4>1 DEF LimiterState, EntriesInv, Recent
      <4>3. e \in v4'[m] BY <1>8, <1>10, <4>1, <4>2
      <4> QED BY <4>3
    <3> QED BY <3>1, <3>2
  <2> QED BY <2>1, <2>2, <2>3 DEF EntriesInv
<1>16. CapsInv'
  <2>1. Weighed(S) /\ Weighed(T) BY <1>t, <1>8, WindowsWeighed, WeightOfPart
  <2>2. Limiter!Weight(S) \in Nat /\ Limiter!Weight(T) \in Nat BY <2>1, WeightRemove
  <2>3. n \notin S /\ n \notin T BY <1>8, <1>14
  <2>4. /\ Limiter!Weight(S \cup {n}) = w + Limiter!Weight(S)
        /\ Limiter!Weight(T \cup {n}) = w + Limiter!Weight(T)
    BY <1>5, <1>6, <2>1, <2>3, WeightAdd
  <2>5. Limiter!Weight(v3') <= LimiterTotal - LimiterReserve
    BY <1>1, <1>5, <1>9, <2>2, <2>4
  <2>6. Limiter!Weight(v4'[l]) <= LimiterAllowances[l]
    BY <1>5, <1>9, <1>10, <2>2, <2>4
  <2>7. \A m \in LimiterLanes : Limiter!Weight(v4'[m]) <= LimiterAllowances[m]
    BY <1>10, <2>6 DEF LimiterState, CapsInv
  <2>8. CapsInv' = /\ Limiter!Weight(v3') <= LimiterTotal - LimiterReserve
                   /\ \A m \in LimiterLanes : Limiter!Weight(v4'[m]) <= LimiterAllowances[m]
    BY DEF CapsInv
  <2> QED BY <2>5, <2>7, <2>8
<1>17. CallsInv'
  <2>1. \A d, f \in LimiterCallers : v5'[d].id # 0 /\ v5'[d].id = v5'[f].id => d = f
    BY <1>3, <1>d, <1>7, <1>11 DEF LimiterState, CallsInv
  <2>2. ASSUME NEW d \in LimiterCallers, v5'[d].pc \in {"reserved", "sent"}
        PROVE  /\ v5'[d].id # 0
               /\ \A e \in Held' : e.id = v5'[d].id => e.w = v5'[d].w
               /\ \A m \in LimiterLanes : \A e \in v4'[m] : e.id = v5'[d].id => m = v5'[d].lane
    <3>1. CASE d = c
      <4>1. \A m \in LimiterLanes : \A e \in v4'[m] : e.id = id => m = l
        BY <1>3, <1>10, HeldIs
      <4> QED BY <1>3, <1>6, <1>7, <1>11, <1>12, <3>1, <4>1
    <3>2. CASE d # c
      <4>1. v5'[d] = v5[d] /\ v5[d].id # id BY <1>d, <1>11, <3>2
      <4>2. \A m \in LimiterLanes : \A e \in v4'[m] : e.id = v5[d].id => e \in v4[m]
        BY <1>6, <1>8, <1>10, <4>1
      <4> QED BY <1>6, <1>12, <2>2, <4>1, <4>2 DEF LimiterState, CallsInv
    <3> QED BY <3>1, <3>2
  <2>3. ASSUME NEW d \in LimiterCallers, v5'[d].pc = "reserved"
        PROVE  /\ \A s \in v7' : s.id # v5'[d].id
               /\ v5'[d].at <= v1' /\ v1' - v5'[d].at <= LimiterDelay
               /\ \E e \in v3' : e.id = v5'[d].id /\ e.at >= v5'[d].at
    <3>1. CASE d = c BY <1>1, <1>2, <1>3, <1>6, <1>7, <1>11, <3>1
    <3>2. CASE d # c
      <4>1. v5'[d] = v5[d] BY <1>11, <3>2
      <4>2. PICK e \in v3 : e.id = v5[d].id /\ e.at >= v5[d].at
        BY <2>3, <4>1 DEF LimiterState, CallsInv
      <4>3. v1 - v5[d].at <= LimiterDelay BY <2>3, <4>1 DEF LimiterState, CallsInv
      <4>4. e.at \in Nat /\ v5[d].at \in Nat BY <1>2 DEF LimiterEntry, LimiterCall
      <4>5. Recent(e) BY <1>2, <4>2, <4>3, <4>4 DEF Recent
      <4>6. e \in v3' BY <1>1, <1>8, <4>5
      <4> QED BY <1>1, <2>3, <4>1, <4>2, <4>6 DEF LimiterState, CallsInv
    <3> QED BY <3>1, <3>2
  <2>4. ASSUME NEW d \in LimiterCallers, v5'[d].pc = "sent"
        PROVE  /\ v5'[d].real <= v5'[d].w
               /\ \A s \in v7' : s.id = v5'[d].id => s.w = v5'[d].real
    BY <1>1, <1>7, <1>11, <2>4 DEF LimiterState, CallsInv
  <2> QED BY <2>1, <2>2, <2>3, <2>4 DEF CallsInv
<1>18. ServedInv'
  <2>1. ASSUME NEW s \in v7, s.at > v1 - (LimiterWindow - LimiterDelay - LimiterSkew)
        PROVE  \E e \in v3' : e.id = s.id /\ e.w >= s.w /\ e.at >= s.at - LimiterDelay
    <3>1. PICK e \in v3 : e.id = s.id /\ e.w >= s.w /\ e.at >= s.at - LimiterDelay
      BY <2>1 DEF LimiterState, ServedInv
    <3>2. e.at \in Nat /\ s.at \in Nat BY <1>2 DEF LimiterEntry
    <3>3. Recent(e) BY <1>2, <2>1, <3>1, <3>2 DEF Recent
    <3> QED BY <1>1, <1>8, <3>1, <3>3
  <2> QED BY <1>1, <2>1 DEF LimiterState, ServedInv
<1> QED BY <1>13, <1>15, <1>16, <1>17, <1>18 DEF LimiterState

(* A settlement, downward only, does not make a window heavier.              *)
LEMMA ResizedLighter ==
    ASSUME NEW S, Weighed(S), NEW id, NEW w \in Nat, \A e \in S : e.id = id => w <= e.w,
           \A e \in S : e \in LimiterEntry
    PROVE  /\ Limiter!Resized(S, id, w) \subseteq LimiterEntry
           /\ Weighed(Limiter!Resized(S, id, w))
           /\ Limiter!Weight(Limiter!Resized(S, id, w)) <= Limiter!Weight(S)
<1> DEFINE R == [e \in S |-> IF e.id = id THEN [e EXCEPT !.w = w] ELSE e]
           T == {R[e] : e \in S}
           g == [a \in T |-> CHOOSE e \in S : a = R[e]]
<1>1. Limiter!Resized(S, id, w) = T BY DEF Limiter!Resized
<1>2. \A e \in S : R[e] \in LimiterEntry /\ R[e].w <= e.w /\ R[e].w \in Nat BY DEF LimiterEntry
<1>3. IsFiniteSet(T)
  <2>1. IsFiniteSet(S) /\ DOMAIN R = S BY DEF Weighed
  <2> HIDE DEF R
  <2> QED BY <2>1, ImageFinite
<1> HIDE DEF R
<1>4. Weighed(T) /\ T \subseteq LimiterEntry BY <1>2, <1>3 DEF Weighed
<1>5. \A a \in T : g[a] \in S /\ a = R[g[a]] OBVIOUS
<1>6. g \in [T -> S] BY <1>5
<1> HIDE DEF T, g
<1>7. ASSUME NEW b \in S PROVE Limiter!Weight({a \in T : g[a] = b}) <= b.w
  <2> DEFINE G == {a \in T : g[a] = b}
  <2>1. G \subseteq {R[b]} BY <1>5
  <2>2. Weighed({}) /\ Limiter!Weight({}) = 0 BY FS_EmptySet, WeightStep DEF Weighed
  <2>3. {} \cup {R[b]} = {R[b]} /\ R[b].w \in Nat /\ R[b] \notin {} BY <1>2
  <2>4. Weighed({R[b]}) /\ Limiter!Weight({R[b]}) = R[b].w + 0 BY <2>2, <2>3, WeightAdd
  <2>5. Limiter!Weight(G) <= Limiter!Weight({R[b]}) /\ Limiter!Weight(G) \in Nat
    BY <2>1, <2>4, WeightOfPart
  <2>6. R[b].w <= b.w /\ b.w \in Nat BY <1>2 DEF Weighed
  <2> HIDE DEF G
  <2>7. Limiter!Weight(G) <= b.w BY <2>3, <2>4, <2>5, <2>6
  <2> QED BY <2>7 DEF G
<1>8. Limiter!Weight(T) <= Limiter!Weight(S) BY <1>4, <1>6, <1>7, WeightByGroups
<1> QED BY <1>1, <1>4, <1>8

(* The answer of a read settles its reservation: the entry of the call, and  *)
(* no other, gets the weight the exchange has charged.                       *)
LEMMA RespondKeeps ==
    ASSUME LimiterState, NEW c \in LimiterCallers, Limiter!Respond(c) PROVE LimiterState'
<1> USE LimiterBounds
<1>t. LimiterTypes BY DEF LimiterState
<1> DEFINE id == v5[c].id
           r  == v5[c].real
           R(e) == IF e.id = id THEN [e EXCEPT !.w = r] ELSE e
           Of(S) == Limiter!Resized(S, id, r)
<1>1. /\ v3' = Of(v3) /\ v4' = [v4 EXCEPT ![v5[c].lane] = Of(v4[v5[c].lane])]
      /\ v5' = [v5 EXCEPT ![c] = Limiter!NoCall] /\ UNCHANGED <<v1, v2, v6, v7>>
      /\ v5[c].pc = "sent"
  BY DEF Limiter!Respond
<1>2. /\ v1 \in Nat /\ v5 \in [LimiterCallers -> LimiterCall] /\ v3 \in SUBSET LimiterEntry
      /\ v4 \in [LimiterLanes -> SUBSET LimiterEntry] /\ v7 \in SUBSET LimiterEntry
  BY <1>t DEF LimiterTypes
<1>3. id # 0 /\ r \in Nat /\ r <= v5[c].w /\ v5[c].lane \in LimiterLanes
  BY <1>1, <1>2 DEF LimiterState, CallsInv, LimiterCall
<1>4. \A e \in Held : e.id = id => e.w = v5[c].w BY <1>1 DEF LimiterState, CallsInv
<1>5. \A l \in LimiterLanes : \A e \in v4[l] : e.id = id => l = v5[c].lane
  BY <1>1 DEF LimiterState, CallsInv
<1>6. \A s \in v7 : s.id = id => s.w = r BY <1>1 DEF LimiterState, CallsInv
<1>7. \A S : Of(S) = {R(e) : e \in S} BY DEF Limiter!Resized
<1>8. \A e \in LimiterEntry : /\ R(e) \in LimiterEntry /\ R(e).id = e.id /\ R(e).at = e.at
                             /\ R(e).w = IF e.id = id THEN r ELSE e.w
  BY <1>3 DEF LimiterEntry
<1>9. /\ v5' \in [LimiterCallers -> LimiterCall] /\ v5'[c].pc = "idle" /\ v5'[c].id = 0
      /\ \A d \in LimiterCallers \ {c} : v5'[d] = v5[d]
  <2>1. Limiter!NoCall \in LimiterCall BY <1>t, CallsTyped
  <2>2. Limiter!NoCall.pc = "idle" /\ Limiter!NoCall.id = 0 BY DEF Limiter!NoCall
  <2> QED BY <1>1, <1>2, <2>1, <2>2
<1> HIDE DEF R, Of, id, r
<1>10. \A l \in LimiterLanes : v4'[l] = {R(e) : e \in v4[l]}
  <2>1. ASSUME NEW l \in LimiterLanes, l # v5[c].lane PROVE v4'[l] = {R(e) : e \in v4[l]}
    <3>1. v4'[l] = v4[l] BY <1>1, <1>2, <2>1
    <3>2. \A e \in v4[l] : R(e) = e BY <1>5, <2>1 DEF R
    <3> QED BY <3>1, <3>2
  <2>2. v4'[v5[c].lane] = Of(v4[v5[c].lane]) BY <1>1, <1>2, <1>3
  <2> QED BY <1>7, <2>1, <2>2
<1>11. v3' = {R(e) : e \in v3} BY <1>1, <1>7
<1>12. \A e \in Held : e \in LimiterEntry BY <1>2, HeldIs
<1>13. \A x \in Held' : \E e \in Held : x = R(e)
  <2>1. \A x \in Held' : x \in v3' \/ \E m \in LimiterLanes : x \in v4'[m] BY DEF Held
  <2> QED BY <1>10, <1>11, <2>1, HeldIs
<1>14. LimiterTypes'
  <2> DEFINE f == [e \in Held |-> R(e)]
  <2>1. IsFiniteSet({f[e] : e \in Held})
    <3>1. IsFiniteSet(Held) /\ DOMAIN f = Held BY <1>t DEF LimiterTypes
    <3> HIDE DEF f
    <3> QED BY <3>1, ImageFinite
  <2>2. Held' \subseteq {f[e] : e \in Held} BY <1>13
  <2>3. IsFiniteSet(Held') BY <2>1, <2>2, FS_Subset
  <2>4. v3' \subseteq LimiterEntry BY <1>2, <1>8, <1>11
  <2>5. \A l \in LimiterLanes : v4'[l] \in SUBSET LimiterEntry BY <1>2, <1>8, <1>10
  <2>6. DOMAIN v4' = LimiterLanes /\ v4' = [l \in DOMAIN v4' |-> v4'[l]]
    BY <1>1, <1>2
  <2>7. v4' \in [LimiterLanes -> SUBSET LimiterEntry] BY <2>5, <2>6
  <2> QED BY <1>t, <1>1, <1>9, <2>3, <2>4, <2>7 DEF LimiterTypes
<1>15. EntriesInv'
  <2>1. ASSUME NEW x \in Held', NEW y \in Held', x.id = y.id PROVE x = y
    <3>1. PICK e \in Held : x = R(e) BY <1>13
    <3>2. PICK f \in Held : y = R(f) BY <1>13
    <3>3. e.id = f.id BY <1>8, <1>12, <2>1, <3>1, <3>2
    <3> QED BY <3>1, <3>2, <3>3 DEF LimiterState, EntriesInv
  <2>2. ASSUME NEW l \in LimiterLanes, NEW m \in LimiterLanes, NEW x \in v4'[l], x \in v4'[m]
        PROVE  l = m
    <3>1. PICK e \in v4[l] : x = R(e) BY <1>10
    <3>2. PICK f \in v4[m] : x = R(f) BY <1>10, <2>2
    <3>3. e \in Held /\ f \in Held BY HeldIs
    <3>4. e.id = f.id BY <1>8, <1>12, <3>1, <3>2, <3>3
    <3> QED BY <3>3, <3>4 DEF LimiterState, EntriesInv
  <2>3. ASSUME NEW x \in v3', x.at > v1' + LimiterSkew - LimiterWindow
        PROVE  \E l \in LimiterLanes : x \in v4'[l]
    <3>1. PICK e \in v3 : x = R(e) BY <1>11
    <3>2. e.at > v1 + LimiterSkew - LimiterWindow BY <1>1, <1>2, <1>8, <2>3, <3>1
    <3>3. PICK l \in LimiterLanes : e \in v4[l] BY <3>2 DEF LimiterState, EntriesInv
    <3>4. x \in v4'[l] BY <1>10, <3>1, <3>3
    <3> QED BY <3>4
  <2> QED BY <2>1, <2>2, <2>3 DEF EntriesInv
<1>16. CapsInv'
  <2>1. ASSUME NEW S \in SUBSET LimiterEntry, Weighed(S), S \subseteq Held
        PROVE  /\ Limiter!Weight(Of(S)) <= Limiter!Weight(S) /\ Limiter!Weight(S) \in Nat
               /\ Limiter!Weight(Of(S)) \in Nat
    <3>1. \A e \in S : e.id = id => r <= e.w BY <1>3, <1>4, <2>1 DEF id, r
    <3>2. Weighed(Of(S)) /\ Limiter!Weight(Of(S)) <= Limiter!Weight(S)
      BY <1>3, <2>1, <3>1, ResizedLighter DEF Of
    <3> QED BY <2>1, <3>2, WeightRemove
  <2>2. Limiter!Weight(v3') <= Limiter!Weight(v3) /\ Limiter!Weight(v3) \in Nat
        /\ Limiter!Weight(v3') \in Nat
    BY <1>t, <1>1, <1>2, <2>1, WindowsWeighed, HeldIs
  <2>3. Limiter!Weight(v3') <= LimiterTotal - LimiterReserve BY <2>2 DEF LimiterState, CapsInv
  <2>4. ASSUME NEW l \in LimiterLanes PROVE Limiter!Weight(v4'[l]) <= LimiterAllowances[l]
    <3>1. v4'[l] = Of(v4[l]) BY <1>7, <1>10
    <3>2. Limiter!Weight(v4'[l]) <= Limiter!Weight(v4[l]) /\ Limiter!Weight(v4[l]) \in Nat
          /\ Limiter!Weight(v4'[l]) \in Nat
      BY <1>t, <1>2, <2>1, <3>1, WindowsWeighed, HeldIs
    <3>3. LimiterAllowances[l] \in Nat OBVIOUS
    <3> QED BY <3>2, <3>3 DEF LimiterState, CapsInv
  <2>5. CapsInv' = /\ Limiter!Weight(v3') <= LimiterTotal - LimiterReserve
                   /\ \A l \in LimiterLanes : Limiter!Weight(v4'[l]) <= LimiterAllowances[l]
    BY DEF CapsInv
  <2> QED BY <2>3, <2>4, <2>5
<1>17. CallsInv'
  <2>1. \A d, f \in LimiterCallers : v5'[d].id # 0 /\ v5'[d].id = v5'[f].id => d = f
    BY <1>9 DEF LimiterState, CallsInv
  <2>2. ASSUME NEW d \in LimiterCallers, v5'[d].pc \in {"reserved", "sent"}
        PROVE  /\ v5'[d] = v5[d] /\ v5[d].id # 0 /\ v5[d].id # id
    BY <1>3, <1>9, <2>2 DEF LimiterState, CallsInv, id
  <2>3. ASSUME NEW d \in LimiterCallers, v5'[d].pc \in {"reserved", "sent"}
        PROVE  /\ v5'[d].id # 0
               /\ \A x \in Held' : x.id = v5'[d].id => x.w = v5'[d].w
               /\ \A l \in LimiterLanes : \A x \in v4'[l] : x.id = v5'[d].id => l = v5'[d].lane
    <3>1. v5'[d] = v5[d] /\ v5[d].id # 0 /\ v5[d].id # id BY <2>2, <2>3
    <3>2. ASSUME NEW x \in Held', x.id = v5[d].id PROVE x.w = v5[d].w
      <4>1. PICK e \in Held : x = R(e) BY <1>13
      <4>2. e.id = v5[d].id /\ x.w = e.w BY <1>8, <1>12, <3>1, <3>2, <4>1
      <4> QED BY <2>3, <3>1, <4>2 DEF LimiterState, CallsInv
    <3>3. ASSUME NEW l \in LimiterLanes, NEW x \in v4'[l], x.id = v5[d].id PROVE l = v5[d].lane
      <4>1. PICK e \in v4[l] : x = R(e) BY <1>10
      <4>2. e.id = v5[d].id BY <1>2, <1>8, <3>3, <4>1
      <4> QED BY <2>3, <3>1, <4>2 DEF LimiterState, CallsInv
    <3> QED BY <3>1, <3>2, <3>3
  <2>4. ASSUME NEW d \in LimiterCallers, v5'[d].pc = "reserved"
        PROVE  /\ \A s \in v7' : s.id # v5'[d].id
               /\ v5'[d].at <= v1' /\ v1' - v5'[d].at <= LimiterDelay
               /\ \E x \in v3' : x.id = v5'[d].id /\ x.at >= v5'[d].at
    <3>1. v5'[d] = v5[d] BY <2>2, <2>4
    <3>2. PICK e \in v3 : e.id = v5[d].id /\ e.at >= v5[d].at
      BY <2>4, <3>1 DEF LimiterState, CallsInv
    <3>3. R(e) \in v3' /\ R(e).id = v5[d].id /\ R(e).at >= v5[d].at
      BY <1>2, <1>8, <1>11, <3>2
    <3> QED BY <1>1, <2>4, <3>1, <3>3 DEF LimiterState, CallsInv
  <2>5. ASSUME NEW d \in LimiterCallers, v5'[d].pc = "sent"
        PROVE  /\ v5'[d].real <= v5'[d].w
               /\ \A s \in v7' : s.id = v5'[d].id => s.w = v5'[d].real
    BY <1>1, <2>2, <2>5 DEF LimiterState, CallsInv
  <2> QED BY <2>1, <2>3, <2>4, <2>5 DEF CallsInv
<1>18. ServedInv'
  <2>1. ASSUME NEW s \in v7, s.at > v1 - (LimiterWindow - LimiterDelay - LimiterSkew)
        PROVE  \E x \in v3' : x.id = s.id /\ x.w >= s.w /\ x.at >= s.at - LimiterDelay
    <3>1. PICK e \in v3 : e.id = s.id /\ e.w >= s.w /\ e.at >= s.at - LimiterDelay
      BY <2>1 DEF LimiterState, ServedInv
    <3>2. R(e) \in v3' /\ R(e).id = s.id /\ R(e).at >= s.at - LimiterDelay
      BY <1>2, <1>8, <1>11, <3>1
    <3>3. R(e).w >= s.w
      <4>1. R(e).w = IF e.id = id THEN r ELSE e.w BY <1>2, <1>8
      <4>2. e.id = id => s.w = r BY <1>6, <3>1
      <4>3. r >= r BY <1>3
      <4> QED BY <3>1, <4>1, <4>2, <4>3
    <3> QED BY <3>2, <3>3
  <2> QED BY <1>1, <2>1 DEF LimiterState, ServedInv
<1> QED BY <1>14, <1>15, <1>16, <1>17, <1>18 DEF LimiterState

LimiterInv == focus = "limiter" => LimiterState

(* A step of the platform is a step of the component that is followed.       *)
LEMMA LimiterSteps ==
    ASSUME focus = "limiter", [Next]_vars
    PROVE  [Limiter!Next]_(Limiter!vars)
BY DEF Next, vars, WindowNext, RisexNext, ExitNext, SwitchNext, LimiterNext, SignerNext,
       LeverageNext, AdminNext, Limiter!vars

(* What the lanes may use, one entry for each.                               *)
LaneLimits == {[id |-> l, w |-> LimiterAllowances[l]] : l \in LimiterLanes}

(* Budget.validate: the limits of the lanes fit into the total.              *)
LEMMA LimitsFit ==
    /\ Weighed(LaneLimits) /\ Limiter!Weight(LaneLimits) \in Nat
    /\ Limiter!Weight(LaneLimits) <= LimiterTotal - LimiterReserve
<1> DEFINE f == [l \in LimiterLanes |-> [id |-> l, w |-> LimiterAllowances[l]]]
<1>1. LaneLimits = {f[l] : l \in LimiterLanes} BY DEF LaneLimits
<1>2. IsFiniteSet(LaneLimits)
  <2>1. IsFiniteSet(LimiterLanes) /\ DOMAIN f = LimiterLanes BY LimiterBounds
  <2> HIDE DEF f
  <2> QED BY <1>1, <2>1, ImageFinite
<1>3. \A e \in LaneLimits : e.w \in Nat BY LimiterBounds DEF LaneLimits
<1>4. Weighed(LaneLimits) BY <1>2, <1>3 DEF Weighed
<1>5. Limiter!Weight(LaneLimits) \in Nat BY <1>4, WeightRemove
<1>6. Limiter!Weight(LaneLimits) + LimiterReserve <= LimiterTotal
  BY LimiterBounds DEF Limiter!Validated, LaneLimits, LimiterLanes
<1> QED BY <1>4, <1>5, <1>6, LimiterBounds

(* An empty system is within all limits.                                     *)
LEMMA LimiterStarts == ASSUME Limiter!Init PROVE LimiterState
<1> USE LimiterBounds
<1>1. /\ v1 = LimiterWindow /\ v2 \in [LimiterCallers -> 0..LimiterSkew] /\ v3 = {}
      /\ v4 = [l \in LimiterLanes |-> {}] /\ v5 = [c \in LimiterCallers |-> Limiter!NoCall]
      /\ v6 = {} /\ v7 = {}
  BY DEF Limiter!Init, LimiterLanes
<1>2. Held = {} BY <1>1 DEF Held
<1>3. Limiter!NoCall \in LimiterCall /\ Limiter!NoCall.pc = "idle" /\ Limiter!NoCall.id = 0
  BY DEF Limiter!NoCall, LimiterCall
<1>4. IsFiniteSet({}) /\ Limiter!Weight({}) = 0 BY FS_EmptySet, WeightStep
<1>5. LimiterTypes BY <1>1, <1>2, <1>3, <1>4 DEF LimiterTypes
<1>6. EntriesInv BY <1>1, <1>2 DEF EntriesInv
<1>7. CapsInv
  <2>1. 0 <= LimiterTotal - LimiterReserve BY LimitsFit
  <2>2. \A l \in LimiterLanes : v4[l] = {} /\ LimiterAllowances[l] >= 0 BY <1>1
  <2> QED BY <1>1, <1>4, <2>1, <2>2 DEF CapsInv
<1>8. CallsInv BY <1>1, <1>3 DEF CallsInv
<1>9. ServedInv BY <1>1 DEF ServedInv
<1> QED BY <1>5, <1>6, <1>7, <1>8, <1>9 DEF LimiterState

(* Every step keeps the invariant.                                           *)
LEMMA LimiterKept ==
    ASSUME LimiterState, [Limiter!Next]_(Limiter!vars) PROVE LimiterState'
<1>1. ASSUME NEW c \in LimiterCallers, Limiter!TryReserve(c) PROVE LimiterState'
  BY <1>1, ReserveSteps, ReserveKeeps
<1>2. ASSUME NEW c \in LimiterCallers, Limiter!Refused(c) \/ Limiter!Observe(c)
      PROVE  LimiterState'
  BY <1>2, TrimKeeps
<1>3. ASSUME NEW c \in LimiterCallers, Limiter!Send(c) PROVE LimiterState' BY <1>3, SendKeeps
<1>4. ASSUME NEW c \in LimiterCallers, Limiter!Respond(c) PROVE LimiterState'
  BY <1>4, RespondKeeps
<1>5. ASSUME NEW c \in LimiterCallers,
             \/ Limiter!GiveUp(c) \/ Limiter!RespondFixed(c) \/ Limiter!Failed(c)
             \/ Limiter!Throttled(c) \/ Limiter!CooldownEnds(c)
      PROVE  LimiterState'
  BY <1>5, CallSteps, CallEndKeeps DEF LimiterState
<1>6. CASE Limiter!Tick BY <1>6, TickKeeps
<1>7. CASE UNCHANGED Limiter!vars
  <2>1. UNCHANGED <<v1, v2, v3, v4, v5, v6, v7>> BY <1>7 DEF Limiter!vars
  <2>2. Held' = Held BY <2>1 DEF Held
  <2>3. LimiterTypes' /\ EntriesInv' BY <2>1, <2>2 DEF LimiterState, LimiterTypes, EntriesInv
  <2>4. CallsInv' /\ ServedInv' /\ CapsInv'
    BY <2>1, <2>2 DEF LimiterState, CallsInv, ServedInv, CapsInv
  <2> QED BY <2>3, <2>4 DEF LimiterState
<1> QED BY <1>1, <1>2, <1>3, <1>4, <1>5, <1>6, <1>7 DEF Limiter!Next

(* The component's inductive invariant holds while it is followed.           *)
LEMMA LimiterInvariance == Spec => []LimiterInv
<1>1. Init => LimiterInv BY LimiterStarts DEF Init, LimiterInv
<1>2. LimiterInv /\ [Next]_vars => LimiterInv'
  BY FocusKept, LimiterSteps, LimiterKept DEF LimiterInv
<1> QED BY <1>1, <1>2, PTL DEF Spec

(* try_reserve, settle: whatever the replicas' clocks, retries and lost      *)
(* answers, the exchange never charges more than the budget in an interval   *)
(* shorter than the window by the request delay and the clock skew.          *)
THEOREM LimiterWithinBudget == Spec => []ServerWithinBudget
<1>1. ASSUME LimiterState PROVE Limiter!ServerWithinBudget
  <2> DEFINE A == {s \in v7 : s.at > v1 - (LimiterWindow - LimiterDelay - LimiterSkew)}
             Covers(e, s) == e.id = s.id /\ e.w >= s.w
             g == [s \in A |-> CHOOSE e \in v3 : Covers(e, s)]
  <2>t. LimiterTypes BY <1>1 DEF LimiterState
  <2>1. Weighed(v3) /\ Weighed(A) BY <2>t, WindowsWeighed, WeightOfPart
  <2>2. \A s \in A : \E e \in v3 : Covers(e, s) BY <1>1 DEF LimiterState, ServedInv
  <2>3. \A s \in A : g[s] \in v3 /\ Covers(g[s], s) BY <2>2
  <2>4. g \in [A -> v3] BY <2>3
  <2>5. \A s, t \in A : s.id = t.id => s = t BY <1>1 DEF LimiterState, ServedInv
  <2> HIDE DEF A, g
  <2>6. ASSUME NEW b \in v3 PROVE Limiter!Weight({a \in A : g[a] = b}) <= b.w
    <3> DEFINE G == {a \in A : g[a] = b}
    <3>1. Weighed({}) /\ Limiter!Weight({}) = 0 BY FS_EmptySet, WeightStep DEF Weighed
    <3>2. b.w \in Nat BY <2>1 DEF Weighed
    <3>3. CASE G = {} BY <3>1, <3>2, <3>3
    <3>4. ASSUME NEW a \in G PROVE Limiter!Weight(G) <= b.w
      <4>1. G = {} \cup {a} BY <2>3, <2>5, <3>4
      <4>2. a.w \in Nat /\ a.w <= b.w BY <2>1, <2>3, <3>2, <3>4 DEF Weighed
      <4>3. Limiter!Weight({} \cup {a}) = a.w + 0 BY <3>1, <4>2, WeightAdd
      <4> HIDE DEF G
      <4> QED BY <4>1, <4>2, <4>3
    <3> QED BY <3>3, <3>4
  <2>7. Limiter!Weight(A) <= Limiter!Weight(v3) BY <2>1, <2>4, <2>6, WeightByGroups
  <2>8. Limiter!Weight(A) \in Nat /\ Limiter!Weight(v3) \in Nat BY <2>1, WeightRemove
  <2>9. Limiter!Weight(v3) <= LimiterTotal - LimiterReserve BY <1>1 DEF LimiterState, CapsInv
  <2>10. Limiter!Weight(A) <= LimiterTotal - LimiterReserve BY <2>7, <2>8, <2>9, LimiterBounds
  <2> QED BY <2>10 DEF Limiter!ServerWithinBudget, A
<1>2. LimiterInv => ServerWithinBudget BY <1>1 DEF LimiterInv, ServerWithinBudget
<1> QED BY <1>2, LimiterInvariance, PTL

(* Budget.validate, lane caps: a lane within its allowance finds room in the *)
(* global window, however the other lanes are used.                          *)
THEOREM LimiterLanesKept == Spec => []LaneGuaranteed
<1>1. ASSUME LimiterState, NEW c \in LimiterCallers, NEW l \in LimiterLanes,
             NEW w \in LimiterWeights,
             Limiter!Weight(Limiter!Fresh(c, v4[l])) + w <= LimiterAllowances[l]
      PROVE  Limiter!Weight({e \in v3 : e.at > v1 + LimiterSkew - LimiterWindow}) + w
                 <= LimiterTotal - LimiterReserve
  <2> DEFINE G       == {e \in v3 : Recent(e)}
             n       == [id |-> 0, w |-> w, at |-> 0]
             Of(e)   == CHOOSE m \in LimiterLanes : e \in v4[m]
             Limit(m) == [id |-> m, w |-> LimiterAllowances[m]]
             g       == [e \in G \cup {n} |-> Limit(IF e = n THEN l ELSE Of(e))]
  <2> USE LimiterBounds
  <2>t. LimiterTypes BY <1>1 DEF LimiterState
  <2>1. Weighed(G) /\ w \in Nat BY <2>t, WindowsWeighed, WeightOfPart
  <2>2. n \notin G /\ n.w = w BY <2>t DEF LimiterTypes, LimiterEntry
  <2>3. Weighed(G \cup {n}) /\ Limiter!Weight(G \cup {n}) = w + Limiter!Weight(G)
    BY <2>1, <2>2, WeightAdd
  <2>4. \A e \in G : Of(e) \in LimiterLanes /\ e \in v4[Of(e)]
    BY <1>1 DEF LimiterState, EntriesInv, Recent
  <2>5. \A e \in G \cup {n} : \E m \in LimiterLanes : g[e] = Limit(m) BY <2>4
  <2>6. g \in [G \cup {n} -> LaneLimits] BY <2>5 DEF LaneLimits
  <2>7. \A m, k \in LimiterLanes : Limit(m) = Limit(k) => m = k
    <3>1. \A m \in LimiterLanes : Limit(m).id = m OBVIOUS
    <3> HIDE DEF Limit
    <3> QED BY <3>1
  <2>8. \A m \in LimiterLanes : Limit(m).w = LimiterAllowances[m] OBVIOUS
  <2>9. \A e \in G : g[e] = Limit(Of(e)) BY <2>2
  <2>10. g[n] = Limit(l) OBVIOUS
  <2>11. \A b \in LaneLimits : \E m \in LimiterLanes : b = Limit(m) BY DEF LaneLimits
  <2>12. \A e \in v3 : Recent(e) = (e.at > v1 + LimiterSkew - LimiterWindow) BY DEF Recent
  <2>f. \A e \in v4[l] : Recent(e) => e \in Limiter!Fresh(c, v4[l])
    BY <2>t, FreshKeeps DEF LimiterTypes, Recent
  <2>g. Weighed(Limiter!Fresh(c, v4[l]))
    <3>1. v4[l] \in SUBSET LimiterEntry /\ Weighed(v4[l]) BY <2>t, WindowsWeighed DEF LimiterTypes
    <3> QED BY <2>t, <3>1, FreshKeeps, WeightOfPart
  <2>h. \A e \in G : Recent(e) OBVIOUS
  <2> HIDE DEF G, n, Of, Limit, g, Recent
  <2>13. ASSUME NEW m \in LimiterLanes
         PROVE  Limiter!Weight({e \in G \cup {n} : g[e] = Limit(m)}) <= Limit(m).w
    <3> DEFINE K == {e \in G \cup {n} : g[e] = Limit(m)}
    <3>1. \A e \in G : g[e] = Limit(m) => e \in v4[m] BY <2>4, <2>7, <2>9
    <3>2. CASE m = l
      <4>1. \A e \in G : g[e] = Limit(m) => e \in Limiter!Fresh(c, v4[l])
        BY <2>f, <2>h, <3>1, <3>2
      <4>2. K \subseteq Limiter!Fresh(c, v4[l]) \cup {n} BY <4>1
      <4>3. n \notin Limiter!Fresh(c, v4[l])
        BY <2>t DEF Limiter!Fresh, LimiterTypes, LimiterEntry, n
      <4>4. /\ Weighed(Limiter!Fresh(c, v4[l]) \cup {n})
            /\ Limiter!Weight(Limiter!Fresh(c, v4[l]) \cup {n}) =
                  w + Limiter!Weight(Limiter!Fresh(c, v4[l]))
        BY <2>1, <2>2, <2>g, <4>3, WeightAdd
      <4>5. /\ Limiter!Weight(K) <= Limiter!Weight(Limiter!Fresh(c, v4[l]) \cup {n})
            /\ Limiter!Weight(K) \in Nat
        BY <4>2, <4>4, WeightOfPart
      <4>6. Limiter!Weight(Limiter!Fresh(c, v4[l])) \in Nat BY <2>g, WeightRemove
      <4> HIDE DEF K
      <4>7. Limiter!Weight(K) <= LimiterAllowances[l] BY <1>1, <2>1, <4>4, <4>5, <4>6
      <4> QED BY <2>8, <3>2, <4>7 DEF K
    <3>3. CASE m # l
      <4>1. K \subseteq v4[m] BY <2>7, <2>10, <3>1, <3>3
      <4>2. Limiter!Weight(K) <= Limiter!Weight(v4[m]) /\ Limiter!Weight(K) \in Nat
            /\ Limiter!Weight(v4[m]) \in Nat
        BY <2>t, <4>1, WindowsWeighed, WeightOfPart
      <4>3. Limiter!Weight(v4[m]) <= LimiterAllowances[m] BY <1>1 DEF LimiterState, CapsInv
      <4>4. LimiterAllowances[m] \in Nat OBVIOUS
      <4> HIDE DEF K
      <4>5. Limiter!Weight(K) <= LimiterAllowances[m] BY <4>2, <4>3, <4>4
      <4> QED BY <2>8, <4>5 DEF K
    <3> QED BY <3>2, <3>3
  <2>14. \A b \in LaneLimits : Limiter!Weight({e \in G \cup {n} : g[e] = b}) <= b.w
    BY <2>11, <2>13
  <2>15. Limiter!Weight(G \cup {n}) <= Limiter!Weight(LaneLimits)
    BY <2>3, <2>6, <2>14, LimitsFit, WeightByGroups
  <2>16. Limiter!Weight(G) \in Nat BY <2>1, WeightRemove
  <2>17. Limiter!Weight(G) + w <= LimiterTotal - LimiterReserve
    BY <2>1, <2>3, <2>15, <2>16, LimitsFit
  <2>18. G = {e \in v3 : e.at > v1 + LimiterSkew - LimiterWindow} BY <2>12 DEF G
  <2> QED BY <2>17, <2>18
<1>2. LimiterState => Limiter!LaneGuaranteed BY <1>1 DEF Limiter!LaneGuaranteed, LimiterLanes
<1>3. LimiterInv => LaneGuaranteed BY <1>2 DEF LimiterInv, LaneGuaranteed
<1> QED BY <1>3, LimiterInvariance, PTL

(* The limiter's types, and that an entry is the same in all windows.        *)
LEMMA LimiterTyped == LimiterInv => (focus = "limiter" => Limiter!TypeOK)
<1> SUFFICES ASSUME LimiterState PROVE Limiter!TypeOK BY DEF LimiterInv
<1>1. LimiterTypes /\ EntriesInv BY DEF LimiterState
<1>2. v5 \in [LimiterCallers ->
                 [pc : {"idle", "reserved", "sent", "retry"}, lane : DOMAIN LimiterAllowances,
                  w : Nat, id : Nat, at : Nat, real : Nat, att : 0..LimiterAttempts]]
  BY <1>1 DEF LimiterTypes, LimiterCall, LimiterLanes
<1>3. \A e \in v3 : e.w \in Nat /\ e.id # 0 BY <1>1 DEF LimiterTypes, LimiterEntry
<1>4. \A l \in LimiterLanes : \A e \in v4[l] : \A f \in v3 : e.id = f.id => e = f
  BY <1>1, HeldIs DEF EntriesInv
<1> QED BY <1>1, <1>2, <1>3, <1>4 DEF Limiter!TypeOK, LimiterTypes, LimiterLanes

-----------------------------------------------------------------------------
(* Types *)

(* Rows, keys, tasks and windows of all eight protocols keep their types.    *)
THEOREM PlatformTyped == Spec => []PlatformTypeOK
<1>1. WindowInv => (focus = "window" => Gate!TypeOK) BY Gate!InvTypes DEF WindowInv
<1>2. RisexInv => (focus = "risex" => Risex!TypeOK)
  BY RisexBounded, Risex!TypeInvTypes DEF RisexInv
<1>3. ExitInv => (focus = "exit" => Exit!TypeOK) BY ExitBounded, Exit!InvTypes DEF ExitInv
<1>4. SwitchInv => (focus = "switch" => Switch!TypeOK) BY Switch!InvTypes DEF SwitchInv
<1>5. LimiterInv => (focus = "limiter" => Limiter!TypeOK) BY LimiterTyped
<1>6. SignerInv => (focus = "signer" => Signer!TypeOK) BY DEF SignerInv, SignerState
<1>7. LeverageInv => (focus = "leverage" => Leverage!TypeOK)
  BY DEF LeverageInv, Leverage!Inv, Leverage!RowInv, Leverage!TaskInv, Leverage!MarkInv,
     Leverage!TypeOK, Leverage!Rows, Leverage!Keys, Leverage!Tasks
<1>8. AdminInv => (focus = "admin" => Admin!TypeOK) BY Admin!InvTypes DEF AdminInv
<1>9. ASSUME WindowInv, RisexInv, ExitInv, SwitchInv,
             LimiterInv, SignerInv, LeverageInv, AdminInv
      PROVE  PlatformTypeOK
  BY <1>9, <1>1, <1>2, <1>3, <1>4, <1>5, <1>6, <1>7, <1>8 DEF PlatformTypeOK
<1> QED BY <1>9, WindowInvariance, RisexInvariance, ExitInvariance, SwitchInvariance,
           LimiterInvariance, SignerInvariance, LeverageInvariance, AdminInvariance, PTL
=============================================================================
