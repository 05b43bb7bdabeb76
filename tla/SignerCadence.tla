---------------------------- MODULE SignerCadence ----------------------------
(***************************************************************************)
(* Signed Hyperliquid actions of one follower account: _signed_call under  *)
(* the signer's advisory lock, the per-address backoff slot and the        *)
(* sustained one-action-per-slot mode in Redis, with the callers that run  *)
(* a last authorization between the reservation of the slot and the        *)
(* request. Callers are processes; an administrative leverage action       *)
(* renews the slot after its reads, a strategy order does not.             *)
(***************************************************************************)
EXTENDS Integers, FiniteSets

CONSTANTS
    Orders,         \* processes that submit strategy orders
    Admins,         \* processes that submit administrative leverage actions
    Slot,           \* ADDRESS_BACKOFF_SECONDS, in ticks
    Mode,           \* ADDRESS_THROTTLED_MODE_REVALIDATE_SECONDS, in ticks
    MaxActions,     \* bound: requests sent
    MaxReads,       \* bound: ticks the authorization reads of an action may take
    MaxCancels      \* bound: cancelled callers

VARIABLES
    slot, mode,     \* remaining time of the slot key and of the throttled-mode key
    lock,           \* holder of the signer's advisory lock
    act,            \* the call of each process
    gap,            \* history: ticks since the last request, capped at Slot
    floor,          \* history: the gap the last request's own slot demands of the next one
    sent, cancels

vars == <<slot, mode, lock, act, gap, floor, sent, cancels>>

Procs == Orders \cup Admins
Nobody == "nobody"

NoCall == [pc |-> "idle", spent |-> 0, holds |-> 0]

Init ==
    /\ slot = 0 /\ mode = 0 /\ lock = Nobody
    /\ act = [p \in Procs |-> NoCall]
    /\ gap = Slot /\ floor = 0 /\ sent = 0 /\ cancels = 0

Step(p, pc) == act' = [act EXCEPT ![p].pc = pc]

-----------------------------------------------------------------------------
(* The wait before the lock keeps a cooling account out of it. *)
PreWait(p) ==
    /\ act[p].pc = "idle" /\ slot = 0 /\ sent < MaxActions
    /\ Step(p, "wait")
    /\ UNCHANGED <<slot, mode, lock, gap, floor, sent, cancels>>

MayLock(p) == lock = Nobody

(* Advisory lock and one unit of the order lane (module RateLimiter). *)
Lock(p) ==
    /\ act[p].pc = "wait" /\ MayLock(p)
    /\ lock' = p
    /\ Step(p, "account")
    /\ UNCHANGED <<slot, mode, gap, floor, sent, cancels>>

(* No capacity in time: nothing was sent. *)
Exhausted(p) ==
    /\ act[p].pc = "account"
    /\ lock' = Nobody
    /\ act' = [act EXCEPT ![p] = NoCall]
    /\ UNCHANGED <<slot, mode, gap, floor, sent, cancels>>

(* record_action_attempt: the existing slot is waited out; in sustained mode *)
(* the next one is taken with SET NX, else none is needed.                   *)
ReserveSlot(p) ==
    /\ act[p].pc = "account" /\ slot = 0
    /\ slot' = IF mode > 0 THEN Slot ELSE 0
    /\ act' = [act EXCEPT ![p].pc = "authorize",
                          ![p].holds = IF mode > 0 THEN Slot - MaxReads ELSE 0]
    /\ UNCHANGED <<mode, lock, gap, floor, sent, cancels>>

(* Mutant: the administrative action keeps the slot it reserved first. *)
Renewal_None(p) == slot

(* reestablish_submission_slot_before_final_authorization. *)
Renewal(p) == IF mode > 0 /\ p \in Admins THEN Slot ELSE slot

(* The authorization's exchange reads are over: an administrative action     *)
(* renews the slot before its last database check.                           *)
Authorized(p) ==
    /\ act[p].pc = "authorize"
    /\ slot' = Renewal(p)
    /\ act' = [act EXCEPT ![p].pc = "send", ![p].holds = IF mode > 0 /\ p \in Admins THEN Slot ELSE @]
    /\ UNCHANGED <<mode, lock, gap, floor, sent, cancels>>

(* Refused by the authorization, a stale binding or the mainnet writer fence. *)
Refused(p) ==
    /\ act[p].pc \in {"authorize", "send"}
    /\ lock' = Nobody
    /\ act' = [act EXCEPT ![p] = NoCall]
    /\ UNCHANGED <<slot, mode, gap, floor, sent, cancels>>

(* The SDK call, in the same frame as the fence. *)
Send(p) ==
    /\ act[p].pc = "send" /\ sent < MaxActions
    /\ sent' = sent + 1 /\ gap' = 0 /\ floor' = act[p].holds
    /\ Step(p, "reply")
    /\ UNCHANGED <<slot, mode, lock, cancels>>

(* The lock is held until the result is classified; a cancelled caller waits *)
(* for it too.                                                               *)
Reply(p) ==
    /\ act[p].pc \in {"reply", "shielded"}
    /\ lock' = Nobody
    /\ act' = [act EXCEPT ![p] = NoCall]
    /\ UNCHANGED <<slot, mode, gap, floor, sent, cancels>>

(* An explicit rate-limit answer installs a slot while the lock is held.     *)
ReplyThrottled(p) ==
    /\ act[p].pc \in {"reply", "shielded"}
    /\ slot' = Slot
    /\ act' = [act EXCEPT ![p] = [NoCall EXCEPT !.pc = "observe"]]
    /\ lock' = Nobody
    /\ UNCHANGED <<mode, gap, floor, sent, cancels>>

(* userRateLimit is read outside the lock: exhausted turns sustained mode on, *)
(* recovered clears mode and slot.                                            *)
Observe(p) ==
    /\ act[p].pc = "observe"
    /\ \/ /\ mode' \in {Mode, mode}
          /\ act' = [act EXCEPT ![p] = NoCall]
          /\ UNCHANGED <<slot, floor>>
       \/ /\ mode' = 0 /\ slot' = 0 /\ floor' = 0
          /\ act' = [q \in Procs |-> IF q = p THEN NoCall ELSE [act[q] EXCEPT !.holds = 0]]
    /\ UNCHANGED <<lock, gap, sent, cancels>>

(* The caller is cancelled while the request is under way. *)
Cancel(p) ==
    /\ act[p].pc = "reply" /\ cancels < MaxCancels
    /\ Step(p, "shielded")
    /\ cancels' = cancels + 1
    /\ UNCHANGED <<slot, mode, lock, gap, floor, sent>>

Less(n) == IF n = 0 THEN 0 ELSE n - 1

(* Time passes. Renewal, database check and SDK call take less than a tick;  *)
(* the reads of an authorization take up to MaxReads.                        *)
Tick ==
    /\ \A p \in Procs : act[p].pc # "send"
    /\ \A p \in Procs : act[p].pc = "authorize" => act[p].spent < MaxReads
    /\ slot' = Less(slot) /\ mode' = Less(mode)
    /\ gap' = IF gap < Slot THEN gap + 1 ELSE gap
    /\ act' = [p \in Procs |-> IF act[p].pc = "authorize" THEN [act[p] EXCEPT !.spent = @ + 1]
                               ELSE act[p]]
    /\ UNCHANGED <<lock, floor, sent, cancels>>

Next ==
    \/ \E p \in Procs : \/ PreWait(p) \/ Lock(p) \/ Exhausted(p) \/ ReserveSlot(p)
                        \/ Authorized(p) \/ Refused(p) \/ Send(p) \/ Reply(p)
                        \/ ReplyThrottled(p) \/ Observe(p) \/ Cancel(p)
    \/ Tick

Spec == Init /\ [][Next]_vars

-----------------------------------------------------------------------------
(* Properties *)

(* Types of the keys, the lock and the calls. *)
TypeOK ==
    /\ slot \in 0..Slot /\ mode \in 0..Mode /\ gap \in 0..Slot
    /\ lock \in Procs \cup {Nobody} /\ floor \in 0..Slot
    /\ act \in [Procs -> [pc : {"idle", "wait", "account", "authorize", "send", "reply",
                                "shielded", "observe"}, spent : 0..MaxReads, holds : 0..Slot]]

(* What holds the cadence: the lock has one holder from its account step to  *)
(* the classified answer, the reservation of the caller under way covers     *)
(* what its request will demand, and the running slot covers what the last   *)
(* request still demands.                                                    *)
Holding == {"account", "authorize", "send", "reply", "shielded"}

LockHeld == \A p \in Procs : act[p].pc \in Holding <=> lock = p

Reserved ==
    \A p \in Procs :
        /\ act[p].pc \notin {"authorize", "send", "reply", "shielded"} => act[p].spent = 0
        /\ act[p].pc = "authorize" =>
              act[p].holds = 0 \/ slot + act[p].spent >= act[p].holds + MaxReads
        /\ act[p].pc = "send" => slot >= act[p].holds
        /\ act[p].pc \in {"authorize", "send"} => gap >= floor

Covered == slot + gap >= floor

(* A signed action of an API wallet is sent alone, also when the caller of   *)
(* another was cancelled half-way, so nonces are never taken concurrently;   *)
(* and a request sent in sustained mode is followed by the next one only     *)
(* when its slot is over, whichever process sends it: a full slot after an   *)
(* administrative action, which renewed it, a slot less the time spent in    *)
(* the authorization's reads after a strategy order, unless the exchange     *)
(* reported recovery in between.                                             *)
SentInTime ==
    \A p \in Procs : act[p].pc = "send" /\ act'[p].pc = "reply" =>
        /\ gap >= floor
        /\ \A q \in Procs \ {p} : act[q].pc \notin {"authorize", "send", "reply", "shielded"}

CadenceKept == [][SentInTime]_vars
=============================================================================
