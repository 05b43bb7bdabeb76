----------------------------- MODULE RateLimiter -----------------------------
(***************************************************************************)
(* The weighted sliding-window limiter that all replicas share through     *)
(* Redis, and the reads and actions of the Hyperliquid adapter that use    *)
(* it. A call reserves its worst-case weight in the global window and in   *)
(* the window of its lane, is sent at most Delay ticks later, is retried   *)
(* when it times out, and settles the reservation down once the response   *)
(* tells its real weight.                                                  *)
(*                                                                         *)
(* Every replica stamps and trims the windows with its own clock, ahead of *)
(* the true time by up to MaxSkew ticks.                                   *)
(***************************************************************************)
EXTENDS Integers, FiniteSets, FiniteSetsExt

CONSTANTS
    Lanes,          \* Priority
    Allowance,      \* Budget.allowance of each lane
    Total, Reserve, \* total_per_minute, reserve
    Weights,        \* worst-case weights of calls
    Callers,        \* replicas, one call each at a time
    Window,         \* WINDOW_SECONDS, in ticks
    Delay,          \* bound: ticks from a reservation to its request
    MaxSkew,        \* bound: how far a replica's clock is ahead
    MaxTime,        \* bound: ticks
    Attempts        \* HL_SAFE_READ_RETRIES

VARIABLES
    now, skew,
    glob,           \* the global sorted set: entries with identity, weight, score
    lane,           \* the sorted set of each lane
    call,           \* the call of each replica
    cooldown,       \* replicas whose low-priority reads are cooling down
    served          \* history: weight the exchange charged, by true time

vars == <<now, skew, glob, lane, call, cooldown, served>>

NoCall == [pc |-> "idle", lane |-> "ORDER", w |-> 0, id |-> 0, at |-> 0, real |-> 0, att |-> 0]

Init ==
    /\ now = Window /\ skew \in [Callers -> 0..MaxSkew]
    /\ glob = {} /\ lane = [l \in Lanes |-> {}]
    /\ call = [c \in Callers |-> NoCall] /\ cooldown = {}
    /\ served = {}

Weight(entries)  == FoldSet(LAMBDA e, sum : e.w + sum, 0, entries)
Clock(c)         == now + skew[c]
Fresh(c, entries) == {e \in entries : e.at > Clock(c) - Window}

(* Budget.validate: what the lanes may use and the reserve fit into the total. *)
Validated == Weight({[id |-> l, w |-> Allowance[l]] : l \in Lanes}) + Reserve <= Total

(* What the parameters are; a request leaves well before its entry expires.  *)
Sizes ==
    /\ IsFiniteSet(Lanes) /\ "ORDER" \in Lanes /\ Allowance \in [Lanes -> Nat]
    /\ Total \in Nat /\ Reserve \in Nat /\ Validated
    /\ Weights \subseteq Nat \ {0} /\ IsFiniteSet(Callers) /\ Attempts \in Nat \ {0}
    /\ Window \in Nat /\ Delay \in Nat /\ MaxSkew \in Nat /\ Delay + MaxSkew < Window

(* A reservation's uuid: an identity not in use. *)
Used  == {e.id : e \in glob \cup served \cup UNION {lane[l] : l \in Lanes}}
            \cup {call[c].id : c \in Callers}
NewId == Min((1..(Cardinality(Used) + 1)) \ Used)

-----------------------------------------------------------------------------
(* Mutant: a lane may use all that is free globally. *)
Admits_Shared(c, l, w) == Weight(Fresh(c, glob)) + w <= Total - Reserve

(* Global and lane capacity after trimming. *)
Admits(c, l, w) ==
    /\ Weight(Fresh(c, glob)) + w <= Total - Reserve
    /\ Weight(Fresh(c, lane[l])) + w <= Allowance[l]

(* A retry asks for the same once more; a cooling replica only for orders. *)
Asks(c, l, w) ==
    /\ call[c].pc \in {"idle", "retry"}
    /\ call[c].pc = "retry" => l = call[c].lane /\ w = call[c].w
    /\ c \in cooldown => l = "ORDER"

(* reserve: one evaluation of the script that finds room. *)
TryReserve(c) ==
    /\ \E l \in Lanes, w \in Weights :
          /\ Asks(c, l, w) /\ Admits(c, l, w)
          /\ LET e == [id |-> NewId, w |-> w, at |-> Clock(c)]
             IN /\ glob' = Fresh(c, glob) \cup {e}
                /\ lane' = [lane EXCEPT ![l] = Fresh(c, @) \cup {e}]
          /\ call' = [call EXCEPT ![c] = [NoCall EXCEPT !.pc = "reserved", !.lane = l, !.w = w,
                                             !.id = NewId, !.at = now, !.att = call[c].att]]
    /\ UNCHANGED <<now, skew, cooldown, served>>

(* One that does not, before the next poll; it has trimmed both windows. *)
Refused(c) ==
    /\ \E l \in Lanes, w \in Weights :
          /\ Asks(c, l, w) /\ ~Admits(c, l, w)
          /\ lane' = [lane EXCEPT ![l] = Fresh(c, @)]
    /\ glob' = Fresh(c, glob)
    /\ UNCHANGED <<now, skew, call, cooldown, served>>

(* used, in the snapshots of the control room: trims one window at a time. *)
Observe(c) ==
    /\ \/ glob' = Fresh(c, glob) /\ UNCHANGED lane
       \/ \E l \in Lanes : lane' = [lane EXCEPT ![l] = Fresh(c, @)] /\ UNCHANGED glob
    /\ UNCHANGED <<now, skew, call, cooldown, served>>

(* RateLimitExhausted after the caller's timeout, or the cooldown. *)
GiveUp(c) ==
    /\ call[c].pc = "retry"
    /\ call' = [call EXCEPT ![c] = NoCall]
    /\ UNCHANGED <<now, skew, glob, lane, cooldown, served>>

(* The exchange charges what the response weighs, at most the worst case. *)
Send(c) ==
    /\ call[c].pc = "reserved"
    /\ \E real \in 1..call[c].w :
          /\ served' = served \cup {[id |-> call[c].id, w |-> real, at |-> now]}
          /\ call' = [call EXCEPT ![c].pc = "sent", ![c].real = real]
    /\ UNCHANGED <<now, skew, glob, lane, cooldown>>

Resized(entries, id, w) == {IF e.id = id THEN [e EXCEPT !.w = w] ELSE e : e \in entries}

(* The response arrives: settle, keeping the score. A window that has lost   *)
(* the entry does not get it back.                                           *)
Respond(c) ==
    /\ call[c].pc = "sent"
    /\ glob' = Resized(glob, call[c].id, call[c].real)
    /\ lane' = [lane EXCEPT ![call[c].lane] = Resized(@, call[c].id, call[c].real)]
    /\ call' = [call EXCEPT ![c] = NoCall]
    /\ UNCHANGED <<now, skew, cooldown, served>>

(* Actions and fixed-weight calls are not settled. *)
RespondFixed(c) ==
    /\ call[c].pc = "sent"
    /\ call' = [call EXCEPT ![c] = NoCall]
    /\ UNCHANGED <<now, skew, glob, lane, cooldown, served>>

(* Mutant: a failed read gives its reservation back. *)
Failed_Refunded(c) ==
    /\ call[c].pc = "sent"
    /\ glob' = {e \in glob : e.id # call[c].id}
    /\ lane' = [lane EXCEPT ![call[c].lane] = {e \in @ : e.id # call[c].id}]
    /\ call' = [call EXCEPT ![c] = IF call[c].att + 1 < Attempts
                                   THEN [@ EXCEPT !.pc = "retry", !.att = call[c].att + 1] ELSE NoCall]
    /\ UNCHANGED <<now, skew, cooldown, served>>

(* Timeout or transient error: the reservation stays, a retry reserves anew. *)
Failed(c) ==
    /\ call[c].pc = "sent"
    /\ call' = [call EXCEPT ![c] = IF call[c].att + 1 < Attempts
                                   THEN [@ EXCEPT !.pc = "retry", !.att = call[c].att + 1] ELSE NoCall]
    /\ UNCHANGED <<now, skew, glob, lane, cooldown, served>>

(* 429 on a low-priority lane. *)
Throttled(c) ==
    /\ call[c].pc = "sent" /\ call[c].lane # "ORDER"
    /\ cooldown' = cooldown \cup {c}
    /\ call' = [call EXCEPT ![c] = NoCall]
    /\ UNCHANGED <<now, skew, glob, lane, served>>

CooldownEnds(c) ==
    /\ c \in cooldown /\ cooldown' = cooldown \ {c}
    /\ UNCHANGED <<now, skew, glob, lane, call, served>>

(* Time; a reserved call is sent before Delay ticks have passed. *)
Tick ==
    /\ now < Window + MaxTime
    /\ \A c \in Callers : call[c].pc = "reserved" => now - call[c].at < Delay
    /\ now' = now + 1
    /\ served' = {s \in served : s.at > now' - Window}
    /\ UNCHANGED <<skew, glob, lane, call, cooldown>>

Next ==
    \/ \E c \in Callers : \/ TryReserve(c) \/ Refused(c) \/ Observe(c) \/ GiveUp(c)
                          \/ Send(c) \/ Respond(c) \/ RespondFixed(c)
                          \/ Failed(c) \/ Throttled(c) \/ CooldownEnds(c)
    \/ Tick

Spec == Init /\ [][Next]_vars

-----------------------------------------------------------------------------
(* Properties *)

(* Types of the windows, the calls and the clock. *)
TypeOK ==
    /\ now \in Nat /\ cooldown \subseteq Callers
    /\ call \in [Callers -> [pc : {"idle", "reserved", "sent", "retry"}, lane : Lanes, w : Nat,
                             id : Nat, at : Nat, real : Nat, att : 0..Attempts]]
    /\ \A e \in glob : e.w \in Nat /\ e.id # 0
    /\ \A l \in Lanes : \A e \in lane[l] : \A f \in glob : e.id = f.id => e = f

(* The exchange never charges more than the budget: in every interval        *)
(* shorter than the window by the request delay and the clock skew, the      *)
(* weight of all requests of all replicas, failed and retried ones included, *)
(* stays within the total less the reserve.                                  *)
ServerWithinBudget ==
    Weight({s \in served : s.at > now - (Window - Delay - MaxSkew)}) <= Total - Reserve

(* A lane is never starved by the others: as long as it is within its own    *)
(* allowance the global window has room for it (validate on the budget, lane *)
(* caps, settlements in both windows), not counting entries that are over by *)
(* the clock of another replica, which may have trimmed the lane alone.      *)
LaneGuaranteed ==
    \A c \in Callers, l \in Lanes, w \in Weights :
        Weight(Fresh(c, lane[l])) + w <= Allowance[l] =>
            Weight({e \in glob : e.at > now + MaxSkew - Window}) + w <= Total - Reserve
=============================================================================
