--------------------------- MODULE SubmissionJournal ---------------------------
(***************************************************************************)
(* What a write-ahead order journal promises: an order is recorded before  *)
(* it may leave, released durably before it leaves, leaves at most once,   *)
(* and is settled only with the result the venue gave it.                  *)
(***************************************************************************)
CONSTANT Orders

VARIABLES
    phase,      \* absent, recorded, released, blocked, settled
    left,       \* the order left for the venue
    result      \* what the venue made of it: none, filled, canceled

vars == <<phase, left, result>>

Init ==
    /\ phase = [o \in Orders |-> "absent"]
    /\ left = [o \in Orders |-> FALSE]
    /\ result = [o \in Orders |-> "none"]

Record(o) ==
    /\ phase[o] = "absent"
    /\ phase' = [phase EXCEPT ![o] = "recorded"]
    /\ UNCHANGED <<left, result>>

Release(o) ==
    /\ phase[o] = "recorded"
    /\ phase' = [phase EXCEPT ![o] = "released"]
    /\ UNCHANGED <<left, result>>

Block(o) ==
    /\ phase[o] = "recorded"
    /\ phase' = [phase EXCEPT ![o] = "blocked"]
    /\ UNCHANGED <<left, result>>

Submit(o) ==
    /\ phase[o] = "released" /\ ~left[o]
    /\ left' = [left EXCEPT ![o] = TRUE]
    /\ UNCHANGED <<phase, result>>

Execute(o, r) ==
    /\ left[o] /\ result[o] = "none"
    /\ result' = [result EXCEPT ![o] = r]
    /\ UNCHANGED <<phase, left>>

Settle(o) ==
    /\ phase[o] = "released" /\ result[o] # "none"
    /\ phase' = [phase EXCEPT ![o] = "settled"]
    /\ UNCHANGED <<left, result>>

Next == \E o \in Orders :
    \/ Record(o) \/ Release(o) \/ Block(o) \/ Submit(o) \/ Settle(o)
    \/ \E r \in {"filled", "canceled"} : Execute(o, r)

Spec == Init /\ [][Next]_vars
=============================================================================
