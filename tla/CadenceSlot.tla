----------------------------- MODULE CadenceSlot -----------------------------
(***************************************************************************)
(* next_free_slot (crates/persistence/src/publisher.rs): walk the cadence  *)
(* grid of a channel from the requested instant past the slots that queued *)
(* and sending posts hold.  One behaviour is one call.                     *)
(***************************************************************************)
EXTENDS CadenceGrid

CONSTANTS
    Channels,    \* the channels and
    Requests,    \* the instants that a behaviour may start from
    Horizon,     \* instants that may hold a slot
    MaxTaken,    \* how many slots other posts may hold
    MaxTries     \* candidates that next_free_slot tries

SlotAssumption ==
    /\ \A c \in Channels : ValidChannel(c)
    /\ MaxTries \in Nat \ {0}

VARIABLES
    channel, requested, occupied,   \* the arguments
    candidate, tries, result

vars == <<channel, requested, occupied, candidate, tries, result>>

(* Slots that earlier calls may have given away *)
Slots(c) == {u \in Horizon : OnGrid(c, u)}

Init ==
    /\ channel \in Channels
    /\ requested \in Requests
    /\ occupied \in UNION {kSubset(k, Slots(channel)) : k \in 0 .. MaxTaken}
    /\ candidate = NextAllowedSlot(channel, requested)
    /\ tries = 0
    /\ result = "searching"

(* The candidate is free *)
Take ==
    /\ result = "searching"
    /\ tries < MaxTries
    /\ candidate # None
    /\ candidate \notin occupied
    /\ result' = "found"
    /\ UNCHANGED <<channel, requested, occupied, candidate, tries>>

(* ... or another post has it *)
Skip ==
    /\ result = "searching"
    /\ tries < MaxTries
    /\ candidate # None
    /\ candidate \in occupied
    /\ candidate' = NextAllowedSlot(channel, candidate + 1)
    /\ tries' = tries + 1
    /\ UNCHANGED <<channel, requested, occupied, result>>

(* Faulty variant of Exhausted: the last try is given up. *)
ExhaustedEarly ==
    /\ result = "searching"
    /\ tries = MaxTries - 1 \/ candidate = None
    /\ result' = "exhausted"
    /\ UNCHANGED <<channel, requested, occupied, candidate, tries>>

(* CadenceSearchExhausted *)
Exhausted ==
    /\ result = "searching"
    /\ tries = MaxTries \/ candidate = None
    /\ result' = "exhausted"
    /\ UNCHANGED <<channel, requested, occupied, candidate, tries>>

Next == Take \/ Skip \/ Exhausted

Spec == Init /\ [][Next]_vars

(* The slot found is the earliest instant, at or after the request, whose  *)
(* wall clock is on the grid and that no other post holds: every earlier   *)
(* one is taken, on both sides of a fold and across a gap.                 *)
EarliestFreeSlot ==
    result = "found" =>
        /\ candidate >= requested
        /\ OnGrid(channel, candidate)
        /\ candidate \notin occupied
        /\ \A u \in requested .. candidate - 1 : OnGrid(channel, u) => u \in occupied

(* The search fails only after as many occupied slots as it has tries, or  *)
(* on a channel whose grid is empty for all the days it looks at.          *)
ExhaustedOnlyWhenFull ==
    result = "exhausted" =>
        \/ Cardinality({u \in occupied : u >= requested}) >= MaxTries
        \/ \A u \in requested .. requested + (MaxDays - 2) * DayLength :
              OnGrid(channel, u) => u \in occupied
=============================================================================
