----------------------------- MODULE CadenceGrid -----------------------------
(***************************************************************************)
(* The cadence grid of a channel (next_allowed_slot of                     *)
(* crates/persistence/src/publisher.rs).  Instants are UTC minutes; a zone *)
(* gives the offset that local clocks show at an instant, so that a local  *)
(* time may name no instant (a spring gap), one, or two (a fall fold).     *)
(***************************************************************************)
EXTENDS Integers, FiniteSets, FiniteSetsExt

CONSTANTS
    DayLength,     \* minutes of a local day
    Offsets,       \* offsets that the zones use
    Offset(_, _),  \* the offset of a zone at an instant
    MaxDays,       \* days that next_allowed_slot searches
    None

ASSUME GridAssumption ==
    /\ DayLength \in Nat \ {0}
    /\ MaxDays \in Nat \ {0}
    /\ None \notin Int

(* A channel: [zone, start, end, interval], as NewChannel::validate demands *)
ValidChannel(channel) ==
    /\ channel.start < channel.end
    /\ channel.interval > 0

Local(zone, instant) == instant + Offset(zone, instant)

(* from_local_datetime: None, Single or Ambiguous *)
FromLocal(zone, local) == {local - o : o \in {o \in Offsets : Offset(zone, local - o) = o}}

(* The local grid of a day *)
Grid(channel, day) ==
    {day * DayLength + t : t \in {t \in channel.start .. channel.end - 1 :
                                     (t - channel.start) % channel.interval = 0}}

DaySlots(channel, day) ==
    UNION {FromLocal(channel.zone, local) : local \in Grid(channel, day)}

(* Faulty variant of EarliestOf: the first local time that has an instant  *)
(* late enough, as if local order were the order of instants.              *)
EarliestOfLocal(channel, day, candidate) ==
    LET late == {local \in Grid(channel, day) :
                    \E u \in FromLocal(channel.zone, local) : u >= candidate}
    IN IF late = {} THEN None
       ELSE Min({u \in FromLocal(channel.zone, Min(late)) : u >= candidate})

(* earliest_utc of a local day *)
EarliestOf(channel, day, candidate) ==
    LET late == {u \in DaySlots(channel, day) : u >= candidate}
    IN IF late = {} THEN None ELSE Min(late)

(* next_allowed_slot; None is CadenceSearchExhausted *)
NextAllowedSlot(channel, requested) ==
    LET today == Local(channel.zone, requested) \div DayLength
        found == [d \in today .. today + MaxDays - 1 |-> EarliestOf(channel, d, requested)]
        days == {d \in DOMAIN found : found[d] # None}
    IN IF days = {} THEN None ELSE found[Min(days)]

(* Reference: the clock on the wall shows a time of the grid *)
OnGrid(channel, instant) ==
    LET shown == Local(channel.zone, instant) % DayLength
    IN /\ shown \in channel.start .. channel.end - 1
       /\ (shown - channel.start) % channel.interval = 0
=============================================================================
