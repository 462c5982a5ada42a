------------------------- MODULE ChannelConfiguration -------------------------
(***************************************************************************)
(* The publication channels as the settings page changes them              *)
(* (crates/api/src/publisher.rs, crates/persistence/src/publisher.rs).     *)
(* Every change is a transaction that first takes one advisory lock, then  *)
(* the row, then looks at the other channels and writes.  Requests that    *)
(* need a channel take a share lock on the row they choose; that part is   *)
(* the variable shares, which the module of those requests changes.        *)
(*                                                                         *)
(* The columns of a channel other than is_enabled are its version: every   *)
(* write sets updated_at, which is what an update must have seen.          *)
(***************************************************************************)
EXTENDS Naturals, FiniteSets

CONSTANTS
    Channels,
    Admins,       \* settings pages and API clients
    None,
    MaxVersion    \* writes of one channel

ChannelAssumption == None \notin Channels \cup Admins /\ MaxVersion \in Nat

VARIABLES
    channel,   \* the rows: state ("absent" before creation) and version
    admin,     \* what each administrator is doing
    lock,      \* holder of CHANNEL_CONFIGURATION_ADVISORY_LOCK
    shares     \* <<transaction, channel>>: rows read FOR SHARE

chanvars == <<channel, admin, lock, shares>>

IdleAdmin == [pc |-> "idle", on |-> None, seen |-> 0, enable |-> "keep"]

ChannelInit ==
    /\ channel \in [Channels -> [state : {"absent", "enabled"}, ver : {0}]]
    /\ Cardinality({c \in Channels : channel[c].state = "enabled"}) <= 1
    /\ admin = [p \in Admins |-> IdleAdmin]
    /\ lock = None
    /\ shares = {}

Enabled(c) == channel[c].state = "enabled"
RowLocked(c) == \E p \in Admins : admin[p].on = c /\ admin[p].pc \in {"check", "write"}

LockChannelConfiguration(p) == lock = None /\ lock' = p

\* The transaction ends, and the administrator has their answer.
EndTransaction(p) ==
    /\ lock' = IF lock = p THEN None ELSE lock
    /\ admin' = [admin EXCEPT ![p] = IdleAdmin]

\* The settings page shows a channel.
GetChannel(p, c) ==
    /\ admin[p].pc = "idle" /\ channel[c].state # "absent"
    /\ admin' = [admin EXCEPT ![p] = [IdleAdmin EXCEPT !.pc = "shown", !.on = c, !.seen = channel[c].ver]]
    /\ UNCHANGED <<channel, lock, shares>>

UpdateChannel(p, enable) ==
    /\ admin[p].pc = "shown" /\ admin[p].seen < MaxVersion
    /\ LockChannelConfiguration(p)
    /\ admin' = [admin EXCEPT ![p].pc = "read", ![p].enable = enable]
    /\ UNCHANGED <<channel, shares>>

SeesCurrent(p) == admin[p].seen = channel[admin[p].on].ver

\* SELECT ... FOR UPDATE waits for the requests that read the row FOR SHARE.
ReadChannelForUpdate(p) ==
    /\ admin[p].pc = "read"
    /\ \A s \in shares : s[2] # admin[p].on
    /\ ~RowLocked(admin[p].on)
    /\ IF SeesCurrent(p)
       THEN admin' = [admin EXCEPT ![p].pc = "check"] /\ UNCHANGED lock
       ELSE EndTransaction(p)
    /\ UNCHANGED <<channel, shares>>

WillBeEnabled(p) ==
    \/ admin[p].enable = "on"
    \/ admin[p].enable = "keep" /\ Enabled(admin[p].on)

OtherEnabled(c) == \E o \in Channels \ {c} : Enabled(o)

CheckOtherChannels(p) ==
    /\ admin[p].pc = "check"
    /\ IF WillBeEnabled(p) /\ OtherEnabled(admin[p].on)
       THEN EndTransaction(p)
       ELSE admin' = [admin EXCEPT ![p].pc = "write"] /\ UNCHANGED lock
    /\ UNCHANGED <<channel, shares>>

\* The UPDATE and its commit.
WriteChannel(p) ==
    /\ admin[p].pc = "write"
    /\ channel' = [channel EXCEPT ![admin[p].on] =
                     [state |-> IF WillBeEnabled(p) THEN "enabled" ELSE "disabled", ver |-> @.ver + 1]]
    /\ EndTransaction(p)
    /\ UNCHANGED shares

CreateChannel(p, c) ==
    /\ admin[p].pc = "idle" /\ channel[c].state = "absent"
    /\ \A q \in Admins : admin[q].pc \in {"create", "insert"} => admin[q].on # c
    /\ LockChannelConfiguration(p)
    /\ admin' = [admin EXCEPT ![p].pc = "create", ![p].on = c]
    /\ UNCHANGED <<channel, shares>>

CreateChannelUnambiguous(p) ==
    /\ admin[p].pc = "create"
    /\ IF OtherEnabled(admin[p].on)
       THEN EndTransaction(p)
       ELSE admin' = [admin EXCEPT ![p].pc = "insert"] /\ UNCHANGED lock
    /\ UNCHANGED <<channel, shares>>

\* The INSERT (is_enabled defaults to true) and its commit.
InsertChannel(p) ==
    /\ admin[p].pc = "insert"
    /\ channel' = [channel EXCEPT ![admin[p].on].state = "enabled"]
    /\ EndTransaction(p)
    /\ UNCHANGED shares

ChannelStep(p) ==
    \/ \E c \in Channels : GetChannel(p, c) \/ CreateChannel(p, c)
    \/ \E enable \in {"keep", "on", "off"} : UpdateChannel(p, enable)
    \/ ReadChannelForUpdate(p) \/ CheckOtherChannels(p) \/ WriteChannel(p)
    \/ CreateChannelUnambiguous(p) \/ InsertChannel(p)

-----------------------------------------------------------------------------

=============================================================================
