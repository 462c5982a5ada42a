------------------------- MODULE PublicationOutcome -------------------------
(***************************************************************************)
(* What publication promises about one post, without jobs, leases, workers *)
(* or revisions: the post is open to editing, or one send of it is under   *)
(* way, or its outcome is settled for good; the channel receives at most   *)
(* one message, showing the caption as it was when the send began; and a   *)
(* send is given up as harmless only if it has had, and will have, no      *)
(* effect.                                                                 *)
(***************************************************************************)
EXTENDS Integers

VARIABLES
    outcome,   \* "open", "sending", "published", "unknown" or "cancelled"
    caption,   \* the caption the record holds
    chat       \* the messages in the target channel, records with a caption

vars == <<outcome, caption, chat>>

Init ==
    /\ outcome = "open"
    /\ caption = 0
    /\ chat = {}

(* Creating, editing, scheduling, and failing without effect. *)
Edit ==
    /\ outcome = "open"
    /\ caption' \in Nat
    /\ UNCHANGED <<outcome, chat>>

Withdraw ==
    /\ outcome = "open"
    /\ outcome' = "cancelled"
    /\ UNCHANGED <<caption, chat>>

Begin ==
    /\ outcome = "open"
    /\ outcome' = "sending"
    /\ UNCHANGED <<caption, chat>>

(* The message may appear after the program has given the send up as       *)
(* unknown, never after it has given it up as harmless.                    *)
Appear ==
    /\ outcome \in {"sending", "unknown"}
    /\ chat = {}
    /\ \E m \in chat' : chat' = {m} /\ m.caption = caption
    /\ UNCHANGED <<outcome, caption>>

Confirm ==
    /\ outcome = "sending"
    /\ chat # {}
    /\ outcome' = "published"
    /\ UNCHANGED <<caption, chat>>

Lose ==
    /\ outcome = "sending"
    /\ outcome' = "unknown"
    /\ UNCHANGED <<caption, chat>>

GiveUp ==
    /\ outcome = "sending"
    /\ chat = {}
    /\ outcome' = "open"
    /\ UNCHANGED <<caption, chat>>

Resolve == Confirm \/ Lose \/ GiveUp

Next == Edit \/ Withdraw \/ Begin \/ Appear \/ Resolve

Spec == Init /\ [][Next]_vars

(* A send that is under way is resolved. *)
FairSpec == Spec /\ WF_vars(Resolve)
=============================================================================
