----------------------------- MODULE MCPostQueue -----------------------------
(* The instance of PostQueue for TLC: a day of two units with one slot, a  *)
(* draft or an intent, a repeated or a captured intent for the same media, *)
(* and then a command or a decision about the posts.                       *)
EXTENDS PostQueue, TLC

CONSTANTS m1, m2, h1, k1, k2, k3

Utc(zone, instant) == 0

EveryTwo(channel) == [zone |-> "utc", start |-> 0, end |-> 2, interval |-> 2]

Intents(m) ==
    {[op |-> "intent", media |-> m, action |-> a, at |-> None] : a \in {"queue", "post_now"}}

Materialized(m) ==
    {[op |-> "materialize", media |-> m, action |-> "queue", at |-> None, channel |-> h1]}

Drafts(m) == {[op |-> "create", media |-> m, action |-> "queue", at |-> None]}

Commands(ps, revs) ==
    {[op |-> "schedule", post |-> p, at |-> t, rev |-> r] : p \in ps, t \in {None, 2}, r \in revs}
    \cup {[op |-> "exact", post |-> p, at |-> 2, rev |-> r] : p \in ps, r \in revs}
    \cup {[op |-> o, post |-> p, rev |-> r] : o \in {"now", "cancel", "update"}, p \in ps, r \in revs}

Decisions(ps) ==
    {[op |-> "decide", post |-> p, decision |-> d, rev |-> 0] :
        p \in ps, d \in PublicationDecisions \cup {"again"}}

CrossingMenu(k) ==
    CASE k = k1 -> Drafts(m1) \cup Intents(m1)
      [] k = k2 -> {[op |-> "intent", media |-> m, action |-> "queue", at |-> None] : m \in Media} \cup Materialized(m1)
      [] k = k3 -> Commands({1, 2}, {0, 1}) \cup Decisions({2})

Symmetric == Permutations(Conns)
=============================================================================
