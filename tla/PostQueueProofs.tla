-------------------------- MODULE PostQueueProofs --------------------------
(***************************************************************************)
(* Proofs about PostQueue for any posts, media, channels, requests and     *)
(* connections.                                                            *)
(***************************************************************************)
EXTENDS PostQueue, FiniteSetTheorems, WellFoundedInduction, TLAPS

(* The requests that make a post *)
Making == {"intent", "materialize", "create"}

(* The posts have been created one after the other, and a command is sent  *)
(* for one that is there.                                                  *)
PresentInv ==
    /\ \E n \in 0 .. Cardinality(Posts) : Present = 1 .. n
    /\ \A k \in Keys : sent[k] # None /\ sent[k].op \notin Making => sent[k].post \in Present

(* A request can have no further effect: its post is there, or the post it *)
(* was written for has moved on.                                           *)
Spent(k) ==
    /\ sent[k] # None
    /\ IF sent[k].op \in Making THEN Created(k) # {}
       ELSE post[sent[k].post].rev > sent[k].rev

AppliedInv == \A k \in Keys : applied[k] = 0 \/ (applied[k] = 1 /\ Spent(k))

(* A connection serves an intent that has no post yet, and no other        *)
(* connection serves the same.                                             *)
ConnInv ==
    /\ \A c \in Conns : ~At(c, "idle") =>
          /\ conn[c].key \in Keys
          /\ sent[conn[c].key] # None
          /\ sent[conn[c].key].op \in {"intent", "materialize"}
          /\ Created(conn[c].key) = {}
          /\ At(c, "channel") /\ sent[conn[c].key].op = "intent" => conn[c].channel \in Channels
    /\ \A c, d \in Conns :
          c # d /\ ~At(c, "idle") /\ ~At(d, "idle") => conn[c].key # conn[d].key

PostQueueInv ==
    TypeOK /\ PresentInv /\ AppliedInv /\ ConnInv /\ SlotsDisjoint /\ NoSilentRepeat

-----------------------------------------------------------------------------
(* Facts about the operators *)

(* Min of natural numbers is one of them. *)
LEMMA MinIsMember ==
    ASSUME NEW S \in SUBSET Nat, S # {}
    PROVE  Min(S) \in S
  <1>1. PICK x \in S : \A y \in S : ~(<<y, x>> \in OpToRel(<, Nat))
    BY Zenon, NatLessThanWellFounded, WFMin
  <1>2. ASSUME NEW y \in S PROVE x <= y
    <2>1. x \in Nat /\ y \in Nat /\ ~(<<y, x>> \in {ss \in Nat \X Nat : ss[1] < ss[2]})
      BY Zenon, <1>1 DEF OpToRel
    <2> QED
      BY <2>1
  <1> QED
    BY Zenon, <1>2 DEF Min

(* next_free_slot finds a slot that no other post of the channel holds, or *)
(* none at all.                                                            *)
LEMMA FreeSlot ==
    ASSUME TypeOK, NEW channel, NEW p, NEW requested \in Int
    PROVE  LET slot == NextFreeSlot(channel, p, requested)
           IN  slot \in Times /\ (slot # None => slot \in Int /\ slot \notin Occupied(channel, p))
  <1> DEFINE from == IF requested > now THEN requested ELSE now
             free == {u \in from .. from + (Cardinality(Posts) + 1) * DayLength :
                         OnGrid(Cadence(channel), u)} \ Occupied(channel, p)
  <1>1. from \in Nat
    BY DEF TypeOK
  <1>2. Cardinality(Posts) \in Nat /\ DayLength \in Nat
    BY Zenon, PostQueueAssumption, GridAssumption, FS_CardinalityType
  <1>3. (Cardinality(Posts) + 1) * DayLength \in Nat
    BY <1>2
  <1>4. free \in SUBSET Nat
    BY <1>1, <1>3
  <1>5. NextFreeSlot(channel, p, requested) = IF free = {} THEN None ELSE Min(free)
    BY Zenon DEF NextFreeSlot
  <1>6. free # {} => Min(free) \in free
    BY Zenon, <1>4, MinIsMember
  <1>7. free # {} => Min(free) \in Int /\ Min(free) \notin Occupied(channel, p)
    BY <1>4, <1>6
  <1> QED
    BY Zenon, <1>5, <1>7 DEF Times

(* The next post is none of those that are there. *)
LEMMA NextPost ==
    ASSUME PresentInv, TypeOK
    PROVE  /\ NewId \in Nat /\ NewId \notin Present
           /\ Present \cup {NewId} = 1 .. NewId
           /\ Present \subseteq Posts
  <1>1. PICK n \in 0 .. Cardinality(Posts) : Present = 1 .. n
    BY Zenon DEF PresentInv
  <1>2. n \in Nat
    BY <1>1, PostQueueAssumption, FS_CardinalityType
  <1>3. Cardinality(1 .. n) = n
    BY <1>2, FS_Interval
  <1>4. NewId = n + 1
    BY <1>1, <1>2, <1>3 DEF NewId
  <1> QED
    BY <1>1, <1>2, <1>4 DEF Present

(* The next revision *)
LEMMA Successor == \A n \in Nat : n + 1 \in Nat
  OBVIOUS

(* The columns of a row *)
LEMMA RowFields ==
    ASSUME NEW row \in PostRow
    PROVE  /\ row.rev \in Nat /\ row.slot \in Times /\ row.at \in Times /\ row.when \in Int
           /\ row.media \in Media /\ row.channel \in Channels /\ row # None
  BY Zenon, PostQueueAssumption DEF PostRow

(* A post that is there has a row. *)
LEMMA PresentRow ==
    ASSUME TypeOK, NEW p \in Present
    PROVE  p \in Posts /\ post[p] \in PostRow
  BY Zenon DEF TypeOK, Present

-----------------------------------------------------------------------------
(* Steps that write one row *)

(* What a post keeps for good, and the revision that only grows *)
Moved(old, row) ==
    /\ row \in PostRow
    /\ row.request = old.request /\ row.media = old.media /\ row.channel = old.channel
    /\ row.rev >= old.rev

(* A post changes: it is still the same post to every key. *)
LEMMA MovedKeeps ==
    ASSUME PostQueueInv, NEW p \in Present, NEW row, Moved(post[p], row),
           post' = [post EXCEPT ![p] = row], UNCHANGED sent
    PROVE  /\ Present' = Present /\ PresentInv'
           /\ post' \in [Posts -> PostRow \cup {None}]
           /\ \A k \in Keys : Created(k)' = Created(k) /\ (Spent(k) => Spent(k)')
  <1>1. p \in Posts /\ post[p] \in PostRow /\ post[p].rev \in Nat
    BY Zenon, PresentRow, RowFields DEF PostQueueInv
  <1>2. post \in [Posts -> PostRow \cup {None}]
    BY Zenon DEF PostQueueInv, TypeOK
  <1>3. row # None /\ row \in PostRow /\ row.rev \in Nat /\ row.rev >= post[p].rev
    BY Zenon, RowFields DEF Moved
  <1>4. post' \in [Posts -> PostRow \cup {None}]
    BY Zenon, <1>1, <1>2, <1>3
  <1>5. post'[p] = row /\ \A q \in Posts : q # p => post'[q] = post[q]
    BY Zenon, <1>1, <1>2
  <1>6. Present' = Present
    BY Zenon, <1>1, <1>3, <1>5 DEF Present
  <1>7. PresentInv'
    BY Zenon, <1>6 DEF PostQueueInv, PresentInv
  <1>8. \A q \in Posts : post'[q].request = post[q].request
    BY Zenon, <1>5 DEF Moved
  <1>9. \A k \in Keys : Created(k)' = Created(k)
    BY Zenon, <1>6, <1>8 DEF Created, Present
  <1>10. ASSUME NEW k \in Keys, Spent(k) PROVE Spent(k)'
    <2>1. CASE sent[k].op \in Making
      BY Zenon, <1>9, <1>10, <2>1 DEF Spent
    <2>2. CASE sent[k].op \notin Making
      <3>1. sent[k].post \in Present /\ sent[k].post \in Posts
        BY Zenon, <1>10, <2>2 DEF PostQueueInv, PresentInv, Spent, Present
      <3>2. sent[k].rev \in Nat
        BY Zenon, <1>10, <2>2 DEF PostQueueInv, TypeOK, Requests, Making, Spent
      <3>3. post'[sent[k].post].rev > sent[k].rev
        BY <1>1, <1>3, <1>5, <1>10, <2>2, <3>1, <3>2 DEF Spent
      <3> QED
        BY Zenon, <1>10, <2>2, <3>3 DEF Spent
    <2> QED
      BY Zenon, <2>1, <2>2
  <1> QED
    BY Zenon, <1>4, <1>6, <1>7, <1>9, <1>10

(* A post is made: its key has a post now, and the others what they had. *)
LEMMA MadeKeeps ==
    ASSUME PostQueueInv, NewId \in Posts, NEW row \in PostRow,
           post' = [post EXCEPT ![NewId] = row], UNCHANGED sent
    PROVE  /\ Present' = Present \cup {NewId} /\ NewId \notin Present /\ PresentInv'
           /\ post' \in [Posts -> PostRow \cup {None}]
           /\ \A k \in Keys : /\ row.request[1] = k => Created(k)' # {}
                              /\ row.request[1] # k => Created(k)' = Created(k)
                              /\ Spent(k) => Spent(k)'
  <1>1. /\ NewId \in Nat /\ NewId \notin Present /\ Present \cup {NewId} = 1 .. NewId
        /\ Present \subseteq Posts
    BY Zenon, NextPost DEF PostQueueInv
  <1>2. post \in [Posts -> PostRow \cup {None}] /\ row # None
    BY Zenon, RowFields DEF PostQueueInv, TypeOK
  <1>3. post' \in [Posts -> PostRow \cup {None}]
    BY Zenon, <1>2
  <1>4. PICK new \in Posts : new = NewId
    BY Zenon
  <1>5. post'[new] = row /\ \A q \in Posts : q # new => post'[q] = post[q]
    BY Zenon, <1>2, <1>4
  <1>6. Present' = Present \cup {new}
    BY Zenon, <1>2, <1>4, <1>5 DEF Present
  <1>7. PresentInv'
    <2>1. Present' = 1 .. new /\ new \in Nat /\ new \in 1 .. Cardinality(Posts)
      BY Zenon, <1>1, <1>4, <1>6, PostQueueAssumption
    <2>2. new \in 0 .. Cardinality(Posts)
      BY <2>1, PostQueueAssumption, FS_CardinalityType
    <2> QED
      BY Zenon, <1>6, <2>1, <2>2 DEF PostQueueInv, PresentInv
  <1>8. ASSUME NEW k \in Keys
        PROVE  /\ row.request[1] = k => Created(k)' # {}
               /\ row.request[1] # k => Created(k)' = Created(k)
    <2>1. Created(k)' = {q \in Present \cup {new} : post'[q].request[1] = k}
      BY Zenon, <1>6 DEF Created
    <2>2. \A q \in Present : post'[q] = post[q]
      BY Zenon, <1>1, <1>4, <1>5
    <2> QED
      BY <1>1, <1>4, <1>5, <2>1, <2>2 DEF Created
  <1>9. ASSUME NEW k \in Keys, Spent(k) PROVE Spent(k)'
    <2>1. CASE sent[k].op \in Making
      BY Zenon, <1>8, <1>9, <2>1 DEF Spent
    <2>2. CASE sent[k].op \notin Making
      <3>1. sent[k].post \in Present
        BY Zenon, <1>9, <2>2 DEF PostQueueInv, PresentInv, Spent
      <3>2. post'[sent[k].post] = post[sent[k].post]
        BY Zenon, <1>1, <1>4, <1>5, <3>1
      <3> QED
        BY Zenon, <1>9, <2>2, <3>2 DEF Spent
    <2> QED
      BY Zenon, <2>1, <2>2
  <1> QED
    BY Zenon, <1>1, <1>3, <1>4, <1>6, <1>7, <1>8, <1>9

(* Slots stay apart when the written row is not in the queue, has no slot, *)
(* has a free one, or keeps the one it had.                                *)
LEMMA SlotsWritten ==
    ASSUME PostQueueInv, NEW p \in Posts, NEW row \in PostRow, post' = [post EXCEPT ![p] = row],
           Present' = Present \cup {p},
           \/ row.state \notin {"queued", "sending"}
           \/ row.slot = None
           \/ row.slot \notin Occupied(row.channel, p)
           \/ /\ p \in Present /\ Active(p)
              /\ row.slot = post[p].slot /\ row.channel = post[p].channel
    PROVE  SlotsDisjoint'
  <1>1. post'[p] = row /\ \A q \in Posts : q # p => post'[q] = post[q]
    BY Zenon DEF PostQueueInv, TypeOK
  <1>2. Present \subseteq Posts
    BY Zenon DEF Present
  <1>3. ASSUME NEW q \in Present, q # p, Active(q), row.state \in {"queued", "sending"},
               row.slot # None, row.channel = post[q].channel
        PROVE  row.slot # post[q].slot
    <2>1. CASE row.slot \notin Occupied(row.channel, p)
      <3>1. post[q].slot # None => post[q].slot \in Occupied(row.channel, p)
        BY Zenon, <1>3 DEF Occupied
      <3> QED
        BY Zenon, <1>3, <2>1, <3>1
    <2>2. CASE /\ p \in Present /\ Active(p)
               /\ row.slot = post[p].slot /\ row.channel = post[p].channel
      BY Zenon, <1>3, <2>2 DEF PostQueueInv, SlotsDisjoint
    <2> QED
      BY Zenon, <1>3, <2>1, <2>2
  <1> SUFFICES ASSUME NEW x \in Present', NEW y \in Present', x # y, Active(x)', Active(y)',
                      post'[x].slot # None, post'[x].channel = post'[y].channel
               PROVE  post'[x].slot # post'[y].slot
    BY DEF SlotsDisjoint
  <1>4. CASE x = p
    BY <1>1, <1>2, <1>3, <1>4 DEF Active
  <1>5. CASE y = p
    <2>1. x \in Present /\ Active(x) /\ post'[x] = post[x]
      BY Zenon, <1>1, <1>2, <1>5 DEF Active
    <2>2. row.slot = None \/ row.slot # post[x].slot
      BY Zenon, <1>1, <1>3, <1>5, <2>1 DEF Active
    <2> QED
      BY Zenon, <1>1, <1>5, <2>1, <2>2
  <1>6. CASE x # p /\ y # p
    <2>1. /\ x \in Present /\ Active(x) /\ post'[x] = post[x]
          /\ y \in Present /\ Active(y) /\ post'[y] = post[y]
      BY Zenon, <1>1, <1>2, <1>6 DEF Active
    <2> QED
      BY ZenonT(40), <2>1 DEF PostQueueInv, SlotsDisjoint
  <1> QED
    BY Zenon, <1>4, <1>5, <1>6

(* No media is repeated silently when the written row is not in the queue, *)
(* was put there by hand, was there before, or has no rival.               *)
LEMMA RepeatsWritten ==
    ASSUME PostQueueInv, NEW p \in Posts, NEW row \in PostRow, post' = [post EXCEPT ![p] = row],
           Present' = Present \cup {p}, explicit \subseteq explicit',
           \/ row.state \notin {"queued", "sending"}
           \/ p \in explicit'
           \/ p \in Present /\ Active(p) /\ row.media = post[p].media
           \/ \A q \in Present \ {p} : Active(q) => post[q].media # row.media
    PROVE  NoSilentRepeat'
  <1>1. post'[p] = row /\ \A q \in Posts : q # p => post'[q] = post[q]
    BY Zenon DEF PostQueueInv, TypeOK
  <1>2. Present \subseteq Posts
    BY Zenon DEF Present
  <1>3. ASSUME NEW q \in Present, q # p, Active(q), row.state \in {"queued", "sending"},
               row.media = post[q].media
        PROVE  p \in explicit' \/ q \in explicit'
    BY Zenon, <1>3 DEF PostQueueInv, NoSilentRepeat
  <1> SUFFICES ASSUME NEW x \in Present', NEW y \in Present', x # y, Active(x)', Active(y)',
                      post'[x].media = post'[y].media
               PROVE  x \in explicit' \/ y \in explicit'
    BY Zenon DEF NoSilentRepeat
  <1>4. CASE x = p
    BY Zenon, <1>1, <1>2, <1>3, <1>4 DEF Active
  <1>5. CASE y = p
    BY Zenon, <1>1, <1>2, <1>3, <1>5 DEF Active
  <1>6. CASE x # p /\ y # p
    <2>1. /\ x \in Present /\ Active(x) /\ post'[x] = post[x]
          /\ y \in Present /\ Active(y) /\ post'[y] = post[y]
      BY Zenon, <1>1, <1>2, <1>6 DEF Active
    <2> QED
      BY Zenon, <2>1 DEF PostQueueInv, NoSilentRepeat
  <1> QED
    BY Zenon, <1>4, <1>5, <1>6

(* A request takes effect: it had none before, and is spent now. *)
LEMMA AppliedOnce ==
    ASSUME PostQueueInv, NEW k \in Keys, applied[k] = 0, Apply(k), Spent(k)',
           \A j \in Keys : Spent(j) => Spent(j)'
    PROVE  AppliedInv' /\ applied' \in [Keys -> 0 .. 2]
  <1>1. applied \in [Keys -> 0 .. 2]
    BY Zenon DEF PostQueueInv, TypeOK
  <1>2. applied'[k] = 1 /\ \A j \in Keys : j # k => applied'[j] = applied[j]
    BY <1>1 DEF Apply
  <1>3. applied' \in [Keys -> 0 .. 2]
    BY <1>1 DEF Apply
  <1> QED
    BY Zenon, <1>2, <1>3 DEF PostQueueInv, AppliedInv

(* Connections that stay or leave *)
LEMMA ConnKeeps ==
    ASSUME PostQueueInv, UNCHANGED sent,
           \A d \in Conns :
              \/ conn'[d].pc = "idle"
              \/ /\ conn'[d] = conn[d]
                 /\ ~At(d, "idle") => Created(conn[d].key)' = {}
    PROVE  ConnInv'
  BY SMTT(40) DEF PostQueueInv, ConnInv, At

(* The request that a step serves takes effect: it was written for the     *)
(* post as it is.                                                          *)
Serves(k, p) ==
    /\ sent[k] # None /\ sent[k].op \notin Making
    /\ sent[k].post = p /\ sent[k].rev = post[p].rev

(* A command that takes effect was not spent before, and is spent now. *)
LEMMA ServedKeeps ==
    ASSUME PostQueueInv, NEW k \in Keys, NEW p \in Present, NEW row, Moved(post[p], row),
           post' = [post EXCEPT ![p] = row], UNCHANGED sent,
           Serves(k, p), row.rev = post[p].rev + 1, Apply(k)
    PROVE  AppliedInv' /\ applied' \in [Keys -> 0 .. 2]
  <1>1. p \in Posts /\ post[p] \in PostRow /\ post[p].rev \in Nat
    BY Zenon, PresentRow, RowFields DEF PostQueueInv
  <1>2. ~Spent(k)
    BY <1>1 DEF Serves, Spent
  <1>3. applied[k] = 0
    BY Zenon, <1>2 DEF PostQueueInv, AppliedInv
  <1>4. post'[p] = row
    BY Zenon, <1>1 DEF PostQueueInv, TypeOK
  <1>5. Spent(k)'
    BY <1>1, <1>4 DEF Serves, Spent
  <1> QED
    BY Zenon, <1>3, <1>5, MovedKeeps, AppliedOnce

(* A step changes one post, by hand or in the worker. *)
LEMMA PostStep ==
    ASSUME PostQueueInv, NEW p \in Present, NEW row, Moved(post[p], row),
           post' = [post EXCEPT ![p] = row],
           UNCHANGED <<now, ready, enabled, switches, sent, conn, conflicts>>,
           job' \in [Posts -> {"none", "queued", "running", "failed", "done", "cancelled"}],
           explicit' = explicit \/ explicit' = explicit \cup {p},
           \/ UNCHANGED applied
           \/ \E k \in Keys : Serves(k, p) /\ row.rev = post[p].rev + 1 /\ Apply(k),
           \/ row.state \notin {"queued", "sending"}
           \/ /\ p \in explicit'
              /\ row.slot = None \/ row.slot \notin Occupied(row.channel, p)
           \/ Active(p) /\ row.slot = post[p].slot
    PROVE  PostQueueInv'
  <1>1. p \in Posts /\ row \in PostRow /\ row.media = post[p].media /\ row.channel = post[p].channel
    BY Zenon, PresentRow DEF PostQueueInv, Moved
  <1>2. /\ Present' = Present /\ PresentInv' /\ post' \in [Posts -> PostRow \cup {None}]
        /\ \A k \in Keys : Created(k)' = Created(k) /\ (Spent(k) => Spent(k)')
    BY Zenon, MovedKeeps
  <1>3. AppliedInv' /\ applied' \in [Keys -> 0 .. 2]
    <2>1. CASE UNCHANGED applied
      BY Zenon, <1>2, <2>1 DEF PostQueueInv, AppliedInv, TypeOK
    <2> QED
      BY Zenon, <2>1, ServedKeeps
  <1>4. ConnInv'
    BY ZenonT(40), <1>2, ConnKeeps DEF PostQueueInv, ConnInv, At
  <1>5. Present' = Present \cup {p}
    BY Zenon, <1>2
  <1>6. SlotsDisjoint'
    BY Zenon, <1>1, <1>5, SlotsWritten
  <1>7. NoSilentRepeat'
    BY Zenon, <1>1, <1>5, RepeatsWritten
  <1>8. TypeOK'
    BY Zenon, <1>1, <1>2, <1>3 DEF PostQueueInv, TypeOK
  <1> QED
    BY Zenon, <1>2, <1>3, <1>4, <1>6, <1>7, <1>8 DEF PostQueueInv

(* A step makes a post for a key that has none. *)
LEMMA MakingStep ==
    ASSUME PostQueueInv, NewId \in Posts, NEW k \in Keys, NEW row \in PostRow,
           post' = [post EXCEPT ![NewId] = row], row.request[1] = k,
           sent[k] # None, sent[k].op \in Making, Created(k) = {}, Apply(k),
           UNCHANGED <<now, ready, enabled, switches, sent, conflicts, explicit>>,
           job' \in [Posts -> {"none", "queued", "running", "failed", "done", "cancelled"}],
           conn' \in [Conns -> [pc : {"idle", "media", "share", "channel"},
                                key : Keys \cup {None}, channel : Channels \cup {None}]],
           \A d \in Conns : \/ conn'[d].pc = "idle"
                            \/ conn'[d] = conn[d] /\ (~At(d, "idle") => conn[d].key # k),
           \/ row.state \notin {"queued", "sending"}
           \/ /\ row.slot = None \/ row.slot \notin Occupied(row.channel, NewId)
              /\ \A q \in Present \ {NewId} : Active(q) => post[q].media # row.media
    PROVE  PostQueueInv'
  <1>1. /\ Present' = Present \cup {NewId} /\ NewId \notin Present /\ PresentInv'
        /\ post' \in [Posts -> PostRow \cup {None}]
        /\ \A j \in Keys : /\ row.request[1] = j => Created(j)' # {}
                           /\ row.request[1] # j => Created(j)' = Created(j)
                           /\ Spent(j) => Spent(j)'
    BY Zenon, MadeKeeps
  <1>2. applied[k] = 0
    BY ZenonT(40) DEF PostQueueInv, AppliedInv, Spent
  <1>3. Spent(k)'
    BY Zenon, <1>1 DEF Spent
  <1>4. AppliedInv' /\ applied' \in [Keys -> 0 .. 2]
    BY Zenon, <1>1, <1>2, <1>3, AppliedOnce
  <1>5. ConnInv'
    <2>1. ASSUME NEW d \in Conns, conn'[d] = conn[d], ~At(d, "idle"), conn[d].key # k
          PROVE  Created(conn[d].key)' = {}
      <3>1. PICK j \in Keys : j = conn[d].key /\ Created(j) = {}
        BY ZenonT(40), <2>1 DEF PostQueueInv, ConnInv
      <3>2. Created(j)' = {}
        BY Zenon, <1>1, <2>1, <3>1
      <3> QED
        BY ZenonT(40), <2>1, <3>1, <3>2 DEF Created
    <2> QED
      BY Zenon, <2>1, ConnKeeps
  <1>6. SlotsDisjoint'
    BY Zenon, <1>1, SlotsWritten
  <1>7. NoSilentRepeat'
    BY Zenon, <1>1, RepeatsWritten
  <1>8. TypeOK'
    BY Zenon, <1>1, <1>4 DEF PostQueueInv, TypeOK
  <1> QED
    BY Zenon, <1>1, <1>4, <1>5, <1>6, <1>7, <1>8 DEF PostQueueInv

(* A step that leaves the posts alone *)
LEMMA QueueUntouched ==
    ASSUME PostQueueInv, UNCHANGED <<queue, sent, conn, applied, explicit>>, TypeOK'
    PROVE  PostQueueInv'
  <1>1. UNCHANGED <<post, job>>
    BY Zenon DEF queue
  <1>2. PresentInv' /\ SlotsDisjoint' /\ NoSilentRepeat'
    BY <1>1 DEF PostQueueInv, PresentInv, SlotsDisjoint, NoSilentRepeat, Present, Active
  <1>3. AppliedInv'
    BY Zenon, <1>1 DEF PostQueueInv, AppliedInv, Spent, Created, Present
  <1>4. ConnInv'
    BY Zenon, <1>1 DEF PostQueueInv, ConnInv, At, Created, Present
  <1> QED
    BY Zenon, <1>2, <1>3, <1>4 DEF PostQueueInv

(* Nothing, or only an answer, comes of a request. *)
LEMMA AnswerStep ==
    ASSUME PostQueueInv, NEW k \in Keys, Refused \/ Replayed \/ Conflicted(k),
           UNCHANGED <<now, ready, enabled, switches, sent, conn>>
    PROVE  PostQueueInv'
  <1>1. TypeOK'
    BY Zenon DEF PostQueueInv, TypeOK, Refused, Replayed, Conflicted, queue, history
  <1> QED
    BY Zenon, <1>1, QueueUntouched DEF Refused, Replayed, Conflicted, queue, history

-----------------------------------------------------------------------------
(* The actions *)

(* schedule_post, schedule_post_exact, publish_now: the row that the       *)
(* handler prepares is queued under the key of the request.                *)
LEMMA SchedulingKeeps ==
    ASSUME PostQueueInv, NEW k \in Keys, NEW p \in Present,
           sent[k] # None, sent[k].op \notin Making, sent[k].post = p,
           NEW tag \in {"schedule", "exact", "publish_now"}, NEW hash, hash \in Int \/ hash \in Keys,
           NEW allowed, NEW new,
           allowed => /\ Moved(post[p], new) /\ new.rev = post[p].rev
                      /\ new.slot = None \/ new.slot \notin Occupied(new.channel, p),
           Scheduling(k, p, tag, hash, allowed, new),
           UNCHANGED <<now, ready, enabled, switches, sent, conn>>
    PROVE  PostQueueInv'
  <1> DEFINE mark == <<<<tag, k>>, hash>>
             row == [new EXCEPT !.state = "queued", !.rev = @ + 1, !.scheduled = mark]
  <1>1. CASE Refused \/ Replayed \/ Conflicted(k)
    BY Zenon, <1>1, AnswerStep
  <1>2. CASE /\ allowed /\ Fresh(p, sent[k])
             /\ post' = [post EXCEPT ![p] = row] /\ Requeued(p) /\ Apply(k)
             /\ explicit' = explicit \cup {p} /\ UNCHANGED conflicts
    <2>1. new \in PostRow /\ new.rev \in Nat /\ new.rev = post[p].rev /\ Moved(post[p], new)
      BY Zenon, <1>2, RowFields DEF Moved
    <2>0. mark \in ScheduleMark
      BY Zenon DEF ScheduleMark
    <2> HIDE DEF mark
    <2>2. /\ row \in PostRow /\ row.request = new.request /\ row.media = new.media
          /\ row.channel = new.channel /\ row.rev = new.rev + 1 /\ row.slot = new.slot
      <3>1. new.rev + 1 \in Nat
        BY <2>1
      <3>2. row.rev = new.rev + 1 /\ row.request = new.request /\ row.media = new.media
        BY Zenon, <2>1 DEF PostRow
      <3>3. row.channel = new.channel /\ row.slot = new.slot
        BY Zenon, <2>1 DEF PostRow
      <3>4. row \in PostRow
        BY ZenonT(40), <2>0, <2>1, <3>1 DEF PostRow
      <3> QED
        BY Zenon, <3>2, <3>3, <3>4
    <2> HIDE DEF row
    <2>3. Moved(post[p], row)
      BY <2>1, <2>2 DEF Moved
    <2>4. Serves(k, p)
      BY Zenon, <1>2 DEF Serves, Fresh
    <2>5. job' \in [Posts -> {"none", "queued", "running", "failed", "done", "cancelled"}]
      BY ZenonT(40), <1>2 DEF Requeued, PostQueueInv, TypeOK
    <2>6. /\ p \in explicit'
          /\ row.slot = None \/ row.slot \notin Occupied(row.channel, p)
      BY Zenon, <1>2, <2>2
    <2>7. \E j \in Keys : Serves(j, p) /\ row.rev = post[p].rev + 1 /\ Apply(j)
      BY Zenon, <1>2, <2>1, <2>2, <2>4
    <2> QED
      BY Zenon, <1>2, <2>3, <2>5, <2>6, <2>7, PostStep
  <1> QED
    BY Zenon, <1>1, <1>2 DEF Scheduling, Again

(* schedule_post: a free cadence slot *)
LEMMA SchedulePostKeeps ==
    ASSUME PostQueueInv, NEW k \in Keys, NEW p \in Present, SchedulePost(k, p)
    PROVE  PostQueueInv'
  <1> DEFINE at == RequestedAt(sent[k])
             slot == NextFreeSlot(post[p].channel, p, at)
             new == [post[p] EXCEPT !.when = slot, !.slot = slot]
  <1>1. /\ sent[k] # None /\ sent[k].op = "schedule" /\ sent[k].post = p
        /\ UNCHANGED <<now, ready, enabled, switches, sent, conn>>
    BY Zenon DEF SchedulePost, Command
  <1>2. sent[k].at \in Times
    BY Zenon, <1>1 DEF PostQueueInv, TypeOK, Requests
  <1>3. at \in Int
    BY <1>2 DEF RequestedAt, Times, PostQueueInv, TypeOK
  <1>4. post[p] \in PostRow /\ post[p].rev \in Nat
    BY Zenon, PresentRow, RowFields DEF PostQueueInv
  <1>5. Scheduling(k, p, "schedule", at, slot # None, new)
    BY Zenon DEF SchedulePost, TakeSlot
  <1> HIDE DEF at
  <1>6. slot # None => slot \in Int /\ slot \notin Occupied(post[p].channel, p)
    BY Zenon, <1>3, FreeSlot DEF PostQueueInv
  <1> HIDE DEF slot
  <1>7. slot # None => /\ new \in PostRow /\ new.request = post[p].request
                       /\ new.media = post[p].media /\ new.channel = post[p].channel
                       /\ new.rev = post[p].rev /\ new.slot = slot
    BY ZenonT(40), <1>4, <1>6 DEF PostRow, Times
  <1> HIDE DEF new
  <1>8. slot # None => /\ Moved(post[p], new) /\ new.rev = post[p].rev
                       /\ new.slot = None \/ new.slot \notin Occupied(new.channel, p)
    BY <1>4, <1>6, <1>7 DEF Moved
  <1>9. sent[k].op \notin Making
    BY Zenon, <1>1 DEF Making
  <1> QED
    BY ZenonT(40), <1>1, <1>3, <1>5, <1>8, <1>9, SchedulingKeeps

(* schedule_post_exact: no slot *)
LEMMA SchedulePostExactKeeps ==
    ASSUME PostQueueInv, NEW k \in Keys, NEW p \in Present, SchedulePostExact(k, p)
    PROVE  PostQueueInv'
  <1> DEFINE at == sent[k].at
             new == AtExactly(p, at)
  <1>1. /\ sent[k] # None /\ sent[k].op = "exact" /\ sent[k].post = p
        /\ UNCHANGED <<now, ready, enabled, switches, sent, conn>>
        /\ Scheduling(k, p, "exact", at, at > now, new)
    BY Zenon DEF SchedulePostExact, Command, TakeExactTime
  <1>2. at \in Int
    BY Zenon, <1>1 DEF PostQueueInv, TypeOK, Requests
  <1> HIDE DEF at
  <1>3. post[p] \in PostRow /\ post[p].rev \in Nat
    BY Zenon, PresentRow, RowFields DEF PostQueueInv
  <1>4. /\ new \in PostRow /\ new.request = post[p].request
        /\ new.media = post[p].media /\ new.channel = post[p].channel
        /\ new.rev = post[p].rev /\ new.slot = None
    BY ZenonT(40), <1>2, <1>3 DEF AtExactly, PostRow, Times, Actions
  <1> HIDE DEF new
  <1>5. Moved(post[p], new) /\ new.rev = post[p].rev /\ new.slot = None
    BY <1>3, <1>4 DEF Moved
  <1>6. sent[k].op \notin Making
    BY Zenon, <1>1 DEF Making
  <1> QED
    BY Zenon, <1>1, <1>2, <1>5, <1>6, SchedulingKeeps

(* publish_now: no slot *)
LEMMA PublishNowKeeps ==
    ASSUME PostQueueInv, NEW k \in Keys, NEW p \in Present, PublishNow(k, p)
    PROVE  PostQueueInv'
  <1> DEFINE new == [post[p] EXCEPT !.when = now, !.slot = None]
  <1>1. /\ sent[k] # None /\ sent[k].op = "now" /\ sent[k].post = p
        /\ UNCHANGED <<now, ready, enabled, switches, sent, conn>>
        /\ Scheduling(k, p, "publish_now", k, TRUE, new)
    BY Zenon DEF PublishNow, Command, SendNow
  <1>2. post[p] \in PostRow /\ post[p].rev \in Nat /\ now \in Int
    BY SMTT(40), PresentRow, RowFields DEF PostQueueInv, TypeOK
  <1>3. /\ new \in PostRow /\ new.request = post[p].request
        /\ new.media = post[p].media /\ new.channel = post[p].channel
        /\ new.rev = post[p].rev /\ new.slot = None
    BY ZenonT(40), <1>2 DEF PostRow, Times
  <1> HIDE DEF new
  <1>4. Moved(post[p], new) /\ new.rev = post[p].rev /\ new.slot = None
    BY SMTT(40), <1>2, <1>3 DEF Moved
  <1>5. sent[k].op \notin Making
    BY Zenon, <1>1 DEF Making
  <1> QED
    BY Zenon, <1>1, <1>4, <1>5, SchedulingKeeps

(* decide_post: the post is cancelled, or queued at a time of its own or   *)
(* in a free slot.                                                         *)
LEMMA DecidedKeeps ==
    ASSUME PostQueueInv, NEW k \in Keys, NEW p \in Present, Serves(k, p),
           sent[k].decision \in STRING, NEW new, Moved(post[p], new), new.rev = post[p].rev,
           \/ new.state = "cancelled"
           \/ new.slot = None \/ new.slot \notin Occupied(new.channel, p),
           Decided(k, p, new), UNCHANGED job \/ Requeued(p), Apply(k),
           explicit' = explicit \cup {p},
           UNCHANGED <<now, ready, enabled, switches, sent, conn, conflicts>>
    PROVE  PostQueueInv'
  <1> DEFINE mark == <<k, <<sent[k].decision, sent[k].rev>>>>
             row == [new EXCEPT !.evidence = FALSE, !.rev = @ + 1, !.decided = mark]
  <1>1. new \in PostRow /\ new.rev \in Nat
    BY Zenon, RowFields DEF Moved
  <1>2. sent[k].rev \in Nat
    BY Zenon, <1>1 DEF Serves
  <1>3. mark \in DecisionMark
    BY Zenon, <1>2 DEF DecisionMark
  <1>4. post' = [post EXCEPT ![p] = row]
    BY Zenon DEF Decided
  <1> HIDE DEF mark
  <1>5. new.rev + 1 \in Nat
    BY Zenon, <1>1, Successor
  <1>6. row.rev = new.rev + 1 /\ row.request = new.request /\ row.media = new.media
    BY Zenon, <1>1 DEF PostRow
  <1>7. row.channel = new.channel /\ row.slot = new.slot /\ row.state = new.state
    BY Zenon, <1>1 DEF PostRow
  <1>8. row \in PostRow
    BY ZenonT(40), <1>1, <1>3, <1>5 DEF PostRow
  <1> HIDE DEF row
  <1>9. Moved(post[p], row)
    BY <1>1, <1>6, <1>7, <1>8 DEF Moved
  <1>10. job' \in [Posts -> {"none", "queued", "running", "failed", "done", "cancelled"}]
    BY Zenon DEF Requeued, PostQueueInv, TypeOK
  <1>11. \E j \in Keys : Serves(j, p) /\ row.rev = post[p].rev + 1 /\ Apply(j)
    BY Zenon, <1>6
  <1>12. \/ row.state \notin {"queued", "sending"}
         \/ /\ p \in explicit'
            /\ row.slot = None \/ row.slot \notin Occupied(row.channel, p)
    BY Zenon, <1>7
  <1> QED
    BY Zenon, <1>4, <1>9, <1>10, <1>11, <1>12, PostStep

(* decide_post: cancel, or one of three ways into the queue *)
LEMMA DecidePostKeeps ==
    ASSUME PostQueueInv, NEW k \in Keys, NEW p \in Present, DecidePost(k, p)
    PROVE  PostQueueInv'
  <1> DEFINE decision == sent[k].decision
             slot == NextFreeSlot(post[p].channel, p, now)
             queued == [post[p] EXCEPT !.state = "queued"]
             new == CASE decision = "cancel" ->
                             [post[p] EXCEPT !.state = "cancelled", !.slot = None]
                      [] decision = "post_now_anyway" ->
                             [queued EXCEPT !.when = now, !.slot = None]
                      [] decision = "queue_anyway" ->
                             [queued EXCEPT !.when = slot, !.slot = slot]
                      [] decision = "keep_exact_time" ->
                             [queued EXCEPT !.when = post[p].at, !.slot = None]
  <1>1. /\ sent[k] # None /\ sent[k].op = "decide" /\ sent[k].post = p
        /\ UNCHANGED <<now, ready, enabled, switches, sent, conn>>
    BY Zenon DEF DecidePost, Command
  <1>2. CASE Refused \/ Replayed \/ Conflicted(k)
    BY Zenon, <1>1, <1>2, AnswerStep
  <1>3. CASE /\ decision \in PublicationDecisions
             /\ Fresh(p, sent[k]) /\ DecisionAllowed(p, decision)
             /\ decision = "queue_anyway" => slot # None
             /\ Decided(k, p, new)
             /\ UNCHANGED job \/ Requeued(p)
             /\ Apply(k) /\ explicit' = explicit \cup {p} /\ UNCHANGED conflicts
    <2>1. decision \in STRING /\ Serves(k, p)
      BY Zenon, <1>1, <1>3 DEF Serves, Fresh, Making, PostQueueInv, TypeOK, Requests
    <2>2. post[p] \in PostRow /\ post[p].rev \in Nat /\ now \in Int /\ post[p].at \in Times
      BY PresentRow, RowFields DEF PostQueueInv, TypeOK
    <2>3. slot # None => slot \in Int /\ slot \notin Occupied(post[p].channel, p)
      BY Zenon, <2>2, FreeSlot DEF PostQueueInv
    <2> HIDE DEF slot
    <2>4. /\ Moved(post[p], new) /\ new.rev = post[p].rev
          /\ \/ new.state = "cancelled"
             \/ new.slot = None \/ new.slot \notin Occupied(new.channel, p)
      <3> HIDE DEF new
      <3> SUFFICES /\ new \in PostRow /\ new.request = post[p].request
                   /\ new.media = post[p].media /\ new.channel = post[p].channel
                   /\ new.rev = post[p].rev /\ (new.slot = None \/ (new.slot = slot /\ slot # None))
        BY <2>2, <2>3 DEF Moved
      <3>1. CASE decision = "cancel"
        <4>1. new = [post[p] EXCEPT !.state = "cancelled", !.slot = None]
          BY Zenon, <3>1 DEF new
        <4>2. new \in PostRow
          BY ZenonT(40), <2>2, <4>1 DEF PostRow, Times
        <4>3. new.request = post[p].request /\ new.media = post[p].media
              /\ new.channel = post[p].channel
          BY Zenon, <2>2, <4>1 DEF PostRow
        <4>4. new.rev = post[p].rev /\ new.slot = None
          BY Zenon, <2>2, <4>1 DEF PostRow
        <4> QED
          BY Zenon, <4>2, <4>3, <4>4
      <3>2. ASSUME NEW when \in Int, NEW at, at = None \/ (at = slot /\ slot # None),
                   new = [queued EXCEPT !.when = when, !.slot = at]
            PROVE  /\ new \in PostRow /\ new.request = post[p].request
                   /\ new.media = post[p].media /\ new.channel = post[p].channel
                   /\ new.rev = post[p].rev /\ (new.slot = None \/ (new.slot = slot /\ slot # None))
        <4>1. at \in Times
          BY Zenon, <2>3, <3>2 DEF Times
        <4>2. queued \in PostRow /\ queued.request = post[p].request
              /\ queued.media = post[p].media /\ queued.channel = post[p].channel
              /\ queued.rev = post[p].rev
          BY Zenon, <2>2 DEF PostRow
        <4> HIDE DEF queued
        <4>3. new \in PostRow
          BY Zenon, <3>2, <4>1, <4>2 DEF PostRow
        <4>4. new.request = queued.request /\ new.media = queued.media
              /\ new.channel = queued.channel
          BY Zenon, <3>2, <4>2 DEF PostRow
        <4>5. new.rev = queued.rev /\ new.slot = at
          BY Zenon, <3>2, <4>2 DEF PostRow
        <4> QED
          BY Zenon, <3>2, <4>2, <4>3, <4>4, <4>5
      <3>3. CASE decision = "post_now_anyway"
        <4>1. new = [queued EXCEPT !.when = now, !.slot = None]
          BY Zenon, <3>3 DEF new
        <4> QED
          BY Zenon, <2>2, <3>2, <4>1
      <3>4. CASE decision = "queue_anyway"
        <4>1. new = [queued EXCEPT !.when = slot, !.slot = slot]
          BY Zenon, <3>4 DEF new
        <4> QED
          BY Zenon, <1>3, <2>3, <3>2, <3>4, <4>1
      <3>5. CASE decision = "keep_exact_time"
        <4>1. new = [queued EXCEPT !.when = post[p].at, !.slot = None]
          BY Zenon, <3>5 DEF new
        <4>2. post[p].at \in Int
          BY Zenon, <1>3, <2>2, <3>5 DEF DecisionAllowed, Times
        <4> QED
          BY Zenon, <3>2, <4>1, <4>2
      <3> QED
        BY ZenonT(40), <1>3, <3>1, <3>3, <3>4, <3>5 DEF PublicationDecisions
    <2> HIDE DEF new
    <2> QED
      BY Zenon, <1>1, <1>3, <2>1, <2>4, DecidedKeeps
  <1> QED
    BY ZenonT(40), <1>2, <1>3 DEF DecidePost, Decide, Again

(* A row whose state, slot, time of publication and revision are written *)
Written(old, state, slot, published) ==
    [old EXCEPT !.state = state, !.slot = slot, !.published = published, !.rev = old.rev + 1]

States == {"draft", "queued", "sending", "published", "failed", "unknown", "cancelled"}

(* Writing some columns of a row gives a row. *)
LEMMA RowWritten ==
    ASSUME NEW old \in PostRow, NEW state \in States, NEW slot \in Times, NEW published \in Times
    PROVE  LET row == Written(old, state, slot, published)
           IN  Moved(old, row) /\ row.state = state /\ row.slot = slot /\ row.rev = old.rev + 1
  <1> DEFINE row == Written(old, state, slot, published)
  <1>1. old.rev \in Nat /\ old.rev + 1 \in Nat
    BY RowFields
  <1>2. row \in PostRow
    BY Zenon, <1>1 DEF PostRow, Written, States
  <1>3. row.request = old.request /\ row.media = old.media /\ row.channel = old.channel
    BY Zenon DEF PostRow, Written
  <1>4. row.state = state /\ row.slot = slot /\ row.rev = old.rev + 1
    BY Zenon DEF PostRow, Written
  <1> QED
    BY <1>1, <1>2, <1>3, <1>4 DEF Moved

(* ... which is how the remaining commands and the worker write it *)
LEMMA RowForms ==
    ASSUME NEW old \in PostRow, NEW state
    PROVE  /\ [old EXCEPT !.state = state, !.rev = @ + 1]
                 = Written(old, state, old.slot, old.published)
           /\ [old EXCEPT !.state = state, !.slot = None, !.rev = @ + 1]
                 = Written(old, state, None, old.published)
           /\ [old EXCEPT !.rev = @ + 1] = Written(old, old.state, old.slot, old.published)
  BY Zenon DEF PostRow, Written

(* The columns that a command writes *)
LEMMA WrittenFields ==
    ASSUME NEW old \in PostRow
    PROVE  old.state \in States /\ old.slot \in Times /\ old.published \in Times /\ None \in Times
  BY Zenon DEF PostRow, States, Times

(* cancel_post, update_post, claim_publish and what ends a publication *)
LEMMA CancelPostKeeps ==
    ASSUME PostQueueInv, NEW k \in Keys, NEW p \in Present, CancelPost(k, p)
    PROVE  PostQueueInv'
  <1> DEFINE row == [post[p] EXCEPT !.state = "cancelled", !.slot = None, !.rev = @ + 1]
  <1>1. /\ sent[k] # None /\ sent[k].op = "cancel" /\ sent[k].post = p
        /\ UNCHANGED <<now, ready, enabled, switches, sent, conn>>
    BY Zenon DEF CancelPost, Command
  <1>2. CASE Refused
    BY Zenon, <1>1, <1>2, AnswerStep
  <1>3. CASE /\ Fresh(p, sent[k]) /\ post' = [post EXCEPT ![p] = row]
             /\ UNCHANGED job \/ job' = [job EXCEPT ![p] = "cancelled"]
             /\ Apply(k) /\ UNCHANGED <<conflicts, explicit>>
    <2>1. post[p] \in PostRow /\ "cancelled" \in States
      BY Zenon, PresentRow DEF PostQueueInv, States
    <2>2. Moved(post[p], row) /\ row.state = "cancelled" /\ row.rev = post[p].rev + 1
      <3>1. row = Written(post[p], "cancelled", None, post[p].published)
        BY Zenon, <2>1, RowForms
      <3> QED
        BY <2>1, <3>1, RowWritten, WrittenFields
    <2> HIDE DEF row
    <2>3. Serves(k, p)
      BY Zenon, <1>1, <1>3 DEF Serves, Fresh, Making
    <2>4. job' \in [Posts -> {"none", "queued", "running", "failed", "done", "cancelled"}]
      BY Zenon, <1>3 DEF PostQueueInv, TypeOK
    <2>5. \E j \in Keys : Serves(j, p) /\ row.rev = post[p].rev + 1 /\ Apply(j)
      BY Zenon, <1>3, <2>2, <2>3
    <2>6. row.state \notin {"queued", "sending"}
      BY Zenon, <2>2
    <2> QED
      BY ZenonT(40), <1>1, <1>3, <2>2, <2>4, <2>5, <2>6, PostStep
  <1> QED
    BY Zenon, <1>2, <1>3 DEF CancelPost, Cancel

(* update_post: only the revision moves. *)
LEMMA UpdatePostKeeps ==
    ASSUME PostQueueInv, NEW k \in Keys, NEW p \in Present, UpdatePost(k, p)
    PROVE  PostQueueInv'
  <1> DEFINE row == [post[p] EXCEPT !.rev = @ + 1]
  <1>1. /\ sent[k] # None /\ sent[k].op = "update" /\ sent[k].post = p
        /\ UNCHANGED <<now, ready, enabled, switches, sent, conn>>
    BY Zenon DEF UpdatePost, Command
  <1>2. CASE Refused
    BY Zenon, <1>1, <1>2, AnswerStep
  <1>3. CASE /\ Fresh(p, sent[k]) /\ post' = [post EXCEPT ![p] = row]
             /\ \/ UNCHANGED job
                \/ job' = [job EXCEPT ![p] = "queued"]
                \/ job' = [job EXCEPT ![p] = "failed"]
             /\ Apply(k) /\ UNCHANGED <<conflicts, explicit>>
    <2>1. post[p] \in PostRow
      BY Zenon, PresentRow DEF PostQueueInv
    <2>2. /\ Moved(post[p], row) /\ row.state = post[p].state /\ row.slot = post[p].slot
          /\ row.rev = post[p].rev + 1
      <3>1. row = Written(post[p], post[p].state, post[p].slot, post[p].published)
        BY ZenonT(40), <2>1, RowForms
      <3> QED
        BY <2>1, <3>1, RowWritten, WrittenFields
    <2> HIDE DEF row
    <2>3. Serves(k, p)
      BY Zenon, <1>1, <1>3 DEF Serves, Fresh, Making
    <2>4. job' \in [Posts -> {"none", "queued", "running", "failed", "done", "cancelled"}]
      BY Zenon, <1>3 DEF PostQueueInv, TypeOK
    <2>5. \E j \in Keys : Serves(j, p) /\ row.rev = post[p].rev + 1 /\ Apply(j)
      BY Zenon, <1>3, <2>2, <2>3
    <2>6. row.state \notin {"queued", "sending"} \/ (Active(p) /\ row.slot = post[p].slot)
      BY Zenon, <2>2 DEF Active
    <2> QED
      BY Zenon, <1>1, <1>3, <2>2, <2>4, <2>5, <2>6, PostStep
  <1>4. Fresh(p, sent[k]) => post[p].state \in {"draft", "queued", "failed"}
    BY Zenon DEF Fresh, QueueMutable
  <1> QED
    BY Zenon, <1>2, <1>3, <1>4 DEF UpdatePost, Update

(* The worker frees slots and takes none. *)
LEMMA WorkerKeeps ==
    ASSUME PostQueueInv, NEW p \in Posts, ClaimJob(p) \/ ClaimPublish(p) \/ FinishPublish(p)
    PROVE  PostQueueInv'
  <1>1. /\ p \in Present
        /\ UNCHANGED <<now, ready, enabled, switches, sent, conn, applied, conflicts, explicit>>
    BY Zenon DEF ClaimJob, ClaimPublish, FinishPublish, Works, history
  <1>2. CASE ClaimJob(p)
    <2>1. UNCHANGED post /\ job' = [job EXCEPT ![p] = "running"]
      BY Zenon, <1>2 DEF ClaimJob
    <2>2. TypeOK'
      BY Zenon, <1>1, <2>1 DEF PostQueueInv, TypeOK
    <2> QED
      BY ZenonT(40), <1>1, <2>1, <2>2 DEF PostQueueInv, PresentInv, AppliedInv, ConnInv,
         SlotsDisjoint,
         NoSilentRepeat, Present, Created, Spent, Active, At
  <1>3. post[p] \in PostRow /\ now \in Times
    BY <1>1, PresentRow DEF PostQueueInv, TypeOK, Times
  <1>4. ASSUME NEW row, Moved(post[p], row), post' = [post EXCEPT ![p] = row],
               Active(p), row.slot = post[p].slot,
               UNCHANGED job \/ \E state \in {"failed", "done", "queued"} :
                                   job' = [job EXCEPT ![p] = state]
        PROVE  PostQueueInv'
    <2>1. job' \in [Posts -> {"none", "queued", "running", "failed", "done", "cancelled"}]
      BY Zenon, <1>4 DEF PostQueueInv, TypeOK
    <2> QED
      BY Zenon, <1>1, <1>4, <2>1, PostStep
  <1>5. CASE ClaimPublish(p)
    <2>1. PICK state \in {"sending", "failed"} :
              /\ post' = [post EXCEPT ![p] = [post[p] EXCEPT !.state = state, !.rev = @ + 1]]
              /\ UNCHANGED job \/ job' = [job EXCEPT ![p] = "failed"]
      BY Zenon, <1>5 DEF ClaimPublish
    <2> DEFINE row == [post[p] EXCEPT !.state = state, !.rev = @ + 1]
    <2>2. Moved(post[p], row) /\ row.slot = post[p].slot
      <3>1. row = Written(post[p], state, post[p].slot, post[p].published) /\ state \in States
        BY Zenon, <1>3, RowForms DEF States
      <3> QED
        BY <1>3, <3>1, RowWritten, WrittenFields
    <2>3. Active(p) /\ post' = [post EXCEPT ![p] = row]
      BY Zenon, <1>5, <2>1 DEF ClaimPublish, Active
    <2> HIDE DEF row
    <2> QED
      BY Zenon, <1>4, <2>1, <2>2, <2>3
  <1>6. CASE FinishPublish(p)
    <2>1. PICK end \in {<<"published", "done">>, <<"unknown", "done">>,
                        <<"failed", "failed">>, <<"queued", "queued">>} :
              /\ post' = [post EXCEPT ![p] =
                            [post[p] EXCEPT !.state = end[1], !.rev = @ + 1,
                                !.published = IF end[1] = "published" THEN now ELSE @]]
              /\ job' = [job EXCEPT ![p] = end[2]]
      BY Zenon, <1>6 DEF FinishPublish
    <2>2. /\ end[1] \in {"published", "unknown", "failed", "queued"}
          /\ end[2] \in {"done", "failed", "queued"}
      OBVIOUS
    <2>3. PICK state \in States, time \in Times :
              state = end[1] /\ time = IF end[1] = "published" THEN now ELSE post[p].published
      BY Zenon, <1>3, <2>2, WrittenFields DEF States
    <2> DEFINE row == [post[p] EXCEPT !.state = state, !.rev = @ + 1, !.published = time]
    <2>4. post' = [post EXCEPT ![p] = row]
      BY Zenon, <1>3, <2>1, <2>3 DEF PostRow
    <2>5. Moved(post[p], row) /\ row.slot = post[p].slot
      <3>1. row = Written(post[p], state, post[p].slot, time)
        BY ZenonT(40), <1>3 DEF PostRow, Written
      <3> QED
        BY <1>3, <3>1, RowWritten, WrittenFields
    <2>6. Active(p)
      BY Zenon, <1>6 DEF FinishPublish, Active
    <2> HIDE DEF row
    <2> QED
      BY Zenon, <1>4, <2>1, <2>2, <2>4, <2>5, <2>6
  <1> QED
    BY Zenon, <1>2, <1>5, <1>6

(* The row of a new post *)
LEMMA NewRow ==
    ASSUME TypeOK, NEW k \in Keys, sent[k] # None, sent[k].op \in Making, NEW channel \in Channels,
           NEW state \in {"draft", "queued"}, NEW evidence \in BOOLEAN, NEW when \in Int,
           NEW slot \in Times,
           NEW row, row = NewPost(k, sent[k], channel, state, evidence, when, slot)
    PROVE  /\ row \in PostRow /\ row.request[1] = k /\ row.state = state /\ row.slot = slot
           /\ row.channel = channel /\ row.media = sent[k].media
  <1> DEFINE r == sent[k]
  <1>1. /\ r.op \in {"intent", "materialize", "create"} /\ r.media \in Media /\ r.action \in Actions
        /\ r.at \in Times
    BY Zenon DEF TypeOK, Requests, Making
  <1> HIDE DEF r
  <1>2. <<k, Hash(r)>> \in RequestMark
    BY Zenon, <1>1 DEF RequestMark, Hash
  <1> DEFINE mark == <<k, Hash(r)>>
  <1>3. mark[1] = k
    BY Zenon
  <1> HIDE DEF mark
  <1>4. row =
           [state |-> state, media |-> r.media, channel |-> channel, action |-> r.action,
            at |-> r.at, evidence |-> evidence, when |-> when, slot |-> slot, rev |-> 0,
            request |-> mark, scheduled |-> None, decided |-> None, published |-> None]
    BY Zenon DEF NewPost, mark, r
  <1>5. None \in Times /\ 0 \in Nat /\ mark \in RequestMark
    BY Zenon, <1>2 DEF Times, mark
  <1> QED
    BY SMTT(40), <1>1, <1>3, <1>4, <1>5 DEF PostRow, r

(* create_post: a draft, for a key that has no post yet *)
LEMMA CreatePostKeeps ==
    ASSUME PostQueueInv, NEW k \in Keys, NEW channel \in Channels, CreatePost(k, channel)
    PROVE  PostQueueInv'
  <1> DEFINE row == NewPost(k, sent[k], channel, "draft", FALSE, now, None)
  <1>1. /\ sent[k] # None /\ sent[k].op = "create"
        /\ UNCHANGED <<now, ready, enabled, switches, sent, conn>>
    BY Zenon DEF CreatePost
  <1>2. CASE Refused \/ Replayed
    BY Zenon, <1>1, <1>2, AnswerStep
  <1>3. CASE /\ Created(k) = {} /\ NewId \in Posts /\ post' = [post EXCEPT ![NewId] = row]
             /\ Apply(k) /\ UNCHANGED <<job, conflicts, explicit>>
    <2>1. row \in PostRow /\ row.request[1] = k /\ row.state = "draft"
      <3>1. TypeOK /\ now \in Nat /\ sent[k].op \in Making
        BY Zenon, <1>1 DEF PostQueueInv, TypeOK, Making
      <3>2. PICK evidence \in BOOLEAN : evidence = FALSE
        BY Zenon
      <3>3. PICK state \in {"draft", "queued"} : state = "draft"
        BY Zenon
      <3>4. PICK slot \in Times : slot = None
        BY Zenon DEF Times
      <3>5. PICK when \in Int : when = now
        BY <3>1
      <3>6. row = NewPost(k, sent[k], channel, state, evidence, when, slot)
        BY Zenon, <3>2, <3>3, <3>4, <3>5
      <3> HIDE DEF row
      <3>7. row \in PostRow /\ row.request[1] = k /\ row.state = state
        BY <1>1, <3>1, <3>6, NewRow
      <3> QED
        BY Zenon, <3>3, <3>7
    <2> HIDE DEF row
    <2>2. ASSUME NEW d \in Conns PROVE conn'[d] = conn[d] /\ (~At(d, "idle") => conn[d].key # k)
      <3>1. ~At(d, "idle") => sent[conn[d].key].op \in {"intent", "materialize"}
        BY Zenon DEF PostQueueInv, ConnInv
      <3> QED
        BY Zenon, <1>1, <3>1
    <2>3. /\ job' \in [Posts -> {"none", "queued", "running", "failed", "done", "cancelled"}]
          /\ conn' \in [Conns -> [pc : {"idle", "media", "share", "channel"},
                                  key : Keys \cup {None}, channel : Channels \cup {None}]]
      BY Zenon, <1>1, <1>3 DEF PostQueueInv, TypeOK
    <2>4. sent[k].op \in Making /\ row.state \notin {"queued", "sending"}
      BY Zenon, <1>1, <2>1 DEF Making
    <2> QED
      BY Zenon, <1>1, <1>3, <2>1, <2>2, <2>3, <2>4, MakingStep
  <1> QED
    BY Zenon, <1>2, <1>3 DEF CreatePost, CreatePostIdempotent

(* Connections change, and nothing else. *)
LEMMA ConnStep ==
    ASSUME PostQueueInv, NEW c \in Conns,
           NEW new \in [pc : {"idle", "media", "share", "channel"},
                        key : Keys \cup {None}, channel : Channels \cup {None}],
           conn' = [conn EXCEPT ![c] = new],
           UNCHANGED <<now, ready, enabled, switches, queue, sent, history>>,
           new.pc # "idle" =>
              /\ new.key \in Keys /\ sent[new.key] # None
              /\ sent[new.key].op \in {"intent", "materialize"} /\ Created(new.key) = {}
              /\ new.pc = "channel" /\ sent[new.key].op = "intent" => new.channel \in Channels
              /\ \A d \in Conns \ {c} : conn[d].key # new.key \/ At(d, "idle")
    PROVE  PostQueueInv'
  <1>1. conn'[c] = new /\ \A d \in Conns : d # c => conn'[d] = conn[d]
    BY Zenon DEF PostQueueInv, TypeOK
  <1>2. UNCHANGED <<post, job, applied, conflicts, explicit>>
    BY Zenon DEF queue, history
  <1>3. TypeOK'
    BY Zenon, <1>2 DEF PostQueueInv, TypeOK
  <1>4. Present' = Present /\ \A k : {p \in Present' : post'[p].request[1] = k} = Created(k)
    BY Zenon, <1>2 DEF Present, Created
  <1>5. ConnInv'
    <2>1. ASSUME NEW d \in Conns, conn'[d].pc # "idle"
          PROVE  /\ conn'[d].key \in Keys /\ sent[conn'[d].key] # None
                 /\ sent[conn'[d].key].op \in {"intent", "materialize"}
                 /\ Created(conn'[d].key) = {}
                 /\ conn'[d].pc = "channel" /\ sent[conn'[d].key].op = "intent"
                       => conn'[d].channel \in Channels
      <3>1. CASE d = c
        BY Zenon, <1>1, <2>1, <3>1
      <3>2. CASE d # c
        BY SMTT(40), <1>1, <2>1, <3>2 DEF PostQueueInv, ConnInv, At
      <3> QED
        BY ZenonT(40), <3>1, <3>2
    <2>2. ASSUME NEW d \in Conns, NEW e \in Conns, d # e, conn'[d].pc # "idle", conn'[e].pc # "idle"
          PROVE  conn'[d].key # conn'[e].key
      <3>1. CASE d # c /\ e # c
        BY SMTT(40), <1>1, <2>2, <3>1 DEF PostQueueInv, ConnInv, At
      <3>2. CASE d = c \/ e = c
        BY SMTT(40), <1>1, <2>2, <3>2 DEF At
      <3> QED
        BY Zenon, <3>1, <3>2
    <2>3. \A d \in Conns : Created(conn[d].key)' = Created(conn'[d].key)
      BY Zenon, <1>4 DEF Created
    <2> QED
      BY SMTT(40), <2>1, <2>2, <2>3 DEF ConnInv, At
  <1> QED
    BY ZenonT(40), <1>2, <1>3, <1>5
       DEF PostQueueInv, PresentInv, AppliedInv, SlotsDisjoint, NoSilentRepeat,
       Present, Created, Spent, Active

(* A connection without a transaction *)
LEMMA IdleConn ==
    Idle \in [pc : {"idle", "media", "share", "channel"},
              key : Keys \cup {None}, channel : Channels \cup {None}] /\ Idle.pc = "idle"
  BY Zenon DEF Idle

(* The first step of an intent or of materialize_ingest: the key is locked *)
LEMMA BeginKeeps ==
    ASSUME PostQueueInv, NEW c \in Conns, NEW k \in Keys,
           CreateMediaPublicationIntent(c, k) \/ MaterializeIngest(c, k)
    PROVE  PostQueueInv'
  <1> DEFINE new == [pc |-> "media", key |-> k, channel |-> None]
  <1>1. /\ sent[k] # None /\ sent[k].op \in {"intent", "materialize"}
        /\ UNCHANGED <<now, ready, enabled, switches, sent>>
        /\ Begin(c, k) \/ (Refused /\ UNCHANGED conn)
    BY Zenon DEF CreateMediaPublicationIntent, MaterializeIngest
  <1>2. CASE UNCHANGED <<queue, history, conn>>
    BY Zenon, <1>1, <1>2, AnswerStep DEF Refused
  <1>3. CASE /\ ~KeyLocked(k) /\ Created(k) = {} /\ conn' = [conn EXCEPT ![c] = new]
             /\ UNCHANGED <<queue, history>>
    <2>1. /\ new \in [pc : {"idle", "media", "share", "channel"},
                      key : Keys \cup {None}, channel : Channels \cup {None}]
          /\ new.key = k /\ new.pc = "media"
      BY Zenon
    <2> HIDE DEF new
    <2>2. \A d \in Conns \ {c} : conn[d].key # new.key
      BY Zenon, <1>3, <2>1 DEF KeyLocked
    <2> QED
      BY Zenon, <1>1, <1>3, <2>1, <2>2, ConnStep
  <1> QED
    BY Zenon, <1>1, <1>2, <1>3 DEF Begin, Refused, Replayed

(* A transaction that ends without a post *)
LEMMA LeaveKeeps ==
    ASSUME PostQueueInv, NEW c \in Conns, Leave(c),
           UNCHANGED <<now, ready, enabled, switches, queue, sent, history>>
    PROVE  PostQueueInv'
  BY Zenon, IdleConn, ConnStep DEF Leave

(* lock_media_state, single_enabled_channel, and the victim of a deadlock *)
LEMMA LocksKeep ==
    ASSUME PostQueueInv, NEW c \in Conns, LockMedia(c) \/ ShareChannel(c) \/ AbortDeadlock(c)
    PROVE  PostQueueInv'
  <1>1. UNCHANGED <<now, ready, enabled, switches, queue, sent, history>>
    BY Zenon DEF LockMedia, ShareChannel, AbortDeadlock
  <1>2. CASE Leave(c)
    BY Zenon, <1>1, <1>2, LeaveKeeps
  <1>3. conn[c] \in [pc : {"idle", "media", "share", "channel"},
                     key : Keys \cup {None}, channel : Channels \cup {None}]
    BY Zenon DEF PostQueueInv, TypeOK
  <1>4. ASSUME ~At(c, "idle"), NEW new, conn' = [conn EXCEPT ![c] = new],
               new \in [pc : {"idle", "media", "share", "channel"},
                        key : Keys \cup {None}, channel : Channels \cup {None}],
               new.key = conn[c].key,
               new.pc = "channel" /\ sent[conn[c].key].op = "intent" => new.channel \in Channels
        PROVE  PostQueueInv'
    <2>1. /\ conn[c].key \in Keys /\ sent[conn[c].key] # None
          /\ sent[conn[c].key].op \in {"intent", "materialize"} /\ Created(conn[c].key) = {}
          /\ \A d \in Conns \ {c} : conn[d].key # conn[c].key \/ At(d, "idle")
      BY ZenonT(40), <1>4 DEF PostQueueInv, ConnInv
    <2> QED
      BY Zenon, <1>1, <1>4, <2>1, ConnStep
  <1>5. CASE LockMedia(c) /\ ~Leave(c)
    <2> DEFINE pc == IF sent[conn[c].key].op = "intent" THEN "share" ELSE "channel"
               new == [conn[c] EXCEPT !.pc = pc]
    <2>1. conn' = [conn EXCEPT ![c] = new] /\ ~At(c, "idle")
      BY Zenon, <1>5 DEF LockMedia, At
    <2>2. pc \in {"share", "channel"} /\ (pc = "channel" => sent[conn[c].key].op # "intent")
      BY Zenon
    <2> HIDE DEF pc
    <2>3. /\ new \in [pc : {"idle", "media", "share", "channel"},
                      key : Keys \cup {None}, channel : Channels \cup {None}]
          /\ new.key = conn[c].key /\ new.pc = pc
      BY Zenon, <1>3, <2>2
    <2> HIDE DEF new
    <2> QED
      BY ZenonT(40), <1>4, <2>1, <2>2, <2>3
  <1>6. CASE ShareChannel(c) /\ ~Leave(c)
    <2>1. PICK channel \in enabled :
              conn' = [conn EXCEPT ![c] = [conn[c] EXCEPT !.pc = "channel", !.channel = channel]]
      BY Zenon, <1>6 DEF ShareChannel, EnabledCandidates
    <2>2. channel \in Channels /\ ~At(c, "idle")
      BY Zenon, <1>6, <2>1 DEF PostQueueInv, TypeOK, ShareChannel, At
    <2> DEFINE new == [conn[c] EXCEPT !.pc = "channel", !.channel = channel]
    <2>3. /\ new \in [pc : {"idle", "media", "share", "channel"},
                      key : Keys \cup {None}, channel : Channels \cup {None}]
          /\ new.key = conn[c].key /\ new.channel = channel
      BY ZenonT(40), <1>3, <2>2
    <2>4. conn' = [conn EXCEPT ![c] = new]
      BY Zenon, <2>1
    <2> HIDE DEF new
    <2> QED
      BY Zenon, <1>4, <2>2, <2>3, <2>4
  <1> QED
    BY Zenon, <1>2, <1>5, <1>6 DEF AbortDeadlock

(* insert_intended_post writes a draft, or a queued post without a conflict. *)
LEMMA IntendedRow ==
    ASSUME TypeOK, NEW k \in Keys, sent[k] # None, sent[k].op \in Making,
           NEW channel \in Channels, NEW at \in Int, InsertIntended(k, sent[k], channel, at)
    PROVE  \E row \in PostRow :
              /\ post' = [post EXCEPT ![NewId] = row]
              /\ row.request[1] = k /\ row.channel = channel /\ row.media = sent[k].media
              /\ \/ row.state = "draft"
                 \/ /\ RepeatConflicts(sent[k].media, at, NewId) = {}
                    /\ \/ row.slot = None
                       \/ row.slot = at /\ sent[k].action = "queue" /\ sent[k].at = None
  <1> DEFINE conflicting == RepeatConflicts(sent[k].media, at, NewId)
             asked == sent[k].action = "queue" /\ sent[k].at = None
  <1>1. PICK repeat \in BOOLEAN : repeat = (conflicting # {})
    BY Zenon
  <1>2. PICK slot \in Times : slot = IF ~repeat /\ asked THEN at ELSE None
    BY Zenon DEF Times
  <1>3. PICK state \in {"draft", "queued"} : state = IF repeat THEN "draft" ELSE "queued"
    BY Zenon
  <1>4. PICK row : row = NewPost(k, sent[k], channel, state, repeat, at, slot)
    BY Zenon
  <1>5. post' = [post EXCEPT ![NewId] = row]
    BY Zenon, <1>1, <1>2, <1>3, <1>4 DEF InsertIntended
  <1>6. /\ row \in PostRow /\ row.request[1] = k /\ row.state = state /\ row.slot = slot
        /\ row.channel = channel /\ row.media = sent[k].media
    BY <1>4, NewRow
  <1>7. \/ row.state = "draft"
        \/ conflicting = {} /\ (row.slot = None \/ (row.slot = at /\ asked))
    BY Zenon, <1>1, <1>2, <1>3, <1>6
  <1> QED
    BY Zenon, <1>5, <1>6, <1>7

(* ... under the locks of the key, the media and the channel *)
LEMMA InsertKeeps ==
    ASSUME PostQueueInv, NEW c \in Conns, NEW k \in Keys,
           sent[k] # None, sent[k].op \in Making, Created(k) = {},
           \A d \in Conns \ {c} : ~At(d, "idle") => conn[d].key # k,
           NEW channel \in Channels, NEW at \in Int, NewId \in Posts,
           InsertIntended(k, sent[k], channel, at), Leave(c),
           sent[k].action = "queue" /\ sent[k].at = None => at \notin Occupied(channel, NewId),
           UNCHANGED <<now, ready, enabled, switches, sent>>
    PROVE  PostQueueInv'
  <1> DEFINE conflicting == RepeatConflicts(sent[k].media, at, NewId)
  <1>1. TypeOK
    BY Zenon DEF PostQueueInv
  <1>2. PICK row \in PostRow :
            /\ post' = [post EXCEPT ![NewId] = row]
            /\ row.request[1] = k /\ row.channel = channel /\ row.media = sent[k].media
            /\ \/ row.state = "draft"
               \/ /\ conflicting = {}
                  /\ \/ row.slot = None
                     \/ row.slot = at /\ sent[k].action = "queue" /\ sent[k].at = None
    BY SMTT(40), <1>1, IntendedRow
  <1>3. /\ UNCHANGED job \/ job' = [job EXCEPT ![NewId] = "queued"]
        /\ Apply(k) /\ UNCHANGED <<conflicts, explicit>>
    BY Zenon DEF InsertIntended
  <1>4. job' \in [Posts -> {"none", "queued", "running", "failed", "done", "cancelled"}]
    BY Zenon, <1>1, <1>3 DEF TypeOK
  <1>5. /\ conn' \in [Conns -> [pc : {"idle", "media", "share", "channel"},
                                key : Keys \cup {None}, channel : Channels \cup {None}]]
        /\ \A d \in Conns : \/ conn'[d].pc = "idle"
                            \/ conn'[d] = conn[d] /\ (~At(d, "idle") => conn[d].key # k)
    BY Zenon, <1>1, IdleConn DEF TypeOK, Leave
  <1>6. conflicting = {} =>
            \A q \in Present \ {NewId} : Active(q) => post[q].media # row.media
    BY Zenon, <1>2 DEF RepeatConflicts
  <1>7. \/ row.state \notin {"queued", "sending"}
        \/ /\ row.slot = None \/ row.slot \notin Occupied(row.channel, NewId)
           /\ \A q \in Present \ {NewId} : Active(q) => post[q].media # row.media
    BY Zenon, <1>2, <1>6
  <1> QED
    BY Zenon, <1>2, <1>3, <1>4, <1>5, <1>7, MakingStep

(* lock_channel, and the post that is made under it or not at all *)
LEMMA LockChannelKeeps ==
    ASSUME PostQueueInv, NEW c \in Conns, LockChannel(c)
    PROVE  PostQueueInv'
  <1>1. At(c, "channel") /\ Leave(c) /\ UNCHANGED <<now, ready, enabled, switches, sent>>
        /\ NewId \in Posts
    BY Zenon DEF LockChannel
  <1>2. PICK k \in Keys : /\ k = conn[c].key /\ sent[k] # None /\ Created(k) = {}
                          /\ sent[k].op \in {"intent", "materialize"}
                          /\ sent[k].op = "intent" => conn[c].channel \in Channels
    BY Zenon, <1>1 DEF PostQueueInv, ConnInv, At
  <1>3. /\ sent[k].op \in Making
        /\ \A d \in Conns \ {c} : ~At(d, "idle") => conn[d].key # k
    BY Zenon, <1>1, <1>2 DEF PostQueueInv, ConnInv, At, Making
  <1>4. /\ sent[k].action \in Actions /\ sent[k].at \in Times /\ now \in Int
        /\ sent[k].op = "materialize" => sent[k].channel \in Channels
    <2>1. sent[k] \in Requests /\ now \in Nat
      BY Zenon, <1>2 DEF PostQueueInv, TypeOK
    <2>2. now \in Int
      BY SMTT(40), <2>1
    <2>3. sent[k].action \in Actions /\ sent[k].at \in Times
      BY Zenon, <1>2, <2>1 DEF Requests
    <2>4. sent[k].op = "materialize" => sent[k].channel \in Channels
      BY Zenon, <2>1 DEF Requests
    <2> QED
      BY Zenon, <2>2, <2>3, <2>4
  <1>5. PICK channel \in Channels :
            channel = IF sent[k].op = "intent" THEN conn[c].channel ELSE sent[k].channel
    BY Zenon, <1>2, <1>4
  <1> DEFINE slot == NextFreeSlot(channel, NewId, now)
  <1>6. slot # None => slot \in Int /\ slot \notin Occupied(channel, NewId)
    BY Zenon, <1>4, FreeSlot DEF PostQueueInv
  <1> HIDE DEF slot
  <1>7. CASE Refused
    BY Zenon, <1>1, <1>7, LeaveKeeps DEF Refused
  <1>8. CASE sent[k].action = "post_now" /\ InsertIntended(k, sent[k], channel, now)
    BY Zenon, <1>1, <1>2, <1>3, <1>4, <1>8, InsertKeeps
  <1>9. CASE sent[k].at = None /\ slot # None /\ InsertIntended(k, sent[k], channel, slot)
    BY ZenonT(40), <1>1, <1>2, <1>3, <1>6, <1>9, InsertKeeps
  <1>10. CASE sent[k].at # None /\ InsertIntended(k, sent[k], channel, sent[k].at)
    <2>1. sent[k].at \in Int
      BY Zenon, <1>4, <1>10 DEF Times
    <2> QED
      BY Zenon, <1>1, <1>2, <1>3, <1>10, <2>1, InsertKeeps
  <1>11. \/ Refused
         \/ sent[k].action = "post_now" /\ InsertIntended(k, sent[k], channel, now)
         \/ sent[k].at = None /\ slot # None /\ InsertIntended(k, sent[k], channel, slot)
         \/ sent[k].at # None /\ InsertIntended(k, sent[k], channel, sent[k].at)
    BY ZenonT(40), <1>2, <1>4, <1>5 DEF LockChannel, Actions, slot
  <1> QED
    BY Zenon, <1>7, <1>8, <1>9, <1>10, <1>11

(* A client sends, and the world goes on. *)
LEMMA SendKeeps ==
    ASSUME PostQueueInv, NEW k \in Keys, Send(k)
    PROVE  PostQueueInv'
  <1>1. PICK r \in Menu(k) :
            /\ r.op \notin Making => r.post \in Present
            /\ sent' = [sent EXCEPT ![k] = r]
    BY ZenonT(40) DEF Send, Making
  <1>2. r \in Requests /\ r # None
    BY Zenon, <1>1, PostQueueAssumption
  <1>3. /\ sent[k] = None
        /\ UNCHANGED <<now, ready, enabled, switches, post, job, conn, applied, conflicts, explicit>>
    BY Zenon DEF Send, queue, history
  <1>4. sent'[k] = r /\ \A j \in Keys : j # k => sent'[j] = sent[j]
    BY Zenon, <1>1 DEF PostQueueInv, TypeOK
  <1>5. TypeOK'
    BY Zenon, <1>1, <1>2, <1>3 DEF PostQueueInv, TypeOK
  <1>6. Present' = Present /\ \A j : Created(j)' = Created(j)
    BY Zenon, <1>3 DEF Present, Created
  <1>7. PresentInv'
    BY Zenon, <1>1, <1>3, <1>4, <1>6 DEF PostQueueInv, PresentInv
  <1>8. AppliedInv'
    <2>1. ASSUME NEW j \in Keys, Spent(j) PROVE Spent(j)'
      <3>1. sent'[j] = sent[j]
        BY Zenon, <1>3, <1>4, <2>1 DEF Spent
      <3> QED
        BY Zenon, <1>3, <1>6, <2>1, <3>1 DEF Spent
    <2> QED
      BY Zenon, <1>3, <2>1 DEF PostQueueInv, AppliedInv
  <1>9. ConnInv'
    <2>1. ASSUME NEW c \in Conns, ~At(c, "idle") PROVE sent'[conn[c].key] = sent[conn[c].key]
      BY Zenon, <1>3, <1>4, <2>1 DEF PostQueueInv, ConnInv
    <2> QED
      BY ZenonT(40), <1>3, <2>1 DEF PostQueueInv, ConnInv, At, Created, Present
  <1> QED
    BY SMTT(40), <1>3, <1>5, <1>6, <1>7, <1>8, <1>9
       DEF PostQueueInv, SlotsDisjoint, NoSilentRepeat, Active

(* Time, media and channels change around the queue. *)
LEMMA WorldKeeps ==
    ASSUME PostQueueInv,
           \/ Tick
           \/ \E m \in Media : StoreMedia(m)
           \/ \E channel \in Channels : UpdateChannel(channel)
    PROVE  PostQueueInv'
  <1>1. UNCHANGED <<post, job, sent, conn, applied, conflicts, explicit>>
    BY Zenon DEF Tick, StoreMedia, UpdateChannel, queue, history
  <1>2. now' \in Nat /\ switches' \in Nat /\ ready' \subseteq Media /\ enabled' \subseteq Channels
    BY SMTT(40) DEF Tick, StoreMedia, UpdateChannel, PostQueueInv, TypeOK
  <1>3. TypeOK'
    BY Zenon, <1>1, <1>2 DEF PostQueueInv, TypeOK
  <1> QED
    BY Zenon, <1>1, <1>3, QueueUntouched DEF queue

-----------------------------------------------------------------------------
(* The invariant and what follows from it *)

(* The queue starts empty, with no request sent and every connection idle. *)
LEMMA PostQueueInvInit == Init => PostQueueInv
  <1> SUFFICES ASSUME Init PROVE PostQueueInv
    BY Zenon
  <1>1. Present = {}
    BY Zenon DEF Init, Present
  <1>2. TypeOK
    <2>1. Idle \in [pc : {"idle", "media", "share", "channel"},
                    key : Keys \cup {None}, channel : Channels \cup {None}]
      BY Zenon DEF Idle
    <2> QED
      BY <2>1 DEF Init, TypeOK
  <1>3. PresentInv
    <2>1. Cardinality(Posts) \in Nat
      BY Zenon, PostQueueAssumption, FS_CardinalityType
    <2>2. 0 \in 0 .. Cardinality(Posts) /\ Present = 1 .. 0
      BY <1>1, <2>1
    <2> QED
      BY Zenon, <2>2 DEF Init, PresentInv
  <1>4. AppliedInv
    BY Zenon DEF Init, AppliedInv
  <1>5. ConnInv
    BY Zenon DEF Init, ConnInv, At, Idle
  <1> QED
    BY Zenon, <1>1, <1>2, <1>3, <1>4, <1>5 DEF PostQueueInv, SlotsDisjoint, NoSilentRepeat

(* Every request, every lock taken and every step of the worker preserve   *)
(* the invariant.                                                          *)
LEMMA PostQueueInvNext == PostQueueInv /\ [Next]_vars => PostQueueInv'
  <1> SUFFICES ASSUME PostQueueInv, [Next]_vars PROVE PostQueueInv'
    BY Zenon
  <1>1. CASE \E k \in Keys : Send(k)
    BY Zenon, <1>1, SendKeeps
  <1>2. CASE \E k \in Keys, channel \in Channels : CreatePost(k, channel)
    BY Zenon, <1>2, CreatePostKeeps
  <1>3. CASE \E c \in Conns, k \in Keys :
                CreateMediaPublicationIntent(c, k) \/ MaterializeIngest(c, k)
    BY Zenon, <1>3, BeginKeeps
  <1>4. CASE \E c \in Conns : Step(c) \/ AbortDeadlock(c)
    BY Zenon, <1>4, LocksKeep, LockChannelKeeps DEF Step
  <1>5. CASE \E k \in Keys, p \in Present :
                \/ SchedulePost(k, p) \/ SchedulePostExact(k, p) \/ PublishNow(k, p)
                \/ DecidePost(k, p) \/ CancelPost(k, p) \/ UpdatePost(k, p)
    BY Zenon, <1>5, SchedulePostKeeps, SchedulePostExactKeeps, PublishNowKeeps, DecidePostKeeps,
       CancelPostKeeps, UpdatePostKeeps
  <1>6. CASE \E p \in Posts : ClaimJob(p) \/ ClaimPublish(p) \/ FinishPublish(p)
    BY Zenon, <1>6, WorkerKeeps
  <1>7. CASE \/ Tick
             \/ \E m \in Media : StoreMedia(m)
             \/ \E channel \in Channels : UpdateChannel(channel)
    BY Zenon, <1>7, WorldKeeps
  <1>8. CASE UNCHANGED vars
    <2>1. UNCHANGED <<now, ready, enabled, switches, post, job, sent, conn,
                      applied, conflicts, explicit>>
      BY Zenon, <1>8 DEF vars, queue, history
    <2>2. TypeOK'
      BY Zenon, <2>1 DEF PostQueueInv, TypeOK
    <2> QED
      BY Zenon, <2>1, <2>2, QueueUntouched DEF queue
  <1> QED
    BY Zenon, <1>1, <1>2, <1>3, <1>4, <1>5, <1>6, <1>7, <1>8 DEF Next

(* In every reachable state the rows, jobs, requests and connections have  *)
(* their types, the posts are numbered without a gap, a request that took  *)
(* effect is spent, and a connection that holds locks serves an intent     *)
(* without a post, which no other connection serves.                       *)
THEOREM PostQueueInvariant == Spec => []PostQueueInv
  BY PostQueueInvInit, PostQueueInvNext, PTL DEF Spec

(* However the transactions of schedule_post, decide_post,                 *)
(* create_publication_intent, materialize_ingest and the worker            *)
(* interleave, no two posts that are queued or being sent get the same     *)
(* cadence slot of a channel.                                              *)
THEOREM SlotsNeverShared == Spec => []SlotsDisjoint
  <1>1. PostQueueInv => SlotsDisjoint
    BY Zenon DEF PostQueueInv
  <1> QED
    BY <1>1, PostQueueInvariant, PTL

(* The media of a post on its way is queued a second time only when        *)
(* somebody scheduled or decided one of the two: insert_intended_post      *)
(* misses no repeat.                                                       *)
THEOREM RepeatsAreAsked == Spec => []NoSilentRepeat
  <1>1. PostQueueInv => NoSilentRepeat
    BY Zenon DEF PostQueueInv
  <1> QED
    BY <1>1, PostQueueInvariant, PTL

(* A request takes effect at most once, whatever its redeliveries meet: it *)
(* is the expected revision, or the post made for its key, that stops      *)
(* them, since the marks of a post remember only the last command.         *)
THEOREM AppliedOncePerKey == Spec => []OncePerKey
  <1>1. PostQueueInv => OncePerKey
    BY DEF PostQueueInv, TypeOK, AppliedInv, OncePerKey
  <1> QED
    BY <1>1, PostQueueInvariant, PTL
=============================================================================
