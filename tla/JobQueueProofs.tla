---------------------------- MODULE JobQueueProofs ----------------------------
(***************************************************************************)
(* Proofs about JobQueue for any number of jobs, workers, attempts and     *)
(* stops, and any assignment of handlers.                                  *)
(***************************************************************************)
EXTENDS JobQueue, SequenceTheorems, FiniteSetTheorems, TLAPS

States == {"queued", "running", "succeeded", "failed"}
Busy == {"work", "complete", "confirm", "finish", "settle", "requeued"}
Places == Busy \cup {"down", "recover", "poll"}
AllResults == Results \cup Refunding \cup {"worker_shutdown", None}

(* The types of the rows ... *)
RowTypes ==
    /\ state \in [Jobs -> States]
    /\ attempt \in [Jobs -> Nat]
    /\ holder \in [Jobs -> Workers \cup {None}]
    /\ expired \in [Jobs -> BOOLEAN]
    /\ ran \in [Jobs -> BOOLEAN]

(* ... and of the workers. *)
WorkerTypes ==
    /\ pc \in [Workers -> Places]
    /\ task \in [Workers -> Jobs \cup {None}]
    /\ result \in [Workers -> AllResults]
    /\ last \in [Workers -> BOOLEAN]
    /\ beat \in [Workers -> {"off", "on", "sent", "failed"}]
    /\ scan \in [Workers -> SUBSET Jobs]

(* A busy worker has a job; only a result for reconciliation is finished   *)
(* without a statement; a heartbeat is under way only while the handler    *)
(* runs; and a worker about to complete a job that it still holds has run  *)
(* the handler of that very claim.                                         *)
WorkersInv ==
    \A w \in Workers :
        /\ pc[w] \in Busy => task[w] \in Jobs
        /\ pc[w] = "finish" => result[w] = "reconcile"
        /\ beat[w] = "sent" => pc[w] = "work"
        /\ pc[w] = "complete" /\ holder[task[w]] = w => ran[task[w]]

(* The lease columns follow the state, a running job has used an attempt,  *)
(* a queued one has one left, no job exceeds its budget, and a job         *)
(* succeeds by its newest claim.                                           *)
RowsInv ==
    \A j \in Jobs :
        /\ holder[j] # None <=> state[j] = "running"
        /\ state[j] = "running" => attempt[j] >= 1
        /\ state[j] = "queued" => attempt[j] < MaxAttempts[j]
        /\ attempt[j] <= MaxAttempts[j]
        /\ state[j] = "succeeded" => ran[j]

(* s holds the members of Q, each once. *)
Lists(s, Q) ==
    /\ s \in Seq(Jobs)
    /\ \A k \in 1 .. Len(s) : s[k] \in Q
    /\ \A k, l \in 1 .. Len(s) : s[k] = s[l] => k = l
    /\ \A j \in Q : \E k \in 1 .. Len(s) : s[k] = j

Queued == {j \in Jobs : state[j] = "queued"}

(* The queue holds the queued jobs. *)
QueueInv ==
    /\ Lists(waiting, Queued)
    /\ due \in 0 .. Len(waiting)

(* The inductive invariant. *)
QInv == RowTypes /\ WorkerTypes /\ WorkersInv /\ RowsInv /\ QueueInv

-----------------------------------------------------------------------------
(* What InsertAt and RemoveAt do to a sequence. *)
LEMMA InsertAtProperties ==
    ASSUME NEW S, NEW s \in Seq(S), NEW e \in S, NEW k \in 1 .. Len(s) + 1
    PROVE  /\ InsertAt(s, k, e) \in Seq(S)
           /\ Len(InsertAt(s, k, e)) = Len(s) + 1
           /\ \A i \in 1 .. Len(s) + 1 :
                 InsertAt(s, k, e)[i] = IF i < k THEN s[i] ELSE IF i = k THEN e ELSE s[i - 1]
  <1>1. SubSeq(s, 1, k - 1) \in Seq(S) /\ Len(SubSeq(s, 1, k - 1)) = k - 1
        /\ \A i \in 1 .. k - 1 : SubSeq(s, 1, k - 1)[i] = s[i]
    BY SMTT(60)
  <1>2. SubSeq(s, k, Len(s)) \in Seq(S) /\ Len(SubSeq(s, k, Len(s))) = Len(s) - k + 1
        /\ \A i \in 1 .. Len(s) - k + 1 : SubSeq(s, k, Len(s))[i] = s[k + i - 1]
    BY SMTT(60)
  <1> DEFINE front == SubSeq(s, 1, k - 1)
             back == SubSeq(s, k, Len(s))
  <1> HIDE DEF front, back
  <1>3. InsertAt(s, k, e) = front \o <<e>> \o back
    BY Zenon DEF InsertAt, front, back
  <1>4. front \in Seq(S) /\ Len(front) = k - 1 /\ \A i \in 1 .. k - 1 : front[i] = s[i]
    BY Zenon, <1>1 DEF front
  <1>5. back \in Seq(S) /\ Len(back) = Len(s) - k + 1 /\ \A i \in 1 .. Len(s) - k + 1 : back[i] = s[k + i - 1]
    BY Zenon, <1>2 DEF back
  <1>6. <<e>> \in Seq(S) /\ Len(<<e>>) = 1 /\ <<e>>[1] = e
    BY SMTT(60)
  <1> DEFINE one == <<e>>
             both == front \o one
             all == both \o back
  <1> HIDE DEF one
  <1>7. both \in Seq(S) /\ Len(both) = k /\ \A i \in 1 .. k : both[i] = IF i <= k - 1 THEN front[i] ELSE one[i - (k - 1)]
    <2>1. /\ both \in Seq(S) /\ Len(both) = Len(front) + Len(one)
          /\ \A i \in 1 .. Len(front) + Len(one) : both[i] = IF i <= Len(front) THEN front[i] ELSE one[i - Len(front)]
      BY Zenon, <1>4, <1>6, ConcatProperties DEF one
    <2>2. Len(one) = 1 /\ k - 1 + 1 = k
      BY <1>6 DEF one
    <2> QED
      BY <2>1, <2>2, <1>4, Zenon
  <1> HIDE DEF both
  <1>8. all \in Seq(S) /\ Len(all) = Len(s) + 1 /\ \A i \in 1 .. Len(s) + 1 : all[i] = IF i <= k THEN both[i] ELSE back[i - k]
    <2>1. /\ all \in Seq(S) /\ Len(all) = Len(both) + Len(back)
          /\ \A i \in 1 .. Len(both) + Len(back) : all[i] = IF i <= Len(both) THEN both[i] ELSE back[i - Len(both)]
      BY SMTT(40), <1>5, <1>7, ConcatProperties
    <2>2. Len(both) + Len(back) = Len(s) + 1
      BY <1>5, <1>7, SMTT(60)
    <2> QED
      BY Zenon, <2>1, <2>2, <1>7
  <1>9. InsertAt(s, k, e) = all
    BY Zenon, <1>3 DEF both, one
  <1> HIDE DEF all
  <1>10. one[1] = e
    BY Zenon, <1>6 DEF one
  <1>11. ASSUME NEW i \in 1 .. Len(s) + 1
         PROVE  all[i] = IF i < k THEN s[i] ELSE IF i = k THEN e ELSE s[i - 1]
    <2>1. CASE i < k
      <3>1. all[i] = both[i] /\ both[i] = front[i] /\ front[i] = s[i]
        BY <2>1, <1>8, <1>7, <1>4, SMTT(60)
      <3> QED
        BY Zenon, <2>1, <3>1
    <2>2. CASE i = k
      <3>1. all[i] = both[i] /\ both[i] = one[1]
        BY <2>2, <1>8, <1>7, SMTT(60)
      <3> QED
        BY <2>2, <3>1, <1>10
    <2>3. CASE i > k
      <3>1. all[i] = back[i - k] /\ i - k \in 1 .. Len(s) - k + 1 /\ k + (i - k) - 1 = i - 1
        BY <2>3, <1>8, SMTT(60)
      <3>2. back[i - k] = s[i - 1]
        BY Zenon, <3>1, <1>5
      <3> QED
        BY SMTT(40), <2>3, <3>1, <3>2
    <2> QED
      BY <2>1, <2>2, <2>3
  <1> QED
    BY Zenon, <1>8, <1>9, <1>11

LEMMA RemoveAtProperties ==
    ASSUME NEW S, NEW s \in Seq(S), NEW k \in 1 .. Len(s)
    PROVE  /\ RemoveAt(s, k) \in Seq(S)
           /\ Len(RemoveAt(s, k)) = Len(s) - 1
           /\ \A i \in 1 .. Len(s) - 1 : RemoveAt(s, k)[i] = IF i < k THEN s[i] ELSE s[i + 1]
  <1> DEFINE front == SubSeq(s, 1, k - 1)
             back == SubSeq(s, k + 1, Len(s))
  <1>1. front \in Seq(S) /\ Len(front) = k - 1 /\ \A i \in 1 .. k - 1 : front[i] = s[i]
    BY SMTT(60)
  <1>2. back \in Seq(S) /\ Len(back) = Len(s) - k /\ \A i \in 1 .. Len(s) - k : back[i] = s[k + i]
    BY SMTT(60)
  <1>3. RemoveAt(s, k) = front \o back
    BY Zenon DEF RemoveAt
  <1> DEFINE all == front \o back
  <1> HIDE DEF front, back
  <1>4. all \in Seq(S) /\ Len(all) = Len(s) - 1 /\ \A i \in 1 .. Len(s) - 1 : all[i] = IF i <= k - 1 THEN front[i] ELSE back[i - (k - 1)]
    <2>1. /\ all \in Seq(S) /\ Len(all) = Len(front) + Len(back)
          /\ \A i \in 1 .. Len(front) + Len(back) : all[i] = IF i <= Len(front) THEN front[i] ELSE back[i - Len(front)]
      BY <1>1, <1>2, ConcatProperties, Zenon
    <2>2. Len(front) + Len(back) = Len(s) - 1
      BY <1>1, <1>2, SMTT(60)
    <2> QED
      BY Zenon, <2>1, <2>2, <1>1
  <1> HIDE DEF all
  <1>5. ASSUME NEW i \in 1 .. Len(s) - 1 PROVE all[i] = IF i < k THEN s[i] ELSE s[i + 1]
    <2>1. CASE i < k
      <3>1. all[i] = front[i] /\ front[i] = s[i]
        BY <2>1, <1>4, <1>1, SMTT(60)
      <3> QED
        BY Zenon, <2>1, <3>1
    <2>2. CASE i >= k
      <3>1. all[i] = back[i - (k - 1)] /\ i - (k - 1) \in 1 .. Len(s) - k /\ k + (i - (k - 1)) = i + 1
        BY <2>2, <1>4, SMTT(60)
      <3>2. back[i - (k - 1)] = s[i + 1]
        BY Zenon, <3>1, <1>2
      <3> QED
        BY <2>2, <3>1, <3>2
    <2> QED
      BY <2>1, <2>2
  <1> QED
    BY Zenon, <1>3, <1>4, <1>5 DEF all

-----------------------------------------------------------------------------
(* A list with a new member ... *)
LEMMA ListsInserted ==
    ASSUME NEW Q \in SUBSET Jobs, NEW s, Lists(s, Q), NEW j \in Jobs \ Q, NEW k \in 1 .. Len(s) + 1
    PROVE  /\ Lists(InsertAt(s, k, j), Q \cup {j})
           /\ Len(InsertAt(s, k, j)) = Len(s) + 1
  <1> DEFINE t == InsertAt(s, k, j)
  <1>1. /\ s \in Seq(Jobs) /\ Len(s) \in Nat
        /\ \A i \in 1 .. Len(s) : s[i] \in Q
        /\ \A i, l \in 1 .. Len(s) : s[i] = s[l] => i = l
        /\ \A x \in Q : \E i \in 1 .. Len(s) : s[i] = x
    BY DEF Lists
  <1>2. /\ t \in Seq(Jobs) /\ Len(t) = Len(s) + 1
        /\ \A i \in 1 .. Len(s) + 1 : t[i] = IF i < k THEN s[i] ELSE IF i = k THEN j ELSE s[i - 1]
    BY <1>1, InsertAtProperties
  <1> HIDE DEF t
  <1> DEFINE from(i) == IF i < k THEN i ELSE i - 1
  <1>3. ASSUME NEW i \in 1 .. Len(s) + 1, i # k
        PROVE  from(i) \in 1 .. Len(s) /\ t[i] = s[from(i)]
    BY SMTT(40), <1>3, <1>1, <1>2
  <1>4. t[k] = j
    BY <1>1, <1>2
  <1>5. \A i \in 1 .. Len(t) : t[i] \in Q \cup {j}
    BY <1>1, <1>2, <1>3, <1>4, Zenon
  <1>6. ASSUME NEW i \in 1 .. Len(t), NEW l \in 1 .. Len(t), t[i] = t[l] PROVE i = l
    <2>1. CASE i = k /\ l # k
      BY <2>1, <1>6, <1>1, <1>2, <1>3, <1>4, ZenonT(40)
    <2>2. CASE i # k /\ l = k
      BY SMTT(40), <2>2, <1>6, <1>1, <1>2, <1>3, <1>4
    <2>3. CASE i # k /\ l # k
      <3>1. from(i) = from(l)
        BY SMTT(40), <2>3, <1>6, <1>1, <1>2, <1>3
      <3> QED
        BY SMTT(40), <3>1, <2>3, <1>1, <1>2
    <2> QED
      BY Zenon, <2>1, <2>2, <2>3
  <1>7. ASSUME NEW x \in Q \cup {j} PROVE \E i \in 1 .. Len(t) : t[i] = x
    <2>1. CASE x = j
      BY Zenon, <2>1, <1>1, <1>2, <1>4
    <2>2. CASE x \in Q
      <3>1. PICK l \in 1 .. Len(s) : s[l] = x
        BY Zenon, <2>2, <1>1
      <3>2. CASE l < k
        BY SMTT(40), <3>1, <3>2, <1>1, <1>2
      <3>3. CASE l >= k
        <4>1. l + 1 \in 1 .. Len(t) /\ l + 1 > k /\ l + 1 - 1 = l
          BY <3>3, <1>1, <1>2
        <4>2. t[l + 1] = s[from(l + 1)] /\ from(l + 1) = l
          BY <3>3, <4>1, <1>1, <1>2, <1>3
        <4> QED
          BY Zenon, <3>1, <4>1, <4>2
      <3> QED
        BY <3>2, <3>3, <1>1
    <2> QED
      BY Zenon, <2>1, <2>2
  <1> QED
    BY Zenon, <1>2, <1>5, <1>6, <1>7 DEF Lists, t

(* ... and one without its k-th. *)
LEMMA ListsRemoved ==
    ASSUME NEW Q \in SUBSET Jobs, NEW s, Lists(s, Q), NEW k \in 1 .. Len(s)
    PROVE  /\ Lists(RemoveAt(s, k), Q \ {s[k]})
           /\ Len(RemoveAt(s, k)) = Len(s) - 1
  <1>0. s \in Seq(Jobs)
    BY Zenon DEF Lists
  <1> DEFINE t == RemoveAt(s, k)
  <1>1. /\ Len(s) \in Nat
        /\ \A i \in 1 .. Len(s) : s[i] \in Q
        /\ \A i, l \in 1 .. Len(s) : s[i] = s[l] => i = l
        /\ \A x \in Q : \E i \in 1 .. Len(s) : s[i] = x
    BY <1>0 DEF Lists
  <1>2. /\ t \in Seq(Jobs) /\ Len(t) = Len(s) - 1
        /\ \A i \in 1 .. Len(s) - 1 : t[i] = IF i < k THEN s[i] ELSE s[i + 1]
    BY <1>0, RemoveAtProperties
  <1> HIDE DEF t
  <1> DEFINE from(i) == IF i < k THEN i ELSE i + 1
  <1>3. ASSUME NEW i \in 1 .. Len(s) - 1
        PROVE  from(i) \in 1 .. Len(s) /\ from(i) # k /\ t[i] = s[from(i)]
    BY SMTT(40), <1>3, <1>1, <1>2
  <1>4. \A i \in 1 .. Len(t) : t[i] \in Q \ {s[k]}
    BY <1>1, <1>2, <1>3
  <1>5. ASSUME NEW i \in 1 .. Len(t), NEW l \in 1 .. Len(t), t[i] = t[l] PROVE i = l
    <2>1. from(i) = from(l)
      BY SMTT(40), <1>5, <1>1, <1>2, <1>3
    <2> QED
      BY SMTT(40), <2>1, <1>1, <1>2
  <1>6. ASSUME NEW x \in Q \ {s[k]} PROVE \E i \in 1 .. Len(t) : t[i] = x
    <2>1. PICK l \in 1 .. Len(s) : s[l] = x
      BY Zenon, <1>1
    <2>2. CASE l < k
      BY SMTT(40), <2>1, <2>2, <1>1, <1>2
    <2>3. CASE l > k
      <3>1. l - 1 \in 1 .. Len(t) /\ l - 1 >= k /\ l - 1 + 1 = l
        BY <2>3, <1>1, <1>2
      <3>2. t[l - 1] = s[from(l - 1)] /\ from(l - 1) = l
        BY SMTT(40), <2>3, <3>1, <1>1, <1>2, <1>3
      <3> QED
        BY Zenon, <2>1, <3>1, <3>2
    <2> QED
      BY <2>1, <2>2, <2>3, <1>1
  <1> QED
    BY Zenon, <1>2, <1>4, <1>5, <1>6 DEF Lists, t

-----------------------------------------------------------------------------
(* Steps that change neither a state nor an attempt nor a lease keep the   *)
(* rows and the queue in order.                                            *)
LEMMA RowsStay ==
    ASSUME QInv, UNCHANGED <<state, attempt, holder, waiting, due>>,
           expired' \in [Jobs -> BOOLEAN], ran' \in [Jobs -> BOOLEAN],
           \A j \in Jobs : ran[j] => ran'[j]
    PROVE  RowTypes' /\ RowsInv' /\ QueueInv'
  <1>1. RowTypes'
    BY Zenon DEF QInv, RowTypes
  <1>2. RowsInv'
    BY Zenon DEF QInv, RowsInv
  <1>3. QueueInv'
    BY Zenon DEF QInv, QueueInv, Queued
  <1> QED
    BY Zenon, <1>1, <1>2, <1>3

(* A running job that ends keeps them in order ... *)
LEMMA Ends ==
    ASSUME QInv, NEW j \in Jobs, state[j] = "running",
           NEW end \in {"succeeded", "failed"}, Ended(j, end),
           ran' \in [Jobs -> BOOLEAN], \A i \in Jobs : ran[i] => ran'[i],
           end = "succeeded" => ran'[j]
    PROVE  RowTypes' /\ RowsInv' /\ QueueInv'
  <1>0. /\ state \in [Jobs -> States] /\ holder \in [Jobs -> Workers \cup {None}]
        /\ expired \in [Jobs -> BOOLEAN] /\ attempt \in [Jobs -> Nat]
        /\ state' = [state EXCEPT ![j] = end]
        /\ holder' = [holder EXCEPT ![j] = None]
        /\ expired' = [expired EXCEPT ![j] = FALSE]
        /\ attempt' = attempt /\ waiting' = waiting /\ due' = due
    BY Zenon DEF QInv, RowTypes, Ended, Released
  <1>1. RowTypes'
    <2>1. state' \in [Jobs -> States]
      BY Zenon, <1>0 DEF States
    <2>2. holder' \in [Jobs -> Workers \cup {None}]
      BY Zenon, <1>0
    <2>3. expired' \in [Jobs -> BOOLEAN]
      BY Zenon, <1>0
    <2>4. attempt' \in [Jobs -> Nat]
      BY Zenon, <1>0
    <2> QED
      BY <2>1, <2>2, <2>3, <2>4, Zenon DEF RowTypes
  <1>2. ASSUME NEW i \in Jobs
        PROVE  /\ holder'[i] # None <=> state'[i] = "running"
               /\ state'[i] = "running" => attempt'[i] >= 1
               /\ state'[i] = "queued" => attempt'[i] < MaxAttempts[i]
               /\ attempt'[i] <= MaxAttempts[i]
               /\ state'[i] = "succeeded" => ran'[i]
    <2>1. /\ holder[i] # None <=> state[i] = "running"
          /\ state[i] = "running" => attempt[i] >= 1
          /\ state[i] = "queued" => attempt[i] < MaxAttempts[i]
          /\ attempt[i] <= MaxAttempts[i]
          /\ state[i] = "succeeded" => ran[i]
      BY Zenon DEF QInv, RowsInv
    <2>2. CASE i = j
      <3>1. state'[j] = end /\ holder'[j] = None /\ attempt'[j] = attempt[j]
        BY Zenon, <1>0
      <3> QED
        BY Zenon, <2>1, <2>2, <3>1
    <2>3. CASE i # j
      <3>1. state'[i] = state[i] /\ holder'[i] = holder[i] /\ attempt'[i] = attempt[i]
        BY Zenon, <2>3, <1>0
      <3> QED
        BY <2>1, <3>1, Zenon
    <2> QED
      BY Zenon, <2>2, <2>3
  <1>3. QueueInv'
    <2>1. Queued' = Queued
      BY Zenon, <1>0 DEF Queued
    <2> QED
      BY <2>1, <1>0, Zenon DEF QInv, QueueInv
  <1> QED
    BY <1>1, <1>2, <1>3, Zenon DEF RowsInv

(* ... and so does one that goes back to the queue, at any place. *)
LEMMA Requeues ==
    ASSUME QInv, NEW j \in Jobs, state[j] = "running",
           NEW k \in 1 .. Len(waiting) + 1, waiting' = InsertAt(waiting, k, j),
           due' \in {due, due + 1},
           state' = [state EXCEPT ![j] = "queued"], Released(j),
           NEW n \in Nat, n < MaxAttempts[j], attempt' = [attempt EXCEPT ![j] = n],
           ran' = ran
    PROVE  RowTypes' /\ RowsInv' /\ QueueInv'
  <1>0. /\ state \in [Jobs -> States] /\ holder \in [Jobs -> Workers \cup {None}]
        /\ expired \in [Jobs -> BOOLEAN] /\ attempt \in [Jobs -> Nat]
        /\ ran' \in [Jobs -> BOOLEAN]
        /\ holder' = [holder EXCEPT ![j] = None]
        /\ expired' = [expired EXCEPT ![j] = FALSE]
    BY Zenon DEF QInv, RowTypes, Released
  <1>1. RowTypes'
    <2>1. state' \in [Jobs -> States]
      BY Zenon, <1>0 DEF States
    <2>2. holder' \in [Jobs -> Workers \cup {None}]
      BY Zenon, <1>0
    <2>3. expired' \in [Jobs -> BOOLEAN]
      BY Zenon, <1>0
    <2>4. attempt' \in [Jobs -> Nat]
      BY Zenon, <1>0
    <2> QED
      BY <1>0, <2>1, <2>2, <2>3, <2>4, Zenon DEF RowTypes
  <1>2. ASSUME NEW i \in Jobs
        PROVE  /\ holder'[i] # None <=> state'[i] = "running"
               /\ state'[i] = "running" => attempt'[i] >= 1
               /\ state'[i] = "queued" => attempt'[i] < MaxAttempts[i]
               /\ attempt'[i] <= MaxAttempts[i]
               /\ state'[i] = "succeeded" => ran'[i]
    <2>1. /\ holder[i] # None <=> state[i] = "running"
          /\ state[i] = "running" => attempt[i] >= 1
          /\ state[i] = "queued" => attempt[i] < MaxAttempts[i]
          /\ attempt[i] <= MaxAttempts[i]
          /\ state[i] = "succeeded" => ran[i]
      BY Zenon DEF QInv, RowsInv
    <2>2. CASE i = j
      <3>1. MaxAttempts[j] \in Nat
        BY Zenon, QueueAssumption
      <3>2. attempt'[j] = n /\ state'[j] = "queued" /\ holder'[j] = None
        BY Zenon, <1>0 DEF QInv, RowTypes
      <3>3. n < MaxAttempts[j] /\ n <= MaxAttempts[j]
        BY <3>1
      <3> QED
        BY <2>2, <3>2, <3>3, Zenon
    <2>3. CASE i # j
      <3>1. state'[i] = state[i] /\ holder'[i] = holder[i] /\ attempt'[i] = attempt[i]
        BY Zenon, <2>3, <1>0
      <3> QED
        BY <2>1, <3>1, Zenon
    <2> QED
      BY Zenon, <2>2, <2>3
  <1>3. QueueInv'
    <2>1. Queued' = Queued \cup {j} /\ j \notin Queued /\ Queued \subseteq Jobs
      BY Zenon, <1>0 DEF Queued
    <2>2. Lists(waiting, Queued) /\ due \in 0 .. Len(waiting)
      BY Zenon DEF QInv, QueueInv
    <2>3. Lists(waiting', Queued') /\ Len(waiting') = Len(waiting) + 1
      BY <2>1, <2>2, ListsInserted, Zenon
    <2>4. Len(waiting) \in Nat
      BY <2>2 DEF Lists
    <2>5. due' \in 0 .. Len(waiting')
      BY <2>2, <2>3, <2>4
    <2> QED
      BY Zenon, <2>3, <2>5 DEF QueueInv
  <1> QED
    BY <1>1, <1>2, <1>3, Zenon DEF RowsInv

-----------------------------------------------------------------------------
(* No worker but w moves ... *)
OnlyMoves(w) ==
    \A v \in Workers \ {w} :
        pc'[v] = pc[v] /\ task'[v] = task[v] /\ result'[v] = result[v] /\ beat'[v] = beat[v]

(* ... and no other gets a lease or loses the success of its own. *)
OnlyLeases(w) ==
    \A v \in Workers \ {w}, j \in Jobs : holder'[j] = v => holder[j] = v /\ (ran[j] => ran'[j])

(* Then WorkersInv is a matter of w alone. *)
LEMMA WorkersKeep ==
    ASSUME QInv, NEW w \in Workers, OnlyMoves(w), OnlyLeases(w),
           pc'[w] \in Busy => task'[w] \in Jobs,
           pc'[w] = "finish" => result'[w] = "reconcile",
           beat'[w] = "sent" => pc'[w] = "work",
           pc'[w] = "complete" /\ holder'[task'[w]] = w => ran'[task'[w]]
    PROVE  WorkersInv'
  <1>1. ASSUME NEW v \in Workers, v # w
        PROVE  /\ pc'[v] \in Busy => task'[v] \in Jobs
               /\ pc'[v] = "finish" => result'[v] = "reconcile"
               /\ beat'[v] = "sent" => pc'[v] = "work"
               /\ pc'[v] = "complete" /\ holder'[task'[v]] = v => ran'[task'[v]]
    <2>1. pc'[v] = pc[v] /\ task'[v] = task[v] /\ result'[v] = result[v] /\ beat'[v] = beat[v]
      BY Zenon, <1>1 DEF OnlyMoves
    <2>2. /\ pc[v] \in Busy => task[v] \in Jobs
          /\ pc[v] = "finish" => result[v] = "reconcile"
          /\ beat[v] = "sent" => pc[v] = "work"
          /\ pc[v] = "complete" /\ holder[task[v]] = v => ran[task[v]]
      BY Zenon DEF QInv, WorkersInv
    <2>3. ASSUME pc[v] = "complete", holder'[task[v]] = v PROVE ran'[task[v]]
      <3>1. task[v] \in Jobs
        BY Zenon, <2>2, <2>3 DEF Busy
      <3>2. holder[task[v]] = v /\ (ran[task[v]] => ran'[task[v]])
        BY Zenon, <1>1, <2>3, <3>1 DEF OnlyLeases
      <3> QED
        BY Zenon, <2>2, <2>3, <3>2
    <2> QED
      BY <2>1, <2>2, <2>3, Zenon
  <1> QED
    BY <1>1, Zenon DEF WorkersInv

(* A worker that ends, or is done with its job, keeps the invariant. *)
LEMMA Leaves ==
    ASSUME QInv, NEW w \in Workers, OnlyLeases(w),
           Down(w) \/ (Done(w) /\ pc[w] # "work" /\ UNCHANGED beat)
    PROVE  WorkerTypes' /\ WorkersInv'
  <1>0. /\ pc \in [Workers -> Places] /\ task \in [Workers -> Jobs \cup {None}]
        /\ result \in [Workers -> AllResults] /\ last \in [Workers -> BOOLEAN]
        /\ beat \in [Workers -> {"off", "on", "sent", "failed"}]
        /\ scan \in [Workers -> SUBSET Jobs]
    BY Zenon DEF QInv, WorkerTypes
  <1>1. WorkerTypes'
    <2>1. pc' \in [Workers -> Places] /\ task' \in [Workers -> Jobs \cup {None}] /\ result' \in [Workers -> AllResults]
      BY Zenon, <1>0 DEF Down, Done, Places, AllResults
    <2>2. last' \in [Workers -> BOOLEAN]
      BY <1>0, Zenon DEF Down, Done
    <2>3. scan' \in [Workers -> SUBSET Jobs]
      BY Zenon, <1>0 DEF Down, Done
    <2>4. beat' \in [Workers -> {"off", "on", "sent", "failed"}]
      BY Zenon, <1>0 DEF Down, Done
    <2> QED
      BY Zenon, <2>1, <2>2, <2>3, <2>4 DEF WorkerTypes
  <1>2. OnlyMoves(w)
    BY Zenon, <1>0 DEF OnlyMoves, Down, Done
  <1>3. pc'[w] \in {"down", "poll"}
    BY Zenon, <1>0 DEF Down, Done
  <1>4. beat'[w] # "sent"
    <2>1. beat[w] = "sent" => pc[w] = "work"
      BY Zenon DEF QInv, WorkersInv
    <2> QED
      BY Zenon, <1>0, <2>1 DEF Down, Done
  <1> QED
    BY Zenon, <1>1, <1>2, <1>3, <1>4, WorkersKeep DEF Busy

(* A handler that has returned r, by itself or when it was cancelled *)
LEMMA Turns ==
    ASSUME QInv, NEW w \in Workers, OnlyLeases(w), pc[w] = "work",
           NEW r \in AllResults, NEW to, to = FinishedBy(r), last' \in [Workers -> BOOLEAN],
           pc' = [pc EXCEPT ![w] = to],
           result' = [result EXCEPT ![w] = r],
           beat' = [beat EXCEPT ![w] = "off"],
           UNCHANGED <<task, scan>>,
           r = "ok" /\ holder'[task[w]] = w => ran'[task[w]]
    PROVE  WorkerTypes' /\ WorkersInv'
  <1>0. /\ pc \in [Workers -> Places] /\ task \in [Workers -> Jobs \cup {None}]
        /\ result \in [Workers -> AllResults]
        /\ beat \in [Workers -> {"off", "on", "sent", "failed"}]
        /\ scan \in [Workers -> SUBSET Jobs]
        /\ task[w] \in Jobs
    BY Zenon DEF QInv, WorkerTypes, WorkersInv, Busy
  <1>1. /\ to \in {"complete", "finish", "settle"}
        /\ to = "complete" => r = "ok"
        /\ to = "finish" => r = "reconcile"
    BY Zenon DEF FinishedBy
  <1>2. WorkerTypes'
    <2>1. pc' \in [Workers -> Places] /\ task' \in [Workers -> Jobs \cup {None}] /\ result' \in [Workers -> AllResults]
      BY Zenon, <1>0, <1>1 DEF Places, Busy
    <2>2. scan' \in [Workers -> SUBSET Jobs]
      BY Zenon, <1>0
    <2>3. beat' \in [Workers -> {"off", "on", "sent", "failed"}]
      BY Zenon, <1>0
    <2> QED
      BY Zenon, <2>1, <2>2, <2>3 DEF WorkerTypes
  <1>3. OnlyMoves(w)
    BY Zenon, <1>0 DEF OnlyMoves
  <1>4. pc'[w] = to /\ beat'[w] = "off" /\ result'[w] = r /\ task'[w] = task[w]
    BY Zenon, <1>0
  <1>5. pc'[w] = "complete" /\ holder'[task'[w]] = w => ran'[task'[w]]
    BY Zenon, <1>1, <1>4
  <1> QED
    BY Zenon, <1>0, <1>1, <1>2, <1>3, <1>4, <1>5, WorkersKeep

(* No lease is given out, and no success forgotten. *)
LeasesKept ==
    \A v \in Workers, j \in Jobs : holder'[j] = v => holder[j] = v /\ (ran[j] => ran'[j])

LEMMA LeasesStay ==
    ASSUME QInv, holder' = holder \/ \E j \in Jobs : holder' = [holder EXCEPT ![j] = None],
           \A j \in Jobs : ran[j] => ran'[j]
    PROVE  LeasesKept /\ \A w \in Workers : OnlyLeases(w)
  <1>1. holder \in [Jobs -> Workers \cup {None}] /\ None \notin Workers
    BY Zenon, QueueAssumption DEF QInv, RowTypes
  <1>2. ASSUME NEW v \in Workers, NEW i \in Jobs, holder'[i] = v PROVE holder[i] = v
    BY Zenon, <1>1, <1>2
  <1> QED
    BY <1>2, Zenon DEF LeasesKept, OnlyLeases

(* A step of no worker, or one that only looks for expired leases *)
LEMMA Watches ==
    ASSUME QInv, LeasesKept, UNCHANGED <<pc, task, result, last, beat>>,
           scan' \in [Workers -> SUBSET Jobs]
    PROVE  WorkerTypes' /\ WorkersInv'
  <1>1. WorkerTypes'
    BY Zenon DEF QInv, WorkerTypes
  <1>2. ASSUME NEW v \in Workers
        PROVE  /\ pc'[v] \in Busy => task'[v] \in Jobs
               /\ pc'[v] = "finish" => result'[v] = "reconcile"
               /\ beat'[v] = "sent" => pc'[v] = "work"
               /\ pc'[v] = "complete" /\ holder'[task'[v]] = v => ran'[task'[v]]
    <2>2. /\ pc[v] \in Busy => task[v] \in Jobs
          /\ pc[v] = "finish" => result[v] = "reconcile"
          /\ beat[v] = "sent" => pc[v] = "work"
          /\ pc[v] = "complete" /\ holder[task[v]] = v => ran[task[v]]
      BY Zenon DEF QInv, WorkersInv
    <2>3. ASSUME pc[v] = "complete", holder'[task[v]] = v PROVE ran'[task[v]]
      <3>1. task[v] \in Jobs
        BY Zenon, <2>2, <2>3 DEF Busy
      <3>2. holder[task[v]] = v /\ (ran[task[v]] => ran'[task[v]])
        BY Zenon, <2>3, <3>1 DEF LeasesKept
      <3> QED
        BY Zenon, <2>2, <2>3, <3>2
    <2> QED
      BY <2>2, <2>3, Zenon
  <1> QED
    BY <1>1, <1>2, Zenon DEF WorkersInv

(* A running job is settled: it goes back to the queue, now or later, with *)
(* n attempts.                                                             *)
LEMMA Returned ==
    ASSUME QInv, NEW j \in Jobs, state[j] = "running", QueuedNow(j) \/ QueuedLater(j),
           NEW n \in Nat, n < MaxAttempts[j], attempt' = [attempt EXCEPT ![j] = n],
           ran' = ran
    PROVE  RowTypes' /\ RowsInv' /\ QueueInv'
  <1>1. due \in 0 .. Len(waiting) /\ Len(waiting) \in Nat
    BY SMTT(40) DEF QInv, QueueInv, Lists
  <1>2. PICK k \in 1 .. Len(waiting) + 1 : waiting' = InsertAt(waiting, k, j)
    <2>1. CASE QueuedNow(j)
      <3>1. due + 1 \in 1 .. Len(waiting) + 1 /\ waiting' = InsertAt(waiting, due + 1, j)
        BY <1>1, <2>1 DEF QueuedNow
      <3> QED
        BY <3>1, Zenon
    <2>2. CASE QueuedLater(j)
      <3>1. PICK i \in due + 1 .. Len(waiting) + 1 : waiting' = InsertAt(waiting, i, j)
        BY Zenon, <2>2 DEF QueuedLater
      <3>2. i \in 1 .. Len(waiting) + 1
        BY SMTT(40), <1>1
      <3> QED
        BY <3>1, <3>2, Zenon
    <2> QED
      BY Zenon, <2>1, <2>2
  <1>3. state' = [state EXCEPT ![j] = "queued"] /\ Released(j) /\ due' \in {due, due + 1}
    BY Zenon DEF QueuedNow, QueuedLater
  <1> QED
    BY <1>2, <1>3, Requeues, Zenon

-----------------------------------------------------------------------------
(* recover_one *)
LEMMA RecoverOneKeeps ==
    ASSUME QInv, NEW w \in Workers, NEW j \in Jobs, RecoverOne(w, j)
    PROVE  QInv'
  <1>1. scan' \in [Workers -> SUBSET Jobs]
    BY Zenon DEF QInv, WorkerTypes, RecoverOne
  <1>2. UNCHANGED <<pc, task, result, last, beat, ran>> /\ ran \in [Jobs -> BOOLEAN]
    BY Zenon DEF RecoverOne, QInv, RowTypes
  <1>3. CASE ~LockExpired(j)
    <2>1. UNCHANGED <<state, attempt, holder, expired, waiting, due>> /\ expired \in [Jobs -> BOOLEAN]
      BY Zenon, <1>3 DEF RecoverOne, rows, QInv, RowTypes
    <2> QED
      BY Zenon, <1>1, <1>2, <2>1, RowsStay, LeasesStay, Watches DEF QInv
  <1>4. CASE LockExpired(j)
    <2>1. RecoverRow(j) /\ state[j] = "running"
      BY Zenon, <1>4 DEF RecoverOne, LockExpired
    <2>2. attempt \in [Jobs -> Nat] /\ MaxAttempts \in [Jobs -> Nat]
      BY Zenon, QueueAssumption DEF QInv, RowTypes
    <2>3. holder' = [holder EXCEPT ![j] = None]
      BY Zenon, <2>1 DEF RecoverRow, Ended, QueuedNow, Released
    <2>4. RowTypes' /\ RowsInv' /\ QueueInv'
      <3>1. CASE attempt[j] >= MaxAttempts[j]
        BY Zenon, <3>1, <2>1, <1>2, Ends DEF RecoverRow
      <3>2. CASE ~(attempt[j] >= MaxAttempts[j])
        <4>1. QueuedNow(j) /\ attempt' = attempt
          BY Zenon, <3>2, <2>1 DEF RecoverRow
        <4>2. attempt' = [attempt EXCEPT ![j] = attempt[j]] /\ attempt[j] \in Nat /\ attempt[j] < MaxAttempts[j]
          BY <3>2, <4>1, <2>2
        <4> QED
          BY <4>1, <4>2, <2>1, <1>2, Returned, Zenon
      <3> QED
        BY Zenon, <3>1, <3>2
    <2> QED
      BY <1>1, <1>2, <2>3, <2>4, LeasesStay, Watches, Zenon DEF QInv
  <1> QED
    BY Zenon, <1>3, <1>4

(* claim_next *)
LEMMA ClaimNextKeeps ==
    ASSUME QInv, NEW w \in Workers, ClaimNext(w)
    PROVE  QInv'
  <1>0. /\ state \in [Jobs -> States] /\ holder \in [Jobs -> Workers \cup {None}]
        /\ expired \in [Jobs -> BOOLEAN] /\ attempt \in [Jobs -> Nat]
        /\ ran \in [Jobs -> BOOLEAN] /\ MaxAttempts \in [Jobs -> Nat] /\ None \notin Workers
    BY Zenon, QueueAssumption DEF QInv, RowTypes
  <1>1. Lists(waiting, Queued) /\ due \in 0 .. Len(waiting) /\ Len(waiting) \in Nat /\ Queued \subseteq Jobs
    BY DEF QInv, QueueInv, Lists, Queued
  <1>2. PICK k \in 1 .. due :
          /\ Claimable(w, k)
          /\ state' = [state EXCEPT ![waiting[k]] = "running"]
          /\ attempt' = [attempt EXCEPT ![waiting[k]] = @ + 1]
          /\ holder' = [holder EXCEPT ![waiting[k]] = w]
          /\ waiting' = RemoveAt(waiting, k)
          /\ ran' = [ran EXCEPT ![waiting[k]] = FALSE]
          /\ \/ /\ task' = [task EXCEPT ![w] = waiting[k]]
                /\ pc' = [pc EXCEPT ![w] = "work"]
                /\ beat' = [beat EXCEPT ![w] = "on"]
                /\ UNCHANGED <<result, last, scan>>
             \/ Down(w)
    BY Zenon DEF ClaimNext
  <1> DEFINE j == waiting[k]
  <1>3. k \in 1 .. Len(waiting) /\ due' = due - 1 /\ expired' = expired
    BY SMTT(40), <1>1 DEF ClaimNext
  <1>4. j \in Jobs /\ state[j] = "queued" /\ attempt[j] < MaxAttempts[j]
    BY Zenon, <1>1, <1>2, <1>3 DEF Claimable, Lists, Queued
  <1>5. QueueInv'
    <2>1. Queued' = Queued \ {j}
      BY Zenon, <1>0, <1>2, <1>4 DEF Queued
    <2>2. Lists(waiting', Queued') /\ Len(waiting') = Len(waiting) - 1
      BY Zenon, <2>1, <1>1, <1>2, <1>3, ListsRemoved
    <2>3. due' \in 0 .. Len(waiting')
      BY SMTT(40), <2>2, <1>1, <1>2, <1>3
    <2> QED
      BY Zenon, <2>2, <2>3 DEF QueueInv
  <1> HIDE DEF j
  <1>6. /\ state' = [state EXCEPT ![j] = "running"]
        /\ attempt' = [attempt EXCEPT ![j] = attempt[j] + 1]
        /\ holder' = [holder EXCEPT ![j] = w]
        /\ ran' = [ran EXCEPT ![j] = FALSE]
    BY Zenon, <1>2 DEF j
  <1>7. RowTypes'
    <2>1. state' \in [Jobs -> States] /\ holder' \in [Jobs -> Workers \cup {None}]
      BY <1>0, <1>6, Zenon DEF States
    <2>2. attempt' \in [Jobs -> Nat]
      BY <1>0, <1>4, <1>6
    <2>3. ran' \in [Jobs -> BOOLEAN]
      BY <1>0, <1>6, Zenon
    <2> QED
      BY <1>0, <1>3, <2>1, <2>2, <2>3, Zenon DEF RowTypes
  <1>8. ASSUME NEW i \in Jobs
        PROVE  /\ holder'[i] # None <=> state'[i] = "running"
               /\ state'[i] = "running" => attempt'[i] >= 1
               /\ state'[i] = "queued" => attempt'[i] < MaxAttempts[i]
               /\ attempt'[i] <= MaxAttempts[i]
               /\ state'[i] = "succeeded" => ran'[i]
    <2>1. /\ holder[i] # None <=> state[i] = "running"
          /\ state[i] = "running" => attempt[i] >= 1
          /\ state[i] = "queued" => attempt[i] < MaxAttempts[i]
          /\ attempt[i] <= MaxAttempts[i]
          /\ state[i] = "succeeded" => ran[i]
      BY Zenon DEF QInv, RowsInv
    <2>2. CASE i = j
      BY SMTT(40), <2>2, <1>0, <1>4, <1>6
    <2>3. CASE i # j
      <3>1. state'[i] = state[i] /\ holder'[i] = holder[i] /\ attempt'[i] = attempt[i] /\ (ran[i] => ran'[i])
        BY Zenon, <2>3, <1>0, <1>6
      <3> QED
        BY <2>1, <3>1, Zenon
    <2> QED
      BY Zenon, <2>2, <2>3
  <1>9. OnlyLeases(w)
    <2>1. ASSUME NEW v \in Workers \ {w}, NEW i \in Jobs, holder'[i] = v PROVE i # j /\ holder[i] = v
      BY Zenon, <2>1, <1>0, <1>4, <1>6
    <2>2. ASSUME NEW i \in Jobs, i # j, ran[i] PROVE ran'[i]
      BY Zenon, <2>2, <1>0, <1>6
    <2> QED
      BY <2>1, <2>2, Zenon DEF OnlyLeases
  <1>10. WorkerTypes' /\ WorkersInv'
    <2>1. CASE Down(w)
      BY Zenon, <2>1, <1>9, Leaves
    <2>2. CASE ~Down(w)
      <3>0. /\ pc \in [Workers -> Places] /\ task \in [Workers -> Jobs \cup {None}]
            /\ result \in [Workers -> AllResults] /\ last \in [Workers -> BOOLEAN]
            /\ beat \in [Workers -> {"off", "on", "sent", "failed"}]
            /\ scan \in [Workers -> SUBSET Jobs]
        BY Zenon DEF QInv, WorkerTypes
      <3>1. /\ task' = [task EXCEPT ![w] = j]
            /\ pc' = [pc EXCEPT ![w] = "work"]
            /\ beat' = [beat EXCEPT ![w] = "on"]
            /\ UNCHANGED <<result, last, scan>>
        BY Zenon, <2>2, <1>2 DEF j
      <3>2. pc' \in [Workers -> Places] /\ task' \in [Workers -> Jobs \cup {None}]
        BY Zenon, <3>0, <3>1, <1>4 DEF Places, Busy
      <3>3. beat' \in [Workers -> {"off", "on", "sent", "failed"}]
        BY Zenon, <3>0, <3>1
      <3>4. WorkerTypes'
        BY <3>0, <3>1, <3>2, <3>3, Zenon DEF WorkerTypes
      <3>5. OnlyMoves(w) /\ pc'[w] = "work" /\ beat'[w] = "on" /\ task'[w] = j
        BY Zenon, <3>0, <3>1 DEF OnlyMoves
      <3> QED
        BY Zenon, <3>4, <3>5, <1>4, <1>9, WorkersKeep
    <2> QED
      BY Zenon, <2>1, <2>2
  <1> QED
    BY <1>5, <1>7, <1>8, <1>10, Zenon DEF QInv, RowsInv

(* settle_lease *)
LEMMA SettleLeaseKeeps ==
    ASSUME QInv, NEW w \in Workers, SettleLease(w)
    PROVE  QInv'
  <1> DEFINE j == task[w]
             r == result[w]
             refund == r \in Refunding
  <1>0. /\ attempt \in [Jobs -> Nat] /\ MaxAttempts \in [Jobs -> Nat]
        /\ expired \in [Jobs -> BOOLEAN] /\ ran \in [Jobs -> BOOLEAN]
    BY Zenon, QueueAssumption DEF QInv, RowTypes
  <1>1. pc[w] = "settle" /\ j \in Jobs /\ ran' = ran
    BY Zenon DEF QInv, WorkersInv, SettleLease, Busy
  <1>2. CASE LockRunning(w, j, refund)
    <2>1. /\ Done(w) /\ beat' = beat /\ state[j] = "running"
          /\ IF Terminal(j, r)
             THEN Ended(j, "failed")
             ELSE Requeue(j, r) /\ attempt' = [attempt EXCEPT ![j] = IF refund THEN @ - 1 ELSE @]
      BY <1>2, Zenon DEF SettleLease, LockRunning
    <2>2. holder' = [holder EXCEPT ![j] = None]
      BY Zenon, <2>1 DEF Ended, Requeue, QueuedNow, QueuedLater, Released
    <2>3. RowTypes' /\ RowsInv' /\ QueueInv'
      <3>1. CASE Terminal(j, r)
        BY Zenon, <3>1, <2>1, <1>0, <1>1, Ends
      <3>2. CASE ~Terminal(j, r)
        <4> DEFINE n == IF refund THEN attempt[j] - 1 ELSE attempt[j]
        <4>1. attempt[j] \in 1 .. MaxAttempts[j]
          BY SMTT(40), <1>0, <1>1, <2>1 DEF QInv, RowsInv
        <4>2. n \in Nat /\ n < MaxAttempts[j]
          <5>1. MaxAttempts[j] \in Nat
            BY Zenon, <1>0, <1>1
          <5>2. refund \/ ~(attempt[j] >= MaxAttempts[j])
            BY Zenon, <3>2 DEF Terminal
          <5> HIDE DEF j, refund
          <5> QED
            BY SMTT(40), <4>1, <5>1, <5>2
        <4>3. QueuedNow(j) \/ QueuedLater(j)
          BY Zenon, <3>2, <2>1 DEF Requeue
        <4>4. attempt' = [attempt EXCEPT ![j] = n]
          BY Zenon, <3>2, <2>1
        <4> HIDE DEF n
        <4> QED
          BY <4>2, <4>3, <4>4, <2>1, <1>1, Returned, Zenon
      <3> QED
        BY Zenon, <3>1, <3>2
    <2> QED
      BY <1>1, <2>1, <2>2, <2>3, LeasesStay, Leaves, Zenon DEF QInv
  <1>3. CASE ~LockRunning(w, j, refund)
    <2>1. /\ UNCHANGED <<state, attempt, holder, expired, waiting, due>>
          /\ \/ Down(w)
             \/ pc' = [pc EXCEPT ![w] = "requeued"] /\ UNCHANGED <<task, result, last, beat, scan>>
      BY Zenon, <1>3 DEF SettleLease, rows
    <2>2. RowTypes' /\ RowsInv' /\ QueueInv'
      BY Zenon, <2>1, <1>0, <1>1, RowsStay
    <2>3. OnlyLeases(w)
      BY <2>1, <1>1, LeasesStay, Zenon
    <2>4. CASE Down(w)
      BY Zenon, <2>2, <2>3, <2>4, Leaves DEF QInv
    <2>5. CASE pc' = [pc EXCEPT ![w] = "requeued"] /\ UNCHANGED <<task, result, last, beat, scan>>
      <3>1. WorkerTypes'
        BY Zenon, <2>5 DEF QInv, WorkerTypes, Places, Busy
      <3>2. OnlyMoves(w) /\ pc'[w] = "requeued" /\ task'[w] \in Jobs /\ beat'[w] # "sent"
        BY Zenon, <2>5, <1>1 DEF QInv, WorkerTypes, WorkersInv, OnlyMoves
      <3> QED
        BY Zenon, <3>1, <3>2, <2>2, <2>3, WorkersKeep DEF QInv
    <2> QED
      BY Zenon, <2>1, <2>4, <2>5
  <1> QED
    BY Zenon, <1>2, <1>3

(* complete_lease *)
LEMMA CompleteLeaseKeeps ==
    ASSUME QInv, NEW w \in Workers, CompleteLease(w)
    PROVE  QInv'
  <1>0. /\ expired \in [Jobs -> BOOLEAN] /\ ran \in [Jobs -> BOOLEAN]
    BY Zenon DEF QInv, RowTypes
  <1>1. /\ pc[w] = "complete" /\ task[w] \in Jobs /\ ran' = ran /\ beat' = beat
        /\ holder[task[w]] = w => ran[task[w]]
    BY Zenon DEF QInv, WorkersInv, CompleteLease, Busy
  <1>2. CASE MayComplete(w, task[w])
    <2>1. Ended(task[w], "succeeded") /\ Done(w) /\ state[task[w]] = "running" /\ ran[task[w]]
      BY Zenon, <1>1, <1>2 DEF CompleteLease, MayComplete, Live
    <2>2. RowTypes' /\ RowsInv' /\ QueueInv'
      BY Zenon, <2>1, <1>0, <1>1, Ends
    <2>3. holder' = [holder EXCEPT ![task[w]] = None]
      BY Zenon, <2>1 DEF Ended, Released
    <2> QED
      BY <1>1, <2>1, <2>2, <2>3, LeasesStay, Leaves, Zenon DEF QInv
  <1>3. CASE ~MayComplete(w, task[w])
    <2>1. /\ UNCHANGED <<state, attempt, holder, expired, waiting, due, task, result, last, scan>>
          /\ pc' = [pc EXCEPT ![w] = "confirm"]
      BY Zenon, <1>3 DEF CompleteLease
    <2>2. RowTypes' /\ RowsInv' /\ QueueInv'
      BY Zenon, <2>1, <1>0, <1>1, RowsStay
    <2>3. OnlyLeases(w)
      BY Zenon, <2>1, <1>1, LeasesStay
    <2>4. WorkerTypes'
      BY Zenon, <2>1, <1>1 DEF QInv, WorkerTypes, Places, Busy
    <2>5. OnlyMoves(w) /\ pc'[w] = "confirm" /\ task'[w] \in Jobs /\ beat'[w] # "sent"
      BY Zenon, <2>1, <1>1 DEF QInv, WorkerTypes, WorkersInv, OnlyMoves
    <2> QED
      BY Zenon, <2>2, <2>3, <2>4, <2>5, WorkersKeep DEF QInv
  <1> QED
    BY Zenon, <1>2, <1>3

(* execute_handler: the handler returns a result that settles its lease or *)
(* the process ends; the rows stay.                                        *)
LEMMA HandlerEnds ==
    ASSUME QInv, NEW w \in Workers, pc[w] = "work", UNCHANGED rows,
           NEW r \in AllResults, ran' = ran \/ Ran(w, r),
           \/ Down(w)
           \/ /\ pc' = [pc EXCEPT ![w] = FinishedBy(r)]
              /\ result' = [result EXCEPT ![w] = r]
              /\ beat' = [beat EXCEPT ![w] = "off"]
              /\ last' \in [Workers -> BOOLEAN]
              /\ UNCHANGED <<task, scan>>
              /\ r = "ok" => Ran(w, r)
    PROVE  QInv'
  <1>0. /\ expired \in [Jobs -> BOOLEAN] /\ ran \in [Jobs -> BOOLEAN] /\ task[w] \in Jobs
        /\ UNCHANGED <<state, attempt, holder, expired, waiting, due>>
    BY Zenon DEF QInv, RowTypes, WorkersInv, Busy, rows
  <1>1. /\ ran' \in [Jobs -> BOOLEAN]
        /\ \A j \in Jobs : ran[j] => ran'[j]
    BY <1>0, Zenon DEF Ran
  <1>2. RowTypes' /\ RowsInv' /\ QueueInv'
    BY Zenon, <1>0, <1>1, RowsStay
  <1>3. OnlyLeases(w)
    BY Zenon, <1>0, <1>1, LeasesStay
  <1>4. CASE Down(w)
    BY Zenon, <1>2, <1>3, <1>4, Leaves DEF QInv
  <1>5. CASE ~Down(w)
    <2>1. r = "ok" /\ holder'[task[w]] = w => ran'[task[w]]
      BY Zenon, <1>0, <1>5 DEF Ran
    <2>2. WorkerTypes' /\ WorkersInv'
      BY Zenon, <1>3, <1>5, <2>1, Turns
    <2> QED
      BY Zenon, <1>2, <2>2 DEF QInv
  <1> QED
    BY Zenon, <1>4, <1>5

-----------------------------------------------------------------------------
(* The invariant holds before the first worker starts ... *)
LEMMA InitQInv == Init => QInv
  <1> SUFFICES ASSUME Init PROVE QInv
    BY Zenon
  <1>0. PICK batch \in Batches :
          /\ state = [j \in Jobs |-> IF j \in batch THEN "queued" ELSE "succeeded"]
          /\ attempt = [j \in Jobs |-> IF j \in batch THEN 0 ELSE 1]
          /\ ran = [j \in Jobs |-> j \notin batch]
          /\ waiting \in SetToSeqs(batch)
    BY Zenon DEF Init
  <1>1. RowTypes /\ RowsInv
    <2>1. RowTypes
      BY Zenon, <1>0 DEF Init, RowTypes, States
    <2>2. ASSUME NEW j \in Jobs
          PROVE  /\ holder[j] # None <=> state[j] = "running"
                 /\ state[j] = "running" => attempt[j] >= 1
                 /\ state[j] = "queued" => attempt[j] < MaxAttempts[j]
                 /\ attempt[j] <= MaxAttempts[j]
                 /\ state[j] = "succeeded" => ran[j]
      <3>1. holder[j] = None /\ MaxAttempts[j] \in Nat /\ MaxAttempts[j] >= 1
        BY SMTT(40), QueueAssumption DEF Init
      <3>2. CASE j \in batch
        <4>1. state[j] = "queued" /\ attempt[j] = 0
          BY Zenon, <1>0, <3>2
        <4> QED
          BY SMTT(40), <3>1, <4>1
      <3>3. CASE j \notin batch
        <4>1. state[j] = "succeeded" /\ attempt[j] = 1 /\ ran[j]
          BY Zenon, <1>0, <3>3
        <4> QED
          BY Zenon, <3>1, <4>1
      <3> QED
        BY Zenon, <3>2, <3>3
    <2> QED
      BY <2>1, <2>2, Zenon DEF RowsInv
  <1>2. WorkerTypes /\ WorkersInv
    BY Zenon DEF Init, WorkerTypes, WorkersInv, Places, Busy, AllResults
  <1> DEFINE D == 1 .. Cardinality(batch)
  <1>3. batch \subseteq Jobs /\ Cardinality(batch) \in Nat /\ IsFiniteSet(batch)
    <2>1. batch \subseteq Jobs /\ IsFiniteSet(Jobs)
      BY Zenon, QueueAssumption
    <2>2. IsFiniteSet(batch)
      BY Zenon, <2>1, FS_Subset
    <2> QED
      BY Zenon, <2>1, <2>2, FS_CardinalityType
  <1>4. waiting \in [D -> batch] /\ \A i, l \in D : i # l => waiting[i] # waiting[l]
    BY <1>0, Zenon DEF SetToSeqs
  <1>5. waiting \in Seq(Jobs) /\ Len(waiting) = Cardinality(batch) /\ due = Len(waiting)
    BY SMTT(40), <1>3, <1>4 DEF Init
  <1>6. waiting \in Surjection(D, batch)
    <2>1. waiting \in Injection(D, batch)
      BY <1>4, Zenon DEF Injection, IsInjective
    <2>2. Cardinality(D) = Cardinality(batch)
      BY <1>3, FS_Interval
    <2> QED
      BY Zenon, <1>3, <2>1, <2>2, FS_Injection
  <1>7. Queued = batch
    BY Zenon, <1>0, <1>3 DEF Queued
  <1>8. \A j \in batch : \E k \in D : waiting[k] = j
    BY <1>6, Zenon DEF Surjection
  <1>9. Lists(waiting, Queued)
    BY Zenon, <1>4, <1>5, <1>7, <1>8 DEF Lists
  <1> QED
    BY <1>1, <1>2, <1>3, <1>5, <1>9 DEF QInv, QueueInv

(* ... and every step keeps it. *)
LEMMA NextQInv == QInv /\ [Next]_vars => QInv'
  <1> SUFFICES ASSUME QInv, [Next]_vars PROVE QInv'
    BY Zenon
  <1>0. /\ pc \in [Workers -> Places] /\ task \in [Workers -> Jobs \cup {None}]
        /\ result \in [Workers -> AllResults] /\ last \in [Workers -> BOOLEAN]
        /\ beat \in [Workers -> {"off", "on", "sent", "failed"}]
        /\ scan \in [Workers -> SUBSET Jobs]
        /\ expired \in [Jobs -> BOOLEAN] /\ ran \in [Jobs -> BOOLEAN]
        /\ \A j \in Jobs : ran[j] => ran[j]
    BY Zenon DEF QInv, WorkerTypes, RowTypes
  <1>1. ASSUME UNCHANGED rows, UNCHANGED ran
        PROVE  /\ RowTypes' /\ RowsInv' /\ QueueInv' /\ LeasesKept
               /\ \A w \in Workers : OnlyLeases(w)
    <2>1. UNCHANGED <<state, attempt, holder, expired, waiting, due>>
      BY Zenon, <1>1 DEF rows
    <2> QED
      BY Zenon, <1>0, <1>1, <2>1, RowsStay, LeasesStay
  <1>2. ASSUME NEW w \in Workers, NEW to \in {"recover", "poll"}, pc[w] \in {"down", "recover"},
               pc' = [pc EXCEPT ![w] = to], scan' \in [Workers -> SUBSET Jobs],
               UNCHANGED <<rows, task, result, last, beat, ran>>
        PROVE  QInv'
    <2>1. WorkerTypes'
      BY Zenon, <1>0, <1>2 DEF WorkerTypes, Places
    <2>2. OnlyMoves(w) /\ pc'[w] = to /\ beat'[w] # "sent"
      BY ZenonT(40), <1>0, <1>2 DEF OnlyMoves, QInv, WorkersInv
    <2> QED
      BY Zenon, <1>1, <1>2, <2>1, <2>2, WorkersKeep DEF QInv, Busy
  <1>3. ASSUME NEW w \in Workers, Start(w) PROVE QInv'
    <2>1. Expirees \subseteq Jobs
      BY Zenon DEF Expirees
    <2> QED
      BY <1>0, <1>2, <1>3, <2>1, Zenon DEF Start
  <1>4. ASSUME NEW w \in Workers, Recovered(w) PROVE QInv'
    BY <1>0, <1>2, <1>4, Zenon DEF Recovered
  <1>5. ASSUME NEW w \in Workers, Scan(w) PROVE QInv'
    <2>1. scan' \in [Workers -> SUBSET Jobs]
      BY Zenon, <1>0, <1>5 DEF Scan, Expirees
    <2> QED
      BY Zenon, <1>1, <1>5, <2>1, Watches DEF Scan, QInv
  <1>6. ASSUME NEW w \in Workers, HeartbeatFails(w) PROVE QInv'
    <2>1. pc[w] = "work" /\ UNCHANGED rows /\ ran' = ran
      BY Zenon, <1>6 DEF HeartbeatFails
    <2>2. CASE Down(w)
      BY Zenon, <1>1, <2>1, <2>2, Leaves DEF QInv
    <2>3. CASE ~Down(w)
      <3>1. PICK r \in ResultsOf(w) :
               LET kept == IF r = "ok" THEN "fail" ELSE r IN
               /\ pc' = [pc EXCEPT ![w] = FinishedBy(kept)]
               /\ result' = [result EXCEPT ![w] = kept]
        BY <1>6, <2>3, Zenon DEF HeartbeatFails
      <3> DEFINE kept == IF r = "ok" THEN "fail" ELSE r
      <3>2. kept \in AllResults /\ kept # "ok"
        BY Zenon DEF ResultsOf, AllResults, Results, Refunding
      <3>3. /\ pc' = [pc EXCEPT ![w] = FinishedBy(kept)]
            /\ result' = [result EXCEPT ![w] = kept]
        BY <3>1, Zenon
      <3> HIDE DEF kept
      <3>4. last' \in [Workers -> BOOLEAN] /\ beat' = [beat EXCEPT ![w] = "off"] /\ UNCHANGED <<task, scan>>
        BY <1>0, <1>6, <2>3, Zenon DEF HeartbeatFails
      <3> QED
        BY <2>1, <3>2, <3>3, <3>4, HandlerEnds, Zenon
    <2> QED
      BY Zenon, <2>2, <2>3
  <1>7. ASSUME NEW w \in Workers, NEW r \in Results \cup Refunding, Return(w, r) PROVE QInv'
    <2>1. /\ pc[w] = "work" /\ UNCHANGED rows /\ Ran(w, r) /\ r \in AllResults
          /\ \/ Down(w)
             \/ /\ pc' = [pc EXCEPT ![w] = FinishedBy(r)]
                /\ result' = [result EXCEPT ![w] = r]
                /\ beat' = [beat EXCEPT ![w] = "off"]
                /\ UNCHANGED <<task, last, scan>>
      BY Zenon, <1>7 DEF Return, AllResults
    <2>2. last' = last => last' \in [Workers -> BOOLEAN]
      BY Zenon, <1>0
    <2> QED
      BY Zenon, <2>1, <2>2, HandlerEnds
  <1>8. ASSUME NEW w \in Workers, Shutdown(w) PROVE QInv'
    <2>0. UNCHANGED rows
      BY Zenon, <1>8 DEF Shutdown
    <2>1. CASE pc[w] = "poll" /\ Down(w) /\ UNCHANGED ran
      BY Zenon, <1>1, <2>0, <2>1, Leaves DEF QInv
    <2>2. CASE ~(pc[w] = "poll" /\ Down(w) /\ UNCHANGED ran)
      <3>1. /\ pc[w] = "work" /\ beat' = [beat EXCEPT ![w] = "off"]
            /\ last' = [last EXCEPT ![w] = TRUE] /\ UNCHANGED <<task, scan>>
        BY Zenon, <1>8, <2>2 DEF Shutdown
      <3>2. last' \in [Workers -> BOOLEAN]
        BY Zenon, <1>0, <3>1
      <3>3. CASE task[w] \in Cancellable
        <4>1. PICK r \in ResultsOf(w) :
                 /\ pc' = [pc EXCEPT ![w] = FinishedBy(r)]
                 /\ result' = [result EXCEPT ![w] = r]
                 /\ Ran(w, r)
          BY <1>8, <2>2, <3>3, Zenon DEF Shutdown
        <4>2. r \in AllResults
          BY Zenon DEF ResultsOf, AllResults, Results
        <4> QED
          BY <2>0, <3>1, <3>2, <4>1, <4>2, HandlerEnds, Zenon
      <3>4. CASE task[w] \notin Cancellable
        <4>1. /\ pc' = [pc EXCEPT ![w] = "settle"]
              /\ result' = [result EXCEPT ![w] = "worker_shutdown"]
              /\ ran' = ran
          BY Zenon, <1>8, <2>2, <3>4 DEF Shutdown
        <4>2. FinishedBy("worker_shutdown") = "settle" /\ "worker_shutdown" \in AllResults
          BY Zenon DEF FinishedBy, AllResults
        <4> QED
          BY <2>0, <3>1, <3>2, <4>1, <4>2, HandlerEnds, Zenon
      <3> QED
        BY Zenon, <3>3, <3>4
    <2> QED
      BY Zenon, <2>1, <2>2
  <1>9. ASSUME NEW w \in Workers, Crash(w) PROVE QInv'
    BY Zenon, <1>1, <1>9, Leaves DEF Crash, QInv
  <1>10. ASSUME NEW w \in Workers, AlreadySucceeded(w) \/ AlreadyRequeued(w) \/ LeaveForRecovery(w) PROVE QInv'
    <2>1. UNCHANGED rows /\ ran' = ran /\ (Down(w) \/ (Done(w) /\ pc[w] # "work" /\ UNCHANGED beat))
      BY Zenon, <1>10 DEF AlreadySucceeded, AlreadyRequeued, LeaveForRecovery
    <2> QED
      BY Zenon, <1>1, <2>1, Leaves DEF QInv
  <1>11. ASSUME NEW w \in Workers, BeatStarts(w) PROVE QInv'
    <2>1. WorkerTypes'
      BY Zenon, <1>0, <1>11 DEF BeatStarts, WorkerTypes
    <2>2. OnlyMoves(w) /\ pc'[w] = "work" /\ task'[w] \in Jobs
      BY Zenon, <1>0, <1>11 DEF BeatStarts, OnlyMoves, QInv, WorkersInv, Busy
    <2> QED
      BY Zenon, <1>1, <1>11, <2>1, <2>2, WorkersKeep DEF QInv, BeatStarts
  <1>12. ASSUME NEW w \in Workers, BeatTakesEffect(w) PROVE QInv'
    <2>1. /\ UNCHANGED <<state, attempt, holder, waiting, due, ran, pc, task, result, last, scan>>
          /\ pc[w] = "work" /\ task[w] \in Jobs
      BY Zenon, <1>12 DEF BeatTakesEffect, QInv, WorkersInv, Busy
    <2>2. expired' \in [Jobs -> BOOLEAN]
      BY <1>0, <1>12, <2>1, Zenon DEF BeatTakesEffect
    <2>3. WorkerTypes'
      BY Zenon, <1>0, <1>12, <2>1 DEF BeatTakesEffect, WorkerTypes
    <2>4. OnlyMoves(w) /\ pc'[w] = "work" /\ task'[w] \in Jobs
      BY ZenonT(40), <1>0, <1>12, <2>1 DEF BeatTakesEffect, OnlyMoves
    <2>5. RowTypes' /\ RowsInv' /\ QueueInv' /\ OnlyLeases(w)
      BY Zenon, <1>0, <2>1, <2>2, RowsStay, LeasesStay
    <2> QED
      BY Zenon, <2>3, <2>4, <2>5, WorkersKeep DEF QInv
  <1>13. ASSUME NEW w \in Workers, Commit(w) PROVE QInv'
    <2>1. /\ task[w] \in Jobs /\ pc[w] = "work" /\ state[task[w]] = "running"
          /\ Ended(task[w], "succeeded") /\ ran' = [ran EXCEPT ![task[w]] = TRUE]
          /\ result' = [result EXCEPT ![w] = "ok"] /\ UNCHANGED <<pc, task, last, beat, scan>>
      BY Zenon, <1>13 DEF Commit, Live, QInv, WorkersInv, Busy
    <2>2. ran' \in [Jobs -> BOOLEAN] /\ ran'[task[w]] /\ \A j \in Jobs : ran[j] => ran'[j]
      BY Zenon, <1>0, <2>1
    <2>3. RowTypes' /\ RowsInv' /\ QueueInv'
      BY Zenon, <2>1, <2>2, Ends
    <2>4. OnlyLeases(w)
      <3>1. holder' = [holder EXCEPT ![task[w]] = None]
        BY Zenon, <2>1 DEF Ended, Released
      <3> QED
        BY <2>1, <2>2, <3>1, LeasesStay, Zenon
    <2>5. WorkerTypes'
      BY Zenon, <1>0, <2>1 DEF WorkerTypes, AllResults, Results
    <2>6. OnlyMoves(w) /\ pc'[w] = "work" /\ task'[w] \in Jobs
      BY Zenon, <1>0, <2>1 DEF OnlyMoves
    <2> QED
      BY Zenon, <2>3, <2>4, <2>5, <2>6, WorkersKeep DEF QInv
  <1>14. ASSUME NEW j \in Jobs, Expire(j) PROVE QInv'
    <2>1. expired' \in [Jobs -> BOOLEAN]
      BY Zenon, <1>0, <1>14 DEF Expire
    <2> QED
      BY Zenon, <1>0, <1>14, <2>1, RowsStay, LeasesStay, Watches DEF Expire, QInv
  <1>15. CASE BecomeDue
    <2>1. UNCHANGED <<state, attempt, holder, expired, waiting, pc, task, result, last, beat, scan, ran>>
      BY Zenon, <1>15 DEF BecomeDue
    <2>2. LeasesKept
      BY Zenon, <1>0, <2>1, LeasesStay
    <2>3. WorkerTypes' /\ WorkersInv'
      BY Zenon, <1>0, <2>1, <2>2, Watches
    <2>4. RowTypes' /\ RowsInv'
      BY <2>1, Zenon DEF QInv, RowTypes, RowsInv
    <2>5. QueueInv'
      <3>1. Len(waiting) \in Nat /\ due \in 0 .. Len(waiting) /\ Lists(waiting, Queued)
        BY SMTT(40) DEF QInv, QueueInv, Lists
      <3>2. due' \in 0 .. Len(waiting)
        BY SMTT(40), <3>1, <1>15 DEF BecomeDue
      <3> QED
        BY <2>1, <3>1, <3>2, Zenon DEF QueueInv, Queued
    <2> QED
      BY Zenon, <2>3, <2>4, <2>5 DEF QInv
  <1>16. CASE UNCHANGED vars
    <2>1. UNCHANGED rows /\ UNCHANGED <<pc, task, result, last, beat, scan, ran>>
      BY Zenon, <1>16 DEF vars
    <2> QED
      BY Zenon, <1>0, <1>1, <2>1, Watches DEF QInv
  <1> QED
    BY Zenon, <1>3, <1>4, <1>5, <1>6, <1>7, <1>8, <1>9, <1>10, <1>11, <1>12, <1>13, <1>14, <1>15,
       <1>16,
       RecoverOneKeeps, ClaimNextKeeps, SettleLeaseKeeps, CompleteLeaseKeeps
       DEF Next, Step, Returns, Recover

-----------------------------------------------------------------------------
(* QInv holds always. *)
LEMMA AlwaysQInv == Spec => []QInv
  BY InitQInv, NextQInv, PTL DEF Spec

(* TypeOK: the rows, the queue and the workers are in order: the lease     *)
(* columns are set exactly while a job runs, attempts stay within their    *)
(* budget, and the order by run_at (claim_next) has each queued job once.  *)
THEOREM QueueTypes == Spec => []TypeOK
  <1>1. ASSUME QInv PROVE TypeOK
    <2>1. /\ waiting \in Seq(Jobs) /\ due \in 0 .. Len(waiting)
          /\ \A k \in 1 .. Len(waiting) : waiting[k] \in Queued
          /\ \A k, l \in 1 .. Len(waiting) : waiting[k] = waiting[l] => k = l
          /\ \A j \in Queued : \E k \in 1 .. Len(waiting) : waiting[k] = j
      BY <1>1, Zenon DEF QInv, QueueInv, Lists
    <2>2. {waiting[k] : k \in 1 .. Len(waiting)} = Queued
      <3>1. \A x \in {waiting[k] : k \in 1 .. Len(waiting)} : x \in Queued
        BY SMTT(40), <2>1, SMT
      <3>2. \A x \in Queued : x \in {waiting[k] : k \in 1 .. Len(waiting)}
        BY Zenon, <2>1, Zenon
      <3> QED
        BY <3>1, <3>2, Zenon
    <2>3. DOMAIN waiting = 1 .. Len(waiting)
      BY <2>1
    <2>4. IsInjective(waiting)
      BY <2>1, <2>3, Zenon DEF IsInjective
    <2>5. /\ \A j \in Jobs : (holder[j] # None) = (state[j] = "running")
          /\ \A j \in Jobs : attempt[j] <= MaxAttempts[j]
      BY Zenon, <1>1 DEF QInv, RowsInv
    <2> QED
      BY <1>1, <2>1, <2>2, <2>4, <2>5, Zenon DEF TypeOK, QInv, RowTypes, WorkerTypes, States, Queued
  <1> QED
    BY <1>1, AlwaysQInv, PTL

(* SucceededMeansRan: complete_lease cannot complete the attempt of        *)
(* another claim.                                                          *)
THEOREM SuccessIsOfNewestClaim == Spec => []SucceededMeansRan
  <1>1. QInv => SucceededMeansRan
    BY Zenon DEF QInv, RowsInv, SucceededMeansRan
  <1> QED
    BY <1>1, AlwaysQInv, PTL

(* QueuedIsClaimable: neither queue_parameters nor the recovery puts a job *)
(* back into the queue whose budget is used up.                            *)
THEOREM BudgetLeftWhileQueued == Spec => []QueuedIsClaimable
  <1>1. QInv => QueuedIsClaimable
    BY Zenon DEF QInv, RowsInv, QueuedIsClaimable
  <1> QED
    BY <1>1, AlwaysQInv, PTL

(* LiveLeaseEndsByHolder: recovery (lock_expired_job) and the other        *)
(* workers leave a lease alone that has not run out.                       *)
THEOREM LeaseIsExclusive == Spec => LiveLeaseEndsByHolder
  <1>1. ASSUME QInv, [Next]_vars, NEW j \in Jobs, NEW w \in Workers, Live(w, j), holder'[j] # w
        PROVE  task[w] = j /\ pc[w] \in {"work", "complete", "settle"}
    <2>0. /\ state[j] = "running" /\ holder[j] = w /\ ~expired[j]
          /\ holder \in [Jobs -> Workers \cup {None}] /\ holder' # holder
      BY Zenon, <1>1 DEF Live, QInv, RowTypes
    <2>1. ASSUME NEW v \in Workers, NEW i \in Jobs, RecoverOne(v, i) PROVE FALSE
      <3>1. i # j \/ holder' = holder
        BY Zenon, <2>0, <2>1 DEF RecoverOne, LockExpired, rows
      <3>2. holder' = holder \/ holder' = [holder EXCEPT ![i] = None]
        BY Zenon, <2>1 DEF RecoverOne, RecoverRow, Ended, QueuedNow, Released, rows
      <3> QED
        BY Zenon, <1>1, <2>0, <3>1, <3>2
    <2>2. ASSUME NEW v \in Workers, ClaimNext(v) PROVE FALSE
      <3>1. PICK k \in 1 .. due : holder' = [holder EXCEPT ![waiting[k]] = v]
        BY <2>2, Zenon DEF ClaimNext
      <3>2. Lists(waiting, Queued) /\ due \in 0 .. Len(waiting) /\ Len(waiting) \in Nat
        BY <1>1 DEF QInv, QueueInv, Lists
      <3>3. k \in 1 .. Len(waiting)
        BY SMTT(40), <3>2
      <3>4. waiting[k] # j
        BY Zenon, <2>0, <3>2, <3>3 DEF Lists, Queued
      <3> QED
        BY Zenon, <1>1, <2>0, <3>1, <3>4
    <2>3. ASSUME NEW v \in Workers, Commit(v) \/ CompleteLease(v) \/ SettleLease(v)
          PROVE  task[w] = j /\ pc[w] \in {"work", "complete", "settle"}
      <3>1. /\ pc[v] \in {"work", "complete", "settle"}
            /\ holder' = holder \/ (holder[task[v]] = v /\ holder' = [holder EXCEPT ![task[v]] = None])
        BY <2>3, Zenon DEF Commit, CompleteLease, MayComplete, Live, SettleLease, LockRunning,
           Requeue,
                    Ended, QueuedNow, QueuedLater, Released, rows
      <3>2. task[v] = j
        BY <1>1, <2>0, <3>1, Zenon
      <3> QED
        BY Zenon, <2>0, <3>1, <3>2
    <2>4. ASSUME NEW v \in Workers,
                 \/ Start(v) \/ Recovered(v) \/ HeartbeatFails(v) \/ AlreadySucceeded(v)
                 \/ LeaveForRecovery(v) \/ AlreadyRequeued(v) \/ Returns(v) \/ BeatTakesEffect(v)
                 \/ Scan(v) \/ BeatStarts(v) \/ Shutdown(v) \/ Crash(v)
          PROVE  FALSE
      <3>1. holder' = holder
        BY <2>4, Zenon DEF Start, Recovered, HeartbeatFails, AlreadySucceeded, LeaveForRecovery,
                    AlreadyRequeued, Returns, Return, BeatTakesEffect, Scan, BeatStarts, Shutdown,
                    Crash, rows
      <3> QED
        BY Zenon, <2>0, <3>1
    <2>5. ~UNCHANGED vars /\ ~BecomeDue /\ \A i \in Jobs : ~Expire(i)
      BY Zenon, <2>0 DEF vars, rows, BecomeDue, Expire
    <2> QED
      BY <1>1, <2>1, <2>2, <2>3, <2>4, <2>5, Zenon DEF Next, Step, Recover
  <1>2. QInv /\ [Next]_vars
          => [\A j \in Jobs, w \in Workers :
                Live(w, j) /\ holder'[j] # w => task[w] = j /\ pc[w] \in {"work", "complete", "settle"}]_vars
    BY <1>1, Zenon
  <1> QED
    BY <1>2, AlwaysQInv, PTL DEF Spec, LiveLeaseEndsByHolder

(* NoLeaseForgotten: finish_job never goes back to claim_next with the     *)
(* lease still held, unless the result is left for reconciliation.         *)
THEOREM LeaseIsSettled == Spec => NoLeaseForgotten
  <1>1. ASSUME QInv, [Next]_vars, NEW w \in Workers, NEW j \in Jobs,
               task[w] = j, task'[w] = None, pc'[w] = "poll", result[w] # "reconcile"
        PROVE  holder'[j] # w
    <2>0. /\ task \in [Workers -> Jobs \cup {None}] /\ pc \in [Workers -> Places]
          /\ holder \in [Jobs -> Workers \cup {None}]
          /\ None \notin Jobs /\ None \notin Workers /\ j # None
      BY Zenon, <1>1, QueueAssumption DEF QInv, WorkerTypes, RowTypes
    <2>1. ASSUME NEW v \in Workers, task' = task \/ task' = [task EXCEPT ![v] = None]
          PROVE  v = w /\ task' = [task EXCEPT ![v] = None]
      BY Zenon, <1>1, <2>0, <2>1
    <2>2. ASSUME NEW v \in Workers, Down(v) PROVE FALSE
      BY Zenon, <1>1, <2>0, <2>1, <2>2 DEF Down
    <2>3. ASSUME NEW v \in Workers, UNCHANGED task PROVE FALSE
      BY Zenon, <1>1, <2>0, <2>3
    <2>4. ASSUME NEW v \in Workers, ClaimNext(v) PROVE FALSE
      <3>1. PICK k \in 1 .. due : Claimable(v, k) /\ (task' = [task EXCEPT ![v] = waiting[k]] \/ Down(v))
        BY <2>4, Zenon DEF ClaimNext
      <3>2. waiting[k] \in Jobs
        BY Zenon, <3>1 DEF Claimable, Capabilities
      <3> QED
        BY Zenon, <1>1, <2>0, <2>2, <3>1, <3>2
    <2>5. ASSUME NEW v \in Workers, CompleteLease(v) \/ SettleLease(v) PROVE holder'[j] # w
      <3>1. Down(v) \/ task' = task \/ (Done(v) /\ holder' = [holder EXCEPT ![task[v]] = None])
        BY <2>5, Zenon DEF CompleteLease, SettleLease, Requeue, Ended, QueuedNow, QueuedLater,
           Released
      <3>2. Done(v) /\ holder' = [holder EXCEPT ![task[v]] = None] /\ v = w
        BY Zenon, <2>1, <2>2, <2>3, <3>1 DEF Done
      <3> QED
        BY Zenon, <1>1, <2>0, <3>2
    <2>6. ASSUME NEW v \in Workers, AlreadySucceeded(v) \/ AlreadyRequeued(v) PROVE holder'[j] # w
      <3>1. holder' = holder /\ (Down(v) \/ (Done(v) /\ state[task[v]] # "running"))
        BY <2>6, Zenon DEF AlreadySucceeded, AlreadyRequeued, rows
      <3>2. v = w /\ state[j] # "running"
        BY Zenon, <1>1, <2>1, <2>2, <3>1 DEF Done
      <3>3. holder[j] = None
        BY <1>1, <3>2, Zenon DEF QInv, RowsInv
      <3> QED
        BY Zenon, <2>0, <3>1, <3>3
    <2>7. ASSUME NEW v \in Workers, LeaveForRecovery(v) PROVE FALSE
      <3>1. v = w /\ pc[v] = "finish"
        BY <2>1, <2>7, Zenon DEF LeaveForRecovery, Done
      <3> QED
        BY Zenon, <1>1, <3>1 DEF QInv, WorkersInv
    <2>8. ASSUME NEW v \in Workers,
                 \/ Start(v) \/ Recovered(v) \/ HeartbeatFails(v) \/ Returns(v) \/ BeatTakesEffect(v)
                 \/ Recover(v) \/ Commit(v) \/ BeatStarts(v) \/ Shutdown(v) \/ Crash(v)
          PROVE  FALSE
      <3>1. Down(v) \/ task' = task
        BY <2>8, Zenon DEF Start, Recovered, HeartbeatFails, Returns, Return, BeatTakesEffect,
           Recover,
                    Scan, RecoverOne, Commit, BeatStarts, Shutdown, Crash
      <3> QED
        BY Zenon, <2>2, <2>3, <3>1
    <2>9. ~UNCHANGED vars /\ ~BecomeDue /\ \A i \in Jobs : ~Expire(i)
      BY <1>1, <2>3, Zenon DEF vars, BecomeDue, Expire
    <2> QED
      BY <1>1, <2>4, <2>5, <2>6, <2>7, <2>8, <2>9, Zenon DEF Next, Step
  <1>2. QInv /\ [Next]_vars
          => [\A w \in Workers, j \in Jobs :
                task[w] = j /\ task'[w] = None /\ pc'[w] = "poll" /\ result[w] # "reconcile"
                   => holder'[j] # w]_vars
    BY <1>1, Zenon
  <1> QED
    BY <1>2, AlwaysQInv, PTL DEF Spec, NoLeaseForgotten

=============================================================================
