------------------------------- MODULE JobQueue -------------------------------
(***************************************************************************)
(* The durable queue without the families that use it: claims, heartbeats, *)
(* completion, settlement and stale-lease recovery                         *)
(* (crates/persistence/src/jobs.rs, settlement.rs), and the worker that    *)
(* drives them (apps/worker/src/runner.rs).  What a handler does is one    *)
(* of the results that it may return.                                      *)
(*                                                                         *)
(* waiting holds the queued jobs in the order of run_at; its first due     *)
(* jobs have run_at <= now.  Every job the system enqueues has priority 0. *)
(* A lease token is named by the worker that holds it: a worker runs one   *)
(* job at a time, and ends when it finds a lease lost.                     *)
(***************************************************************************)
EXTENDS Integers, Sequences, SequencesExt

CONSTANTS
    Jobs,
    Workers,
    Handles(_, _),   \* does worker w register a handler for job j?
    Cancellable,     \* jobs whose handler can be cancelled
    Settles,         \* jobs whose handler completes the job in its own transaction
    Malformed,       \* jobs whose payload does not decode
    Noisy,           \* jobs that may give their attempt back
    Batches,         \* the sets of jobs that may be queued at the start
    MaxAttempts,     \* the attempt budget of each job (jobs.max_attempts)
    MaxStops,        \* crashes and shut-downs of workers
    None

ASSUME QueueAssumption ==
    /\ MaxAttempts \in [Jobs -> Nat \ {0}]
    /\ MaxStops \in Nat
    /\ IsFiniteSet(Jobs)
    /\ Batches \subseteq SUBSET Jobs
    /\ Cancellable \cup Settles \cup Malformed \cup Noisy \subseteq Jobs
    /\ None \notin Jobs \cup Workers

VARIABLES
    state,     \* the rows: state,
    attempt,   \* attempt_count,
    holder,    \* lease_token and lease_owner,
    expired,   \* lease_expires_at <= now,
    class,     \* error_class
    waiting, due,
    pc,        \* the workers: where each stands,
    task,      \* its job,
    number,    \* the attempt number of its lease,
    result,    \* what its handler returned,
    last,      \* whether the loop ends after this job,
    beat,      \* its heartbeat task
    scan,      \* and the candidates its recovery has read
    stops,
    ran        \* history: whether the handler of the newest claim succeeded

rows == <<state, attempt, holder, expired, class, waiting, due>>

vars == <<rows, pc, task, number, result, last, beat, scan, stops, ran>>

(* The rows as the processes find them: a batch is queued, and the other   *)
(* jobs succeeded earlier.                                                 *)
Init ==
    /\ \E batch \in Batches :
          /\ state = [j \in Jobs |-> IF j \in batch THEN "queued" ELSE "succeeded"]
          /\ attempt = [j \in Jobs |-> IF j \in batch THEN 0 ELSE 1]
          /\ ran = [j \in Jobs |-> j \notin batch]
          /\ waiting \in SetToSeqs(batch)
    /\ holder = [j \in Jobs |-> None]
    /\ expired = [j \in Jobs |-> FALSE]
    /\ class = [j \in Jobs |-> None]
    /\ due = Len(waiting)
    /\ pc = [w \in Workers |-> "down"]
    /\ task = [w \in Workers |-> None]
    /\ number = [w \in Workers |-> 0]
    /\ result = [w \in Workers |-> None]
    /\ last = [w \in Workers |-> FALSE]
    /\ beat = [w \in Workers |-> "off"]
    /\ scan = [w \in Workers |-> {}]
    /\ stops = 0

(* HandlerFailure, and success; Retry and Defer settle a job alike *)
Results == {"ok", "retry", "fail", "reconcile"}

Refunding == {"refund"}

(* What the handler of w can still return *)
ResultsOf(w) ==
    IF result[w] = "ok"
    THEN {"ok"}
    ELSE Results \cup (IF task[w] \in Noisy THEN Refunding ELSE {})

(* The step of finish_job that takes a result *)
FinishedBy(r) ==
    CASE r = "ok" -> "complete"
      [] r = "reconcile" -> "finish"
      [] OTHER -> "settle"

(* History: the handler of the newest claim returned *)
Ran(w, r) ==
    ran' = IF r = "ok" /\ holder[task[w]] = w THEN [ran EXCEPT ![task[w]] = TRUE] ELSE ran

Live(w, j) == state[j] = "running" /\ holder[j] = w /\ ~expired[j]

(* The row of a job that leaves the running state *)
Released(j) ==
    /\ holder' = [holder EXCEPT ![j] = None]
    /\ expired' = [expired EXCEPT ![j] = FALSE]

(* ... for good *)
Ended(j, end) ==
    /\ state' = [state EXCEPT ![j] = end]
    /\ Released(j)
    /\ UNCHANGED <<attempt, waiting, due>>

(* ... or to run again at once, behind the jobs that are due *)
QueuedNow(j) ==
    /\ state' = [state EXCEPT ![j] = "queued"]
    /\ waiting' = InsertAt(waiting, due + 1, j)
    /\ due' = due + 1
    /\ Released(j)

(* ... or later, at a run_at among those to come *)
QueuedLater(j) ==
    /\ state' = [state EXCEPT ![j] = "queued"]
    /\ \E k \in due + 1 .. Len(waiting) + 1 : waiting' = InsertAt(waiting, k, j)
    /\ UNCHANGED due
    /\ Released(j)

(* The worker's next place when it is done with its job *)
Done(w) ==
    /\ pc' = [pc EXCEPT ![w] = IF last[w] THEN "down" ELSE "poll"]
    /\ task' = [task EXCEPT ![w] = None]
    /\ number' = [number EXCEPT ![w] = 0]
    /\ result' = [result EXCEPT ![w] = None]
    /\ last' = [last EXCEPT ![w] = FALSE]
    /\ scan' = IF last[w] THEN [scan EXCEPT ![w] = {}] ELSE scan

(* The process ends: an error left run_loop, or a crash *)
Down(w) ==
    /\ pc' = [pc EXCEPT ![w] = "down"]
    /\ task' = [task EXCEPT ![w] = None]
    /\ number' = [number EXCEPT ![w] = 0]
    /\ result' = [result EXCEPT ![w] = None]
    /\ last' = [last EXCEPT ![w] = FALSE]
    /\ beat' = [beat EXCEPT ![w] = "off"]
    /\ scan' = [scan EXCEPT ![w] = {}]

Expirees == {j \in Jobs : state[j] = "running" /\ expired[j]}

-----------------------------------------------------------------------------

(* The supervisor starts the process; run recovers before it polls *)
Start(w) ==
    /\ pc[w] = "down"
    /\ pc' = [pc EXCEPT ![w] = "recover"]
    /\ scan' = [scan EXCEPT ![w] = Expirees]
    /\ UNCHANGED <<rows, task, number, result, last, beat, stops, ran>>

(* recover_stale_leases_periodically, recover_stale *)
Scan(w) ==
    /\ pc[w] \notin {"down", "recover"}
    /\ scan[w] = {}
    /\ Expirees # {}
    /\ scan' = [scan EXCEPT ![w] = Expirees]
    /\ UNCHANGED <<rows, pc, task, number, result, last, beat, stops, ran>>

(* Faulty variant of LockExpired: the candidate is not read again. *)
TrustScan(j) == state[j] = "running"

(* lock_expired_job *)
LockExpired(j) == state[j] = "running" /\ expired[j]

(* A recovered job fails with its last attempt, or runs again at once *)
RecoverRow(j) ==
    /\ IF attempt[j] >= MaxAttempts[j]
       THEN Ended(j, "failed")
       ELSE QueuedNow(j) /\ UNCHANGED attempt
    /\ class' = [class EXCEPT ![j] = IF @ = None THEN "lease_expired" ELSE @]

(* recover_one: recover_queue_only_in_transaction and, for a payload that  *)
(* does not decode, recover_queue_only_untyped                             *)
RecoverOne(w, j) ==
    /\ j \in scan[w]
    /\ scan' = [scan EXCEPT ![w] = @ \ {j}]
    /\ IF LockExpired(j)
       THEN RecoverRow(j)
       ELSE UNCHANGED rows
    /\ UNCHANGED <<pc, task, number, result, last, beat, stops, ran>>

(* recover_stale_leases().await? is over *)
Recovered(w) ==
    /\ pc[w] = "recover"
    /\ scan[w] = {}
    /\ pc' = [pc EXCEPT ![w] = "poll"]
    /\ UNCHANGED <<rows, task, number, result, last, beat, scan, stops, ran>>

(* HandlerRegistry::job_types *)
Capabilities(w) == {j \in Jobs : Handles(w, j)}

Claimable(w, k) == waiting[k] \in Capabilities(w) /\ attempt[waiting[k]] < MaxAttempts[waiting[k]]

(* JobRow::into_job *)
Decodes(j) == j \notin Malformed

(* claim_next, and the heartbeat task that execute_handler spawns.  The    *)
(* claim is committed before the payload is decoded; an error there ends   *)
(* the worker.                                                             *)
ClaimNext(w) ==
    /\ pc[w] = "poll"
    /\ \E k \in 1 .. due :
          /\ Claimable(w, k)
          /\ \A m \in 1 .. k - 1 : ~Claimable(w, m)
          /\ LET j == waiting[k] IN
             /\ state' = [state EXCEPT ![j] = "running"]
             /\ attempt' = [attempt EXCEPT ![j] = @ + 1]
             /\ holder' = [holder EXCEPT ![j] = w]
             /\ waiting' = RemoveAt(waiting, k)
             /\ ran' = [ran EXCEPT ![j] = FALSE]
             /\ \/ /\ Decodes(j)
                   /\ task' = [task EXCEPT ![w] = j]
                   /\ number' = [number EXCEPT ![w] = attempt[j] + 1]
                   /\ pc' = [pc EXCEPT ![w] = "work"]
                   /\ beat' = [beat EXCEPT ![w] = "on"]
                   /\ UNCHANGED <<result, last, scan>>
                \/ ~Decodes(j) /\ Down(w)
    /\ due' = due - 1
    /\ UNCHANGED <<expired, class, stops>>

(* succeed_current_job_attempt inside the handler's own transaction *)
Commit(w) ==
    /\ pc[w] = "work"
    /\ task[w] \in Settles
    /\ Live(w, task[w])
    /\ Ended(task[w], "succeeded")
    /\ ran' = [ran EXCEPT ![task[w]] = TRUE]
    /\ result' = [result EXCEPT ![w] = "ok"]
    /\ UNCHANGED <<class, pc, task, number, last, beat, scan, stops>>

(* heartbeat_loop: the statement starts, with the time it will compare     *)
BeatStarts(w) ==
    /\ pc[w] = "work"
    /\ beat[w] = "on"
    /\ beat' = [beat EXCEPT ![w] = IF Live(w, task[w]) THEN "sent" ELSE "failed"]
    /\ UNCHANGED <<rows, pc, task, number, result, last, scan, stops, ran>>

(* ... and takes effect, which may be after the lease has run out          *)
BeatTakesEffect(w) ==
    /\ beat[w] = "sent"
    /\ LET j == task[w] IN
       IF state[j] = "running" /\ holder[j] = w
       THEN /\ expired' = [expired EXCEPT ![j] = FALSE]
            /\ beat' = [beat EXCEPT ![w] = "on"]
       ELSE /\ beat' = [beat EXCEPT ![w] = "failed"]
            /\ UNCHANGED expired
    /\ UNCHANGED <<state, attempt, holder, class, waiting, due, pc, task, number, result,
                   last, scan, stops, ran>>

(* execute_handler when the heartbeat task ends first: a handler that can  *)
(* be cancelled is awaited and settled, any other is dropped               *)
HeartbeatFails(w) ==
    /\ pc[w] = "work"
    /\ beat[w] = "failed"
    /\ IF task[w] \in Cancellable
       THEN /\ \E r \in ResultsOf(w) :
                  LET kept == IF r = "ok" THEN "fail" ELSE r IN
                  /\ pc' = [pc EXCEPT ![w] = FinishedBy(kept)]
                  /\ result' = [result EXCEPT ![w] = kept]
            /\ last' = [last EXCEPT ![w] = TRUE]
            /\ beat' = [beat EXCEPT ![w] = "off"]
            /\ UNCHANGED <<task, number, scan>>
       ELSE Down(w)
    /\ UNCHANGED <<rows, stops, ran>>

(* The handler returns; its heartbeat is stopped and awaited *)
Return(w, r) ==
    /\ pc[w] = "work"
    /\ beat[w] \in {"on", "failed"}
    /\ r \in ResultsOf(w)
    /\ IF beat[w] = "failed"
       THEN Down(w)
       ELSE /\ pc' = [pc EXCEPT ![w] = FinishedBy(r)]
            /\ result' = [result EXCEPT ![w] = r]
            /\ beat' = [beat EXCEPT ![w] = "off"]
            /\ UNCHANGED <<task, number, last, scan>>
    /\ Ran(w, r)
    /\ UNCHANGED <<rows, stops>>

(* SIGTERM: an idle worker ends, a cancellable handler is cancelled and    *)
(* awaited, any other is dropped and its job retried                       *)
Shutdown(w) ==
    /\ stops < MaxStops
    /\ stops' = stops + 1
    /\ \/ pc[w] = "poll" /\ Down(w) /\ UNCHANGED ran
       \/ /\ pc[w] = "work"
          /\ beat[w] = "on"
          /\ beat' = [beat EXCEPT ![w] = "off"]
          /\ last' = [last EXCEPT ![w] = TRUE]
          /\ \/ /\ task[w] \in Cancellable
                /\ \E r \in ResultsOf(w) :
                      /\ pc' = [pc EXCEPT ![w] = FinishedBy(r)]
                      /\ result' = [result EXCEPT ![w] = r]
                      /\ Ran(w, r)
             \/ /\ task[w] \notin Cancellable
                /\ pc' = [pc EXCEPT ![w] = "settle"]
                /\ result' = [result EXCEPT ![w] = "worker_shutdown"]
                /\ UNCHANGED ran
          /\ UNCHANGED <<task, number, scan>>
    /\ UNCHANGED rows

Crash(w) ==
    /\ stops < MaxStops
    /\ stops' = stops + 1
    /\ pc[w] # "down"
    /\ Down(w)
    /\ UNCHANGED <<rows, ran>>

(* Faulty variant of MayComplete: the row is matched by its id alone. *)
MayCompleteAny(w, j) == state[j] = "running"

MayComplete(w, j) == Live(w, j)

(* complete_lease: the update ... *)
CompleteLease(w) ==
    /\ pc[w] = "complete"
    /\ IF MayComplete(w, task[w])
       THEN Ended(task[w], "succeeded") /\ Done(w)
       ELSE /\ pc' = [pc EXCEPT ![w] = "confirm"]
            /\ UNCHANGED <<state, attempt, holder, expired, waiting, due,
                           task, number, result, last, scan>>
    /\ UNCHANGED <<class, beat, stops, ran>>

(* ... and the look for a handler that completed the job itself *)
AlreadySucceeded(w) ==
    /\ pc[w] = "confirm"
    /\ IF state[task[w]] = "succeeded" /\ attempt[task[w]] = number[w]
       THEN Done(w) /\ UNCHANGED beat
       ELSE Down(w)
    /\ UNCHANGED <<rows, stops, ran>>

(* finish_job leaves the lease to the recovery of its family *)
LeaveForRecovery(w) ==
    /\ pc[w] = "finish"
    /\ Done(w)
    /\ UNCHANGED <<rows, beat, stops, ran>>

(* Faulty variant of Requeue: the job keeps its old place. *)
RequeueInFront(j, r) ==
    /\ state' = [state EXCEPT ![j] = "queued"]
    /\ waiting' = <<j>> \o waiting
    /\ due' = due + 1
    /\ Released(j)

(* The run_at of a job that is to run again *)
Requeue(j, r) == IF r = "worker_shutdown" THEN QueuedNow(j) ELSE QueuedLater(j)

(* queue_parameters *)
Terminal(j, r) == r = "fail" \/ (r \notin Refunding /\ attempt[j] >= MaxAttempts[j])

(* lock_running_job *)
LockRunning(w, j, allow_expired) ==
    state[j] = "running" /\ holder[j] = w /\ (allow_expired \/ ~expired[j])

(* settle_lease: lock_running_job, queue_parameters, update_locked_job *)
SettleLease(w) ==
    LET j == task[w]
        r == result[w]
        refund == r \in Refunding
    IN
    /\ pc[w] = "settle"
    /\ \/ /\ LockRunning(w, j, refund)
          /\ class' = [class EXCEPT ![j] = r]
          /\ IF Terminal(j, r)
             THEN Ended(j, "failed")
             ELSE /\ Requeue(j, r)
                  /\ attempt' = [attempt EXCEPT ![j] = IF refund THEN @ - 1 ELSE @]
          /\ Done(w)
          /\ UNCHANGED beat
       \/ /\ ~LockRunning(w, j, refund)
          /\ UNCHANGED rows
          /\ IF refund
             THEN /\ pc' = [pc EXCEPT ![w] = "requeued"]
                  /\ UNCHANGED <<task, number, result, last, beat, scan>>
             ELSE Down(w)
    /\ UNCHANGED <<stops, ran>>

(* load_already_requeued *)
AlreadyRequeued(w) ==
    /\ pc[w] = "requeued"
    /\ IF state[task[w]] = "queued" /\ class[task[w]] = result[w]
       THEN Done(w) /\ UNCHANGED beat
       ELSE Down(w)
    /\ UNCHANGED <<rows, stops, ran>>

-----------------------------------------------------------------------------

(* Time passes: a lease runs out, which a busy worker prevents only if its *)
(* heartbeats arrive                                                       *)
Expire(j) ==
    /\ state[j] = "running"
    /\ ~expired[j]
    /\ expired' = [expired EXCEPT ![j] = TRUE]
    /\ UNCHANGED <<state, attempt, holder, class, waiting, due, pc, task, number, result,
                   last, beat, scan, stops, ran>>

(* ... and a job becomes due *)
BecomeDue ==
    /\ due < Len(waiting)
    /\ due' = due + 1
    /\ UNCHANGED <<state, attempt, holder, expired, class, waiting, pc, task, number, result,
                   last, beat, scan, stops, ran>>

Step(w) ==
    \/ Start(w)
    \/ Recovered(w)
    \/ ClaimNext(w)
    \/ HeartbeatFails(w)
    \/ CompleteLease(w)
    \/ AlreadySucceeded(w)
    \/ LeaveForRecovery(w)
    \/ SettleLease(w)
    \/ AlreadyRequeued(w)

Returns(w) == \E r \in Results \cup Refunding : Return(w, r)

Recover(w) == Scan(w) \/ \E j \in Jobs : RecoverOne(w, j)

Next ==
    \/ \E w \in Workers : Step(w) \/ Returns(w) \/ BeatTakesEffect(w) \/ Recover(w)
    \/ \E w \in Workers : Commit(w) \/ BeatStarts(w) \/ Shutdown(w) \/ Crash(w)
    \/ \E j \in Jobs : Expire(j)
    \/ BecomeDue

Spec == Init /\ [][Next]_vars

(* Processes are restarted and run, handlers return between heartbeats     *)
(* (each has a time limit), recovery runs every half lease, a lease that   *)
(* nobody renews runs out, and the time a delayed job waits for comes.     *)
FairSpec ==
    /\ Spec
    /\ \A w \in Workers : WF_vars(Step(w)) /\ SF_vars(Returns(w)) /\ WF_vars(Recover(w))
    /\ \A w \in Workers : WF_vars(BeatTakesEffect(w))
    /\ \A j \in Jobs : WF_vars((\A w \in Workers : task[w] # j) /\ Expire(j))
    /\ WF_vars(BecomeDue)

-----------------------------------------------------------------------------

(* Every variable has its type, attempts stay within their budget, and the *)
(* queue holds each queued job once.                                       *)
TypeOK ==
    /\ state \in [Jobs -> {"queued", "running", "succeeded", "failed"}]
    /\ attempt \in [Jobs -> Nat] /\ \A j \in Jobs : attempt[j] <= MaxAttempts[j]
    /\ holder \in [Jobs -> Workers \cup {None}]
    /\ \A j \in Jobs : (holder[j] # None) = (state[j] = "running")
    /\ expired \in [Jobs -> BOOLEAN]
    /\ {waiting[k] : k \in 1 .. Len(waiting)} = {j \in Jobs : state[j] = "queued"}
    /\ IsInjective(waiting)
    /\ due \in 0 .. Len(waiting)
    /\ task \in [Workers -> Jobs \cup {None}]
    /\ scan \in [Workers -> SUBSET Jobs]
    /\ beat \in [Workers -> {"off", "on", "sent", "failed"}]

(* A job has succeeded only if the handler of its newest claim did: a      *)
(* worker that lost its lease cannot complete the attempt of its successor *)
(* (complete_lease).                                                       *)
SucceededMeansRan ==
    \A j \in Jobs : state[j] = "succeeded" => ran[j]

(* A queued job can be claimed: its budget is not used up (queue_parameters *)
(* and the recovery end a job with its last attempt).                      *)
QueuedIsClaimable ==
    \A j \in Jobs : state[j] = "queued" => attempt[j] < MaxAttempts[j]

(* A lease that has not run out is ended by its holder alone.  Recovery    *)
(* acts on candidates it read earlier, and a heartbeat that started in     *)
(* time may renew one of them (lock_expired_job, heartbeat_lease).         *)
LiveLeaseEndsByHolder ==
    [][\A j \in Jobs, w \in Workers :
          Live(w, j) /\ holder'[j] # w => task[w] = j /\ pc[w] \in {"work", "complete", "settle"}]_vars

(* A worker never goes back to polling with its job still leased to it,    *)
(* unless the result is left for reconciliation (finish_job).              *)
NoLeaseForgotten ==
    [][\A w \in Workers, j \in Jobs :
          task[w] = j /\ task'[w] = None /\ pc'[w] = "poll" /\ result[w] # "reconcile"
             => holder'[j] # w]_vars

(* Every job that some worker handles ends, however often workers stop,    *)
(* leases run out and other jobs give their attempts back: the order by    *)
(* run_at keeps them behind (claim_next).                                  *)
EveryJobEnds ==
    \A j \in Jobs \ Noisy :
        (\E w \in Workers : Handles(w, j)) => <>(state[j] \in {"succeeded", "failed"})

=============================================================================
