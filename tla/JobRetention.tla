---------------------------- MODULE JobRetention ----------------------------
(***************************************************************************)
(* Pruning of terminal job rows (crates/persistence/src/retention.rs and   *)
(* the terminal_job_retention_eligible of every aggregate).  A pass walks  *)
(* the terminal rows in the order of their completion, from a cursor that  *)
(* its worker process remembers; each row is deleted in a transaction of   *)
(* its own that locks the owner of the job, asks it, and locks the row.    *)
(*                                                                         *)
(* The owners are seen as retention sees them: what a job leaves behind    *)
(* when it ends, what its owner does afterwards, and from which states the *)
(* job is put back into the queue.                                         *)
(***************************************************************************)
EXTENDS Naturals, Sequences, FiniteSets, FiniteSetsExt

CONSTANTS
    Jobs,        \* numbers: the order of the identifiers
    Kind,        \* the kind of each job
    Workers,     \* worker processes; each prunes
    After,       \* how long rows of each terminal state are kept
    BatchSize, ScanSize,
    MaxNow,      \* the clock
    MaxFaults    \* restarts and failed passes

\* JobRetentionPolicy::validate
ValidPolicy ==
    /\ \A s \in DOMAIN After : After[s] \in Nat \ {0}
    /\ BatchSize \in Nat \ {0} /\ ScanSize \in Nat /\ ScanSize >= BatchSize

RetentionAssumption ==
    ValidPolicy /\ Jobs \subseteq Nat /\ MaxNow \in Nat /\ MaxFaults \in Nat

VARIABLES
    row,      \* queue.jobs: its state ("absent" once deleted) and completed_at
    owner,    \* the state of the aggregate of each job
    pass,     \* where each worker is in a pass
    saved,    \* the cursor each worker remembers between passes
    now, faults

vars == <<row, owner, pass, saved, now, faults>>

Terminal == {"succeeded", "failed", "cancelled"}
Start == <<0, 0>>     \* no cursor: before every row
Absent == [state |-> "absent", at |-> 0]
Live == [state |-> "queued", at |-> 0]

\* What a job of a kind can leave behind: its own state and its owner's.
Outcomes == [
    inspect |-> {<<"succeeded", "advanced">>, <<"failed", "failed_terminal">>},
    materialize |-> {<<"succeeded", "post_exists">>, <<"failed", "no_post">>},
    publish |-> {<<"succeeded", "published">>, <<"failed", "failed">>, <<"failed", "unknown">>, <<"cancelled", "cancelled">>},
    upload |-> {<<"succeeded", "ready">>, <<"failed", "storage_unknown">>, <<"failed", "pending_storage">>},
    caption |-> {<<"succeeded", "synced">>, <<"failed", "failed">>, <<"succeeded", "pending">>},
    cleanup |-> {<<"succeeded", "removed">>, <<"failed", "removed_unless_failed">>}]

\* What the owner does without this job.
Moves == [
    inspect |-> {<<"advanced", "materializing">>, <<"advanced", "completed">>, <<"materializing", "completed">>},
    materialize |-> {},
    publish |-> {<<"unknown", "published">>, <<"unknown", "failed">>},
    upload |-> {<<"storage_unknown", "ready">>},
    caption |-> {<<"synced", "pending">>, <<"pending", "syncing">>, <<"syncing", "synced">>},
    cleanup |-> {<<"removed_unless_failed", "superseded">>}]

\* The owner states from which the job is queued again.
Reopens == [
    inspect |-> {}, materialize |-> {}, publish |-> {"failed"},
    upload |-> {"storage_unknown", "pending_storage"}, caption |-> {"failed"}, cleanup |-> {}]

\* States in which the row is what is left to reconcile or to retry from.
Unresolved == [
    inspect |-> {}, materialize |-> {"no_post"}, publish |-> {"unknown"},
    upload |-> {"storage_unknown", "pending_storage"}, caption |-> {}, cleanup |-> {"removed_unless_failed"}]

Init ==
    /\ row = [j \in Jobs |-> Live]
    /\ owner = [j \in Jobs |-> "open"]
    /\ pass = [w \in Workers |-> [pc |-> "idle"]]
    /\ saved = [w \in Workers |-> Start]
    /\ now = 1 /\ faults = 0

\* The owner of a job is locked from the question to the end of the deletion.
Locked(j) == \E w \in Workers : pass[w].pc = "locked" /\ pass[w].job = j

-----------------------------------------------------------------------------
(* The owners.                                                             *)

\* The job ends, with what it leaves behind.
EndJob(j) ==
    /\ row[j] = Live /\ ~Locked(j)
    /\ \E o \in Outcomes[Kind[j]] :
         /\ now + After[o[1]] <= MaxNow
         /\ row' = [row EXCEPT ![j] = [state |-> o[1], at |-> now]]
         /\ owner' = [owner EXCEPT ![j] = o[2]]
    /\ UNCHANGED <<pass, saved, now, faults>>

MoveOwner(j) ==
    /\ ~Locked(j)
    /\ \E to \in {m[2] : m \in {m \in Moves[Kind[j]] : m[1] = owner[j]}} : owner' = [owner EXCEPT ![j] = to]
    /\ UNCHANGED <<row, pass, saved, now, faults>>

\* The fixed dedupe key: the old row is queued again, or a new one inserted.
Requeue(j) ==
    /\ ~Locked(j) /\ owner[j] \in Reopens[Kind[j]] /\ now < MaxNow
    /\ owner' = [owner EXCEPT ![j] = "open"]
    /\ row' = [row EXCEPT ![j] = Live]
    /\ UNCHANGED <<pass, saved, now, faults>>

Tick ==
    /\ now < MaxNow /\ now' = now + 1
    /\ UNCHANGED <<row, owner, pass, saved, faults>>

-----------------------------------------------------------------------------
(* The eligibility, one operator for every owner.                          *)

\* Mutant: an unknown outcome counts as settled.
PublicationSettledOrUnknown(kind, o) ==
    IF kind = "materialize" THEN o = "post_exists" ELSE o \in {"published", "failed", "cancelled", "unknown"}

InboxAllows(o) == o \in {"completed", "failed_terminal"}
PublisherAllows(kind, o) ==
    IF kind = "materialize" THEN o = "post_exists" ELSE o \in {"published", "failed", "cancelled"}
LibraryAllows(kind, o) ==
    IF kind = "upload" THEN o = "ready" ELSE o \in {"not_required", "synced", "failed"}

CleanupAllows(o, state) == o = "superseded" \/ (o = "removed" /\ state = "succeeded")

OwnerAllowsPrune(j, state) ==
    CASE Kind[j] = "inspect" -> InboxAllows(owner[j])
      [] Kind[j] \in {"materialize", "publish"} -> PublisherAllows(Kind[j], owner[j])
      [] Kind[j] \in {"upload", "caption"} -> LibraryAllows(Kind[j], owner[j])
      [] Kind[j] = "cleanup" -> CleanupAllows(owner[j], state)

-----------------------------------------------------------------------------
(* One pass.                                                               *)

Before(a, b) == a[1] < b[1] \/ (a[1] = b[1] /\ a[2] < b[2])
Place(j) == <<row[j].at, j>>
Cutoff(state) == IF now > After[state] THEN now - After[state] ELSE 0
Aged(j) == row[j].state \in Terminal /\ row[j].at <= Cutoff(row[j].state)

\* load_candidates: the first rows after the cursor, in order.
Candidates(cursor) ==
    LET all == {j \in Jobs : Aged(j) /\ Before(cursor, Place(j))}
        page == {j \in all : Cardinality({k \in all : Before(Place(k), Place(j))}) < ScanSize}
    IN  [i \in 1 .. Cardinality(page) |->
           CHOOSE j \in page : Cardinality({k \in page : Before(Place(k), Place(j))}) = i - 1]

StartPass(w) ==
    /\ pass[w].pc = "idle"
    /\ pass' = [pass EXCEPT ![w] = [pc |-> "load", cursor |-> saved[w], page |-> <<>>, seen |-> 0, pruned |-> 0]]
    /\ UNCHANGED <<row, owner, saved, now, faults>>

BatchFull(pruned) == pruned >= BatchSize

EndPass(w, cursor) ==
    /\ pass' = [pass EXCEPT ![w] = [pc |-> "idle"]]
    /\ saved' = [saved EXCEPT ![w] = cursor]

LoadCandidates(w) ==
    /\ pass[w].pc = "load"
    /\ LET page == Candidates(pass[w].cursor)
       IN  IF page = <<>>
           THEN EndPass(w, Start)
           ELSE /\ pass' = [pass EXCEPT ![w].pc = "next",
                              ![w].page = [i \in DOMAIN page |-> [job |-> page[i], state |-> row[page[i]].state, at |-> row[page[i]].at]]]
                /\ UNCHANGED saved
    /\ UNCHANGED <<row, owner, now, faults>>

\* The next row of the page, which becomes the cursor.
TakeCandidate(w) ==
    /\ pass[w].pc = "next" /\ pass[w].page # <<>>
    /\ LET c == Head(pass[w].page)
       IN  pass' = [pass EXCEPT ![w] = [pc |-> "owner", job |-> c.job, state |-> c.state, cutoff |-> Cutoff(c.state),
                      cursor |-> <<c.at, c.job>>, page |-> Tail(@.page), seen |-> @.seen + 1, pruned |-> @.pruned]]
    /\ UNCHANGED <<row, owner, saved, now, faults>>

Continue(w, pruned) ==
    pass' = [pass EXCEPT ![w] = [pc |-> "next", cursor |-> @.cursor, page |-> @.page, seen |-> @.seen, pruned |-> pruned]]

AskOwner(w) ==
    /\ pass[w].pc = "owner" /\ ~Locked(pass[w].job)
    /\ IF OwnerAllowsPrune(pass[w].job, pass[w].state) THEN pass' = [pass EXCEPT ![w].pc = "locked"] ELSE Continue(w, pass[w].pruned)
    /\ UNCHANGED <<row, owner, saved, now, faults>>

\* lock_terminal_candidate: the row as the page showed it, old enough as it is now.
LockTerminalCandidate(w) ==
    LET r == row[pass[w].job] IN r.state = pass[w].state /\ r.at <= pass[w].cutoff

DeleteRow(w) ==
    /\ pass[w].pc = "locked"
    /\ IF LockTerminalCandidate(w)
       THEN /\ row' = [row EXCEPT ![pass[w].job] = Absent]
            /\ IF BatchFull(pass[w].pruned + 1)
               THEN EndPass(w, pass[w].cursor)
               ELSE Continue(w, pass[w].pruned + 1) /\ UNCHANGED saved
       ELSE Continue(w, pass[w].pruned) /\ UNCHANGED <<row, saved>>
    /\ UNCHANGED <<owner, now, faults>>

EndPage(w) ==
    /\ pass[w].pc = "next" /\ pass[w].page = <<>>
    /\ IF pass[w].seen >= ScanSize
       THEN EndPass(w, pass[w].cursor)
       ELSE pass' = [pass EXCEPT ![w].pc = "load"] /\ UNCHANGED saved
    /\ UNCHANGED <<row, owner, now, faults>>

\* A statement fails: the pass is over, the remembered cursor stays.
PassFails(w) ==
    /\ pass[w].pc # "idle" /\ faults < MaxFaults
    /\ pass' = [pass EXCEPT ![w] = [pc |-> "idle"]]
    /\ faults' = faults + 1
    /\ UNCHANGED <<row, owner, saved, now>>

\* The worker process starts again: its first pass has no cursor.
RestartWorker(w) ==
    /\ faults < MaxFaults
    /\ pass' = [pass EXCEPT ![w] = [pc |-> "idle"]]
    /\ saved' = [saved EXCEPT ![w] = Start]
    /\ faults' = faults + 1
    /\ UNCHANGED <<row, owner, now>>

Prune(w) ==
    \/ StartPass(w) \/ LoadCandidates(w) \/ TakeCandidate(w)
    \/ AskOwner(w) \/ DeleteRow(w) \/ EndPage(w)

Next ==
    \/ \E j \in Jobs : EndJob(j) \/ MoveOwner(j) \/ Requeue(j)
    \/ \E w \in Workers : Prune(w) \/ PassFails(w) \/ RestartWorker(w)
    \/ Tick

Spec == Init /\ [][Next]_vars

-----------------------------------------------------------------------------

TypeOK ==
    /\ \A j \in Jobs : row[j].state \in Terminal \cup {"absent", "queued"} /\ row[j].at \in 0 .. MaxNow
    /\ \A w \in Workers :
         /\ pass[w].pc \in {"idle", "load", "next", "owner", "locked"}
         /\ pass[w].pc # "idle" => pass[w].pruned < BatchSize
         /\ pass[w].pc # "idle" => \A i \in DOMAIN pass[w].page : pass[w].page[i].job \in Jobs

(* The row of a job whose effect is not settled is kept: an open owner has *)
(* its live job, and an unknown publication, an unknown or failed upload,  *)
(* a failed materialization and a failed cleanup keep the terminal row     *)
(* that reconciliation and retries start from, whatever races with the     *)
(* pass (terminal_job_retention_eligible of every owner).                  *)
UnresolvedKeepsJob ==
    \A j \in Jobs :
        /\ owner[j] = "open" => row[j] = Live
        /\ owner[j] \in Unresolved[Kind[j]] => row[j].state \in Terminal

(* A pass inspects at most ScanSize candidates.                            *)
ScanBounded == \A w \in Workers : pass[w].pc # "idle" => pass[w].seen <= ScanSize

=============================================================================
