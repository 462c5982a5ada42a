---------------------------- MODULE DiskAdmission ----------------------------
(***************************************************************************)
(* Admission of large workspace operations (crates/media/src/disk.rs;      *)
(* WorkspaceAdmission in apps/worker/src/common.rs).  Before a download, a *)
(* normalisation or a fingerprint extraction, a worker compares the free   *)
(* bytes of the shared volume with the reserve plus twice what the         *)
(* operation may write.  Nothing is set aside: between the check and the   *)
(* last byte written the other worker checks, writes and finishes, and     *)
(* workspaces are cleaned up.                                              *)
(*                                                                         *)
(* The deployment runs two workers, each one operation at a time           *)
(* (MAX_CONCURRENT_WORKSPACE_OPERATIONS).                                  *)
(***************************************************************************)
EXTENDS Naturals

CONSTANTS
    Capacity,   \* bytes of the volume
    Reserve,    \* work_free_space_reserve_bytes
    Sizes,      \* what operations may write at most
    U64Max      \* the largest u64

(* The configuration refuses a reserve of zero (MediaConfig::validate). *)
ASSUME DiskAssumption ==
    /\ U64Max \in Nat
    /\ Capacity \in 0 .. U64Max
    /\ Reserve \in 1 .. U64Max
    /\ Sizes \subseteq 1 .. U64Max

VARIABLES
    free,   \* what statvfs reports
    left,   \* what each worker's operation may still write
    seen    \* the free space at its admission

vars == <<free, left, seen>>

Workers == {1, 2}

Init ==
    /\ free \in 0 .. Capacity
    /\ left = [w \in Workers |-> 0]
    /\ seen = [w \in Workers |-> 0]

(* Faulty variant of concurrent_operation_budget: one worker's demand. *)
OneOperationBudget(n) == n

(* concurrent_operation_budget: saturating_mul with the two workers *)
concurrent_operation_budget(n) == IF 2 * n > U64Max THEN U64Max ELSE 2 * n

(* DiskSpace::admits: checked_add, an overflow refuses *)
admits(n) ==
    /\ Reserve + concurrent_operation_budget(n) <= U64Max
    /\ free >= Reserve + concurrent_operation_budget(n)

(* check_disk_space: the check is made on what the file system reports     *)
(* now, whatever the other worker is about to write                        *)
check_disk_space(n) == admits(n)

(* WorkspaceAdmission::admit; a refusal defers the job, which changes      *)
(* nothing on the volume                                                   *)
Admit(w, n) ==
    /\ left[w] = 0
    /\ check_disk_space(n)
    /\ left' = [left EXCEPT ![w] = n]
    /\ seen' = [seen EXCEPT ![w] = free]
    /\ UNCHANGED free

(* The operation writes a byte of its bounded output *)
Write(w) ==
    /\ left[w] > 0
    /\ free > 0
    /\ left' = [left EXCEPT ![w] = @ - 1]
    /\ free' = free - 1
    /\ UNCHANGED seen

(* It ends with less than its bound; what it wrote stays *)
Finish(w) ==
    /\ left[w] > 0
    /\ left' = [left EXCEPT ![w] = 0]
    /\ UNCHANGED <<free, seen>>

(* Workspace cleanup *)
Reclaim ==
    /\ free < Capacity
    /\ free' = free + 1
    /\ UNCHANGED <<left, seen>>

Next ==
    \/ \E w \in Workers, n \in Sizes : Admit(w, n)
    \/ \E w \in Workers : Write(w)
    \/ \E w \in Workers : Finish(w)
    \/ Reclaim

Spec == Init /\ [][Next]_vars

-----------------------------------------------------------------------------

(* Every variable has its type: free bytes within the volume, what is left *)
(* to write within an operation's bound.                                   *)
TypeOK ==
    /\ free \in 0 .. Capacity
    /\ left \in [Workers -> 0 .. U64Max]
    /\ seen \in [Workers -> 0 .. Capacity]

Busy(w) == left[w] > 0

(* Whatever two operations that were admitted on the same free-space value *)
(* still write, the reserve remains, also when they demand different       *)
(* amounts and one was admitted long after the other (admit doubles the    *)
(* demand for this).                                                       *)
SameViewKeepsReserve ==
    Busy(1) /\ Busy(2) /\ seen[1] = seen[2] => free >= Reserve + left[1] + left[2]

(* When all operations have the same bound, no sequence of admissions,     *)
(* writes and cleanups ever takes the volume below the reserve: a write    *)
(* never crosses it.                                                       *)
ReserveKept ==
    [][free >= Reserve => free' >= Reserve]_vars

(* The operations have one bound. *)
Uniform == \A m, n \in Sizes : m = n

(* The strengthening of ReserveKept: all that is still to be written fits  *)
(* above the reserve, and no operation exceeds a bound (the admission      *)
(* check of admit, seen from every later state).                           *)
Covered ==
    /\ Busy(1) \/ Busy(2) => free >= Reserve + left[1] + left[2]
    /\ \A w \in Workers : Busy(w) => \E n \in Sizes : left[w] <= n

(* The strengthening of SameViewKeepsReserve: an operation is within half  *)
(* of what was free above the reserve at its admission.                    *)
WithinHalf ==
    /\ SameViewKeepsReserve
    /\ \A w \in Workers : Busy(w) => seen[w] >= Reserve + 2 * left[w]

=============================================================================
