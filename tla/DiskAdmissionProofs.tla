------------------------- MODULE DiskAdmissionProofs -------------------------
(***************************************************************************)
(* Proofs about DiskAdmission for every volume, reserve and set of         *)
(* operation bounds.                                                       *)
(***************************************************************************)
EXTENDS DiskAdmission, TLAPS

(* What an admitted operation finds free: the reserve and twice its bound, *)
(* without overflow and without saturation (disk.rs, admits).              *)
LEMMA AdmitsLemma ==
    ASSUME NEW n \in Sizes, TypeOK, admits(n)
    PROVE  free >= Reserve + 2 * n
  <1>1. n \in Nat /\ free \in Nat /\ U64Max \in Nat /\ Reserve \in Nat /\ Reserve > 0
    BY DiskAssumption DEF TypeOK
  <1>2. 2 * n <= U64Max
    BY <1>1 DEF admits, concurrent_operation_budget
  <1> QED
    BY <1>1, <1>2 DEF admits, concurrent_operation_budget

(* The type invariant is inductive. *)
LEMMA TypeInductive ==
    TypeOK /\ [Next]_vars => TypeOK'
  <1> SUFFICES ASSUME TypeOK, [Next]_vars PROVE TypeOK'
    OBVIOUS
  <1> USE DiskAssumption DEF TypeOK, Workers
  <1>1. ASSUME NEW w \in Workers, NEW n \in Sizes, Admit(w, n) PROVE TypeOK'
    BY <1>1 DEF Admit
  <1>2. ASSUME NEW w \in Workers, Write(w) PROVE TypeOK'
    BY <1>2 DEF Write
  <1>3. ASSUME NEW w \in Workers, Finish(w) PROVE TypeOK'
    BY <1>3 DEF Finish
  <1>4. CASE Reclaim
    BY <1>4 DEF Reclaim
  <1>5. CASE UNCHANGED vars
    BY <1>5 DEF vars
  <1> QED
    BY <1>1, <1>2, <1>3, <1>4, <1>5 DEF Next

(* Free space and what is left to write keep their types. *)
THEOREM TypeCorrect == Spec => []TypeOK
  <1>1. Init => TypeOK
    BY DiskAssumption DEF Init, TypeOK, Workers
  <1> QED
    BY <1>1, TypeInductive, PTL DEF Spec

(* Two operations admitted on the same free-space value leave the reserve, *)
(* whatever their bounds are (the doubled budget of admit).                *)
THEOREM SameView == Spec => []SameViewKeepsReserve
  <1>1. Init => WithinHalf
    BY DEF Init, WithinHalf, SameViewKeepsReserve, Busy, Workers
  <1>2. TypeOK /\ TypeOK' /\ WithinHalf /\ [Next]_vars => WithinHalf'
    <2> SUFFICES ASSUME TypeOK, TypeOK', WithinHalf, [Next]_vars PROVE WithinHalf'
      OBVIOUS
    <2> USE DiskAssumption DEF TypeOK, WithinHalf, SameViewKeepsReserve, Busy, Workers
    <2>1. ASSUME NEW w \in Workers, NEW n \in Sizes, Admit(w, n) PROVE WithinHalf'
      <3>1. free >= Reserve + 2 * n
        BY <2>1, AdmitsLemma DEF Admit, check_disk_space
      <3> QED
        BY <2>1, <3>1 DEF Admit
    <2>2. ASSUME NEW w \in Workers, Write(w) PROVE WithinHalf'
      BY <2>2 DEF Write
    <2>3. ASSUME NEW w \in Workers, Finish(w) PROVE WithinHalf'
      BY <2>3 DEF Finish
    <2>4. CASE Reclaim
      BY <2>4 DEF Reclaim
    <2>5. CASE UNCHANGED vars
      BY <2>5 DEF vars
    <2> QED
      BY <2>1, <2>2, <2>3, <2>4, <2>5 DEF Next
  <1>3. WithinHalf => SameViewKeepsReserve
    BY DEF WithinHalf
  <1> QED
    BY <1>1, <1>2, <1>3, TypeCorrect, PTL DEF Spec

(* With one bound for all operations, all that is admitted fits above the  *)
(* reserve in every reachable state.                                       *)
THEOREM UniformCovered ==
    ASSUME Uniform
    PROVE  Spec => []Covered
  <1>1. Init => Covered
    BY DEF Init, Covered, Busy, Workers
  <1>2. TypeOK /\ TypeOK' /\ Covered /\ [Next]_vars => Covered'
    <2> SUFFICES ASSUME TypeOK, TypeOK', Covered, [Next]_vars PROVE Covered'
      OBVIOUS
    <2> USE DiskAssumption DEF TypeOK, Covered, Busy, Workers
    <2>1. ASSUME NEW w \in Workers, NEW n \in Sizes, Admit(w, n) PROVE Covered'
      <3>1. free >= Reserve + 2 * n
        BY <2>1, AdmitsLemma DEF Admit, check_disk_space
      <3>2. \A v \in Workers : left[v] <= n
        BY Uniform DEF Uniform
      <3> QED
        BY <2>1, <3>1, <3>2 DEF Admit
    <2>2. ASSUME NEW w \in Workers, Write(w) PROVE Covered'
      BY <2>2 DEF Write
    <2>3. ASSUME NEW w \in Workers, Finish(w) PROVE Covered'
      BY <2>3 DEF Finish
    <2>4. CASE Reclaim
      BY <2>4 DEF Reclaim
    <2>5. CASE UNCHANGED vars
      BY <2>5 DEF vars
    <2> QED
      BY <2>1, <2>2, <2>3, <2>4, <2>5 DEF Next
  <1> QED
    BY <1>1, <1>2, TypeCorrect, PTL DEF Spec

(* With one bound for all operations, no step takes the volume below the   *)
(* reserve.                                                                *)
THEOREM UniformReserve ==
    ASSUME Uniform
    PROVE  Spec => ReserveKept
  <1>1. TypeOK /\ Covered /\ [Next]_vars => [free >= Reserve => free' >= Reserve]_vars
    <2> SUFFICES ASSUME TypeOK, Covered, Next, free >= Reserve PROVE free' >= Reserve
      BY DEF vars
    <2> USE DiskAssumption DEF TypeOK, Covered, Busy, Workers
    <2>1. ASSUME NEW w \in Workers, NEW n \in Sizes, Admit(w, n) PROVE free' >= Reserve
      BY <2>1 DEF Admit
    <2>2. ASSUME NEW w \in Workers, Write(w) PROVE free' >= Reserve
      BY <2>2 DEF Write
    <2>3. ASSUME NEW w \in Workers, Finish(w) PROVE free' >= Reserve
      BY <2>3 DEF Finish
    <2>4. CASE Reclaim
      BY <2>4 DEF Reclaim
    <2> QED
      BY <2>1, <2>2, <2>3, <2>4 DEF Next
  <1> QED
    BY <1>1, TypeCorrect, UniformCovered, PTL DEF Spec, ReserveKept

=============================================================================
