------------------------- MODULE VideoIdentityProofs -------------------------
(***************************************************************************)
(* Proofs about VideoIdentity for any number of ingests, bytes and         *)
(* attempts and any relation of likeness.                                  *)
(***************************************************************************)
EXTENDS VideoIdentity, TLAPS

(* An attempt is an ingest and a number. *)
LEMMA ProcLemma ==
    ASSUME NEW p \in Procs
    PROVE  /\ p[1] \in Ingests
           /\ p[2] \in 1 .. MaxAttempts
           /\ p # None
           /\ p = <<p[1], p[2]>>
  BY IdentityAssumption DEF Procs, Attempts

(* Rows and attempts keep their types. *)
THEOREM TypeCorrect == Spec => []TypeOK
  <1>1. Init => TypeOK
    BY IdentityAssumption, SMTT(60) DEF Init, TypeOK, Steps
  <1>2. TypeOK /\ [Next]_vars => TypeOK'
    <2> SUFFICES ASSUME TypeOK, [Next]_vars PROVE TypeOK'
      BY Zenon
    <2>0. \A q \in Procs : q[1] \in Ingests /\ q[2] \in 1 .. MaxAttempts
      BY Zenon, ProcLemma
    <2> USE IdentityAssumption DEF TypeOK, Steps, StorageStates, Visible, Sha, Twins, rows, jobs, own
    <2>1. ASSUME NEW q \in Procs, Claim(q) PROVE TypeOK'
      BY <2>1, <2>0, SMTT(60) DEF Claim, At
    <2>2. ASSUME NEW q \in Procs, Preflight(q) PROVE TypeOK'
      BY <2>2, <2>0, Zenon DEF Preflight, At
    <2>3. ASSUME NEW q \in Procs, BeginIngestFingerprinting(q) PROVE TypeOK'
      <3> (IF exact[q] THEN "acquire" ELSE "extract") \in Steps
        BY Zenon DEF Steps
      <3>1. CASE End(q)
        BY <2>3, <2>0, <3>1, Zenon DEF BeginIngestFingerprinting, End, Forget
      <3>2. CASE ~End(q)
        BY <2>3, <2>0, <3>2, SMTT(60) DEF BeginIngestFingerprinting
      <3> QED
        BY Zenon, <3>1, <3>2
    <2>4. ASSUME NEW q \in Procs, Extract(q) PROVE TypeOK'
      BY <2>4, <2>0, Zenon DEF Extract, At
    <2>5. ASSUME NEW q \in Procs, Acquire(q) PROVE TypeOK'
      BY <2>5, <2>0, Zenon DEF Acquire, At
    <2>6. ASSUME NEW q \in Procs, Prepare(q) PROVE TypeOK'
      <3> DEFINE found == media[Sha(q)] # None
                 some == Candidates(q)
                 rest == {t \in Twins(Sha(q)) : media[t] \notin Visible}
      <3>1. found \in BOOLEAN
        BY Zenon
      <3>2. some \in SUBSET Shas
        BY Zenon DEF Candidates, Shortlist, Twins
      <3>3. rest \in SUBSET Shas
        BY Zenon DEF Twins
      <3>4. CASE /\ exact' = [exact EXCEPT ![q] = found]
                 /\ cand' = [cand EXCEPT ![q] = some]
                 /\ hidden' = [hidden EXCEPT ![q] = rest]
                 /\ step' = [step EXCEPT ![q] = "align"]
        <4> HIDE DEF found, some, rest
        <4> QED
          BY <2>6, <2>0, <3>1, <3>2, <3>3, <3>4, Zenon DEF Prepare
      <3>5. CASE step' = [step EXCEPT ![q] = "release"] /\ UNCHANGED own
        BY <2>6, <2>0, <3>5, Zenon DEF Prepare
      <3> QED
        BY <2>6, <3>4, <3>5, Zenon DEF Prepare
    <2>7. ASSUME NEW q \in Procs, Align(q) PROVE TypeOK'
      BY <2>7, <2>0, Zenon DEF Align, At
    <2>8. ASSUME NEW q \in Procs, AbortVideoIdentity(q) PROVE TypeOK'
      <3>1. CASE Current(q)
        BY <2>8, <2>0, <3>1, Zenon DEF AbortVideoIdentity, FailedForGood, End, Forget
      <3>2. CASE ~Current(q)
        BY <2>8, <2>0, <3>2, Zenon DEF AbortVideoIdentity, FailedForGood, End, Forget
      <3> QED
        BY Zenon, <3>1, <3>2
    <2>9. ASSUME NEW q \in Procs, PersistVideoIdentity(q) PROVE TypeOK'
      <3> USE <2>9 DEF PersistVideoIdentity, At, OnLockedConnection
      <3>1. CASE PersistExact(q)
        BY <3>1, <2>0, Zenon DEF PersistExact, Advanced
      <3>2. CASE PersistPending(q)
        BY <3>2, <2>0, Zenon DEF PersistPending
      <3>3. CASE PersistNew(q)
        BY <3>3, <2>0, Zenon DEF PersistNew, Advanced
      <3>4. CASE UNCHANGED <<rows, jobs, media>>
        BY <3>4, <2>0, Zenon
      <3> QED
        BY Zenon, <3>1, <3>2, <3>3, <3>4
    <2>10. ASSUME NEW q \in Procs, Release(q) PROVE TypeOK'
      BY <2>10, <2>0, Zenon DEF Release, End, Forget
    <2>11. ASSUME NEW q \in Procs, ConnectionError(q) PROVE TypeOK'
      BY <2>11, <2>0, SMTT(60) DEF ConnectionError, Retried, End, Forget
    <2>12. ASSUME NEW q \in Procs, ExtractFails(q) PROVE TypeOK'
      BY <2>12, <2>0, SMTT(60) DEF ExtractFails, Retried, FailedForGood, End, Forget
    <2>13. ASSUME NEW q \in Procs, AlignFails(q) PROVE TypeOK'
      BY <2>13, <2>0, Zenon DEF AlignFails, At
    <2>14. ASSUME NEW q \in Procs, ConnectionLost(q) PROVE TypeOK'
      BY <2>14, <2>0, Zenon DEF ConnectionLost
    <2>15. ASSUME NEW q \in Procs, Vanish(q) PROVE TypeOK'
      BY <2>15, <2>0, Zenon DEF Vanish, LockAfterDrop, End, Forget
    <2>16. ASSUME NEW q \in Procs, LoseLease(q) PROVE TypeOK'
      BY <2>16, <2>0, SMTT(60) DEF LoseLease, Retried
    <2>17. ASSUME NEW s \in Shas, NEW to \in StorageStates, StorageChanges(s, to) PROVE TypeOK'
      BY <2>17, <2>0, Zenon DEF StorageChanges
    <2>18. ASSUME NEW i \in Ingests, NEW s \in Shas, AcceptDuplicate(i, s) PROVE TypeOK'
      BY <2>18, <2>0, Zenon DEF AcceptDuplicate, Advanced
    <2>19. ASSUME NEW i \in Ingests, NEW s \in Shas, ForceSave(i, s) PROVE TypeOK'
      BY <2>19, <2>0, Zenon DEF ForceSave
    <2>20. CASE UNCHANGED vars
      BY <2>20, Zenon DEF vars
    <2> QED
      BY ZenonT(40), <2>1, <2>2, <2>3, <2>4, <2>5, <2>6, <2>7, <2>8, <2>9, <2>10, <2>11, <2>12,
         <2>13, <2>14, <2>15, <2>16, <2>17, <2>18, <2>19, <2>20
      DEF Next, Work, Trouble
  <1> QED
    BY <1>1, <1>2, PTL DEF Spec

(* While the holder of the advisory lock aligns, it knows every strong     *)
(* duplicate on record (VideoIdentitySession spans both transactions).     *)
THEOREM LockedView == Spec => []LockedViewComplete
  <1>1. Init => LockedViewComplete
    BY ProcLemma, Zenon DEF Init, LockedViewComplete
  <1>2. TypeOK /\ LockedViewComplete /\ [Next]_vars => LockedViewComplete'
    <2> SUFFICES ASSUME TypeOK, LockedViewComplete, [Next]_vars PROVE LockedViewComplete'
      BY Zenon
    <2>0. \A q \in Procs : /\ q[1] \in Ingests /\ q[2] \in 1 .. MaxAttempts
                           /\ q # None
      BY Zenon, ProcLemma
    <2>a. \A q, r \in Procs : q[1] = r[1] /\ q[2] = r[2] => q = r
      BY Zenon, ProcLemma
    <2> USE IdentityAssumption DEF TypeOK, LockedViewComplete, Current, Sha, Forced, Twins, Visible, rows, jobs, own
    <2>1. ASSUME NEW q \in Procs, Claim(q) PROVE LockedViewComplete'
      BY <2>1, <2>0, <2>a, SMTT(60) DEF Claim, At
    <2>2. ASSUME NEW q \in Procs, Preflight(q) PROVE LockedViewComplete'
      BY <2>2, <2>0, <2>a, SMTT(60) DEF Preflight, At
    <2>3. ASSUME NEW q \in Procs, BeginIngestFingerprinting(q) PROVE LockedViewComplete'
      BY <2>3, <2>0, <2>a, SMTT(60) DEF BeginIngestFingerprinting, End, Forget
    <2>4. ASSUME NEW q \in Procs, Extract(q) PROVE LockedViewComplete'
      BY <2>4, <2>0, <2>a, SMTT(60) DEF Extract, At
    <2>5. ASSUME NEW q \in Procs, Acquire(q) PROVE LockedViewComplete'
      BY <2>5, <2>0, <2>a, SMTT(60) DEF Acquire, At
    <2>6. ASSUME NEW q \in Procs, Prepare(q) PROVE LockedViewComplete'
      BY <2>6, <2>0, <2>a, SMTT(60) DEF Prepare, Candidates, Shortlist
    <2>7. ASSUME NEW q \in Procs, Align(q) PROVE LockedViewComplete'
      BY <2>7, <2>0, <2>a, SMTT(60) DEF Align, At
    <2>8. ASSUME NEW q \in Procs, AbortVideoIdentity(q) PROVE LockedViewComplete'
      BY <2>8, <2>0, <2>a, Zenon DEF AbortVideoIdentity, FailedForGood, End, Forget
    <2>9. ASSUME NEW q \in Procs, PersistVideoIdentity(q) PROVE LockedViewComplete'
      <3> USE <2>9 DEF PersistVideoIdentity, At, OnLockedConnection
      <3>1. CASE PersistExact(q)
        BY <3>1, <2>0, <2>a, ZenonT(40) DEF PersistExact, Advanced
      <3>2. CASE PersistPending(q)
        BY <3>2, <2>0, <2>a, SMTT(60) DEF PersistPending
      <3>3. CASE PersistNew(q)
        BY <3>3, <2>0, <2>a, SMTT(60) DEF PersistNew, Advanced
      <3>4. CASE UNCHANGED <<rows, jobs, media>>
        BY <3>4, <2>0, <2>a, Zenon
      <3> QED
        BY Zenon, <3>1, <3>2, <3>3, <3>4
    <2>10. ASSUME NEW q \in Procs, Release(q) PROVE LockedViewComplete'
      BY <2>10, <2>0, <2>a, SMTT(60) DEF Release, End, Forget
    <2>11. ASSUME NEW q \in Procs, ConnectionError(q) PROVE LockedViewComplete'
      BY <2>11, <2>0, <2>a, SMTT(60) DEF ConnectionError, Retried, End, Forget
    <2>12. ASSUME NEW q \in Procs, ExtractFails(q) PROVE LockedViewComplete'
      BY <2>12, <2>0, <2>a, SMTT(60) DEF ExtractFails, Retried, FailedForGood, End, Forget
    <2>13. ASSUME NEW q \in Procs, AlignFails(q) PROVE LockedViewComplete'
      BY <2>13, <2>0, <2>a, SMTT(60) DEF AlignFails, At
    <2>14. ASSUME NEW q \in Procs, ConnectionLost(q) PROVE LockedViewComplete'
      BY <2>14, <2>0, <2>a, Zenon DEF ConnectionLost
    <2>15. ASSUME NEW q \in Procs, Vanish(q) PROVE LockedViewComplete'
      BY <2>15, <2>0, <2>a, SMTT(60) DEF Vanish, LockAfterDrop, End, Forget
    <2>16. ASSUME NEW q \in Procs, LoseLease(q) PROVE LockedViewComplete'
      BY <2>16, <2>0, <2>a, SMTT(60) DEF LoseLease, Retried
    <2>17. ASSUME NEW s \in Shas, NEW to \in StorageStates, StorageChanges(s, to) PROVE LockedViewComplete'
      BY <2>17, <2>0, <2>a, SMTT(60) DEF StorageChanges
    <2>18. ASSUME NEW i \in Ingests, NEW s \in Shas, AcceptDuplicate(i, s) PROVE LockedViewComplete'
      BY <2>18, <2>0, <2>a, Zenon DEF AcceptDuplicate, Advanced
    <2>19. ASSUME NEW i \in Ingests, NEW s \in Shas, ForceSave(i, s) PROVE LockedViewComplete'
      BY <2>19, <2>0, <2>a, SMTT(60) DEF ForceSave
    <2>20. CASE UNCHANGED vars
      BY <2>20, Zenon DEF vars
    <2> QED
      BY Zenon, <2>1, <2>2, <2>3, <2>4, <2>5, <2>6, <2>7, <2>8, <2>9, <2>10, <2>11, <2>12,
         <2>13, <2>14, <2>15, <2>16, <2>17, <2>18, <2>19, <2>20
      DEF Next, Work, Trouble
  <1> QED
    BY <1>1, <1>2, TypeCorrect, PTL DEF Spec

(* Evidence, candidates and links are real: the three invariants are       *)
(* inductive together.                                                     *)
THEOREM EvidenceAndLinks ==
    Spec => [](CandidatesAreReal /\ EvidenceIsReal /\ LinkedToItsVideo)
  <1> DEFINE Inv == CandidatesAreReal /\ EvidenceIsReal /\ LinkedToItsVideo
  <1>1. Init => Inv
    BY ProcLemma, SMTT(60) DEF Init, CandidatesAreReal, EvidenceIsReal, LinkedToItsVideo
  <1>2. TypeOK /\ Inv /\ [Next]_vars => Inv'
    <2> SUFFICES ASSUME TypeOK, Inv, [Next]_vars PROVE Inv'
      BY Zenon
    <2>0. \A q \in Procs : /\ q[1] \in Ingests /\ q[2] \in 1 .. MaxAttempts
                           /\ q # None
      BY Zenon, ProcLemma
    <2>a. \A q, r \in Procs : q[1] = r[1] /\ q[2] = r[2] => q = r
      BY Zenon, ProcLemma
    <2> USE IdentityAssumption DEF TypeOK, CandidatesAreReal, EvidenceIsReal, LinkedToItsVideo, Current, Sha, Forced, Twins, Visible, rows, jobs, own
    <2>1. ASSUME NEW q \in Procs, Claim(q) PROVE Inv'
      BY <2>1, <2>0, <2>a, SMTT(60) DEF Claim, At
    <2>2. ASSUME NEW q \in Procs, Preflight(q) PROVE Inv'
      BY <2>2, <2>0, <2>a, SMTT(60) DEF Preflight, At
    <2>3. ASSUME NEW q \in Procs, BeginIngestFingerprinting(q) PROVE Inv'
      BY <2>3, <2>0, <2>a, SMTT(60) DEF BeginIngestFingerprinting, End, Forget
    <2>4. ASSUME NEW q \in Procs, Extract(q) PROVE Inv'
      BY <2>4, <2>0, <2>a, SMTT(60) DEF Extract, At
    <2>5. ASSUME NEW q \in Procs, Acquire(q) PROVE Inv'
      BY <2>5, <2>0, <2>a, SMTT(60) DEF Acquire, At
    <2>6. ASSUME NEW q \in Procs, Prepare(q) PROVE Inv'
      BY <2>6, <2>0, <2>a, SMTT(60) DEF Prepare, Candidates, Shortlist
    <2>7. ASSUME NEW q \in Procs, Align(q) PROVE Inv'
      BY <2>7, <2>0, <2>a, SMTT(60) DEF Align, At
    <2>8. ASSUME NEW q \in Procs, AbortVideoIdentity(q) PROVE Inv'
      BY <2>8, <2>0, <2>a, SMTT(60) DEF AbortVideoIdentity, FailedForGood, End, Forget
    <2>9. ASSUME NEW q \in Procs, PersistVideoIdentity(q) PROVE Inv'
      <3> USE <2>9 DEF PersistVideoIdentity, At, OnLockedConnection
      <3>1. CASE PersistExact(q)
        BY <3>1, <2>0, <2>a, SMTT(60) DEF PersistExact, Advanced
      <3>2. CASE PersistPending(q)
        BY <3>2, <2>0, <2>a, SMTT(60) DEF PersistPending
      <3>3. CASE PersistNew(q)
        BY <3>3, <2>0, <2>a, SMTT(60) DEF PersistNew, Advanced
      <3>4. CASE UNCHANGED <<rows, jobs, media>>
        BY <3>4, <2>0, <2>a, SMTT(60)
      <3> QED
        BY Zenon, <3>1, <3>2, <3>3, <3>4
    <2>10. ASSUME NEW q \in Procs, Release(q) PROVE Inv'
      BY <2>10, <2>0, <2>a, SMTT(60) DEF Release, End, Forget
    <2>11. ASSUME NEW q \in Procs, ConnectionError(q) PROVE Inv'
      BY <2>11, <2>0, <2>a, SMTT(60) DEF ConnectionError, Retried, End, Forget
    <2>12. ASSUME NEW q \in Procs, ExtractFails(q) PROVE Inv'
      BY <2>12, <2>0, <2>a, SMTT(60) DEF ExtractFails, Retried, FailedForGood, End, Forget
    <2>13. ASSUME NEW q \in Procs, AlignFails(q) PROVE Inv'
      BY <2>13, <2>0, <2>a, SMTT(60) DEF AlignFails, At
    <2>14. ASSUME NEW q \in Procs, ConnectionLost(q) PROVE Inv'
      BY <2>14, <2>0, <2>a, SMTT(60) DEF ConnectionLost
    <2>15. ASSUME NEW q \in Procs, Vanish(q) PROVE Inv'
      BY <2>15, <2>0, <2>a, SMTT(60) DEF Vanish, LockAfterDrop, End, Forget
    <2>16. ASSUME NEW q \in Procs, LoseLease(q) PROVE Inv'
      BY <2>16, <2>0, <2>a, SMTT(60) DEF LoseLease, Retried
    <2>17. ASSUME NEW s \in Shas, NEW to \in StorageStates, StorageChanges(s, to) PROVE Inv'
      BY <2>17, <2>0, <2>a, SMTT(60) DEF StorageChanges
    <2>18. ASSUME NEW i \in Ingests, NEW s \in Shas, AcceptDuplicate(i, s) PROVE Inv'
      BY <2>18, <2>0, <2>a, SMTT(60) DEF AcceptDuplicate, Advanced
    <2>19. ASSUME NEW i \in Ingests, NEW s \in Shas, ForceSave(i, s) PROVE Inv'
      BY <2>19, <2>0, <2>a, SMTT(60) DEF ForceSave
    <2>20. CASE UNCHANGED vars
      BY <2>20, SMTT(60) DEF vars
    <2> QED
      BY Zenon, <2>1, <2>2, <2>3, <2>4, <2>5, <2>6, <2>7, <2>8, <2>9, <2>10, <2>11, <2>12,
         <2>13, <2>14, <2>15, <2>16, <2>17, <2>18, <2>19, <2>20
      DEF Next, Work, Trouble
  <1> QED
    BY <1>1, <1>2, TypeCorrect, PTL DEF Spec

(* complete_video_identity_while_locked inserts a media row only when no   *)
(* strong duplicate exists that the attempt could have seen.               *)
THEOREM Inserts == Spec => InsertsOnlyNew
  <1> DEFINE A == \A s \in Shas : media[s] = None /\ media'[s] # None =>
                     \E p \in Procs : /\ Sha(p) = s
                                      /\ Forced(p) \/ Twins(s) \subseteq hidden[p]
  <1>1. TypeOK /\ LockedViewComplete /\ [Next]_vars => [A]_vars
    <2> SUFFICES ASSUME TypeOK, LockedViewComplete, [Next]_vars,
                        NEW s \in Shas, media[s] = None, media'[s] # None
                 PROVE  \E p \in Procs : /\ Sha(p) = s
                                         /\ Forced(p) \/ Twins(s) \subseteq hidden[p]
      BY Zenon
    <2>1. PICK q \in Procs : PersistNew(q) /\ step[q] = "persist" /\ lock = q
      <3>1. \A t \in Shas, to \in StorageStates : ~StorageChanges(t, to)
        BY IdentityAssumption, SMTT(60) DEF StorageChanges, TypeOK, Visible
      <3>2. \A i \in Ingests, t \in Shas : ~AcceptDuplicate(i, t) /\ ~ForceSave(i, t)
        BY Zenon DEF AcceptDuplicate, ForceSave
      <3>3. \A q \in Procs : ~Trouble(q)
        BY Zenon DEF Trouble, ExtractFails, AlignFails, ConnectionLost, Vanish, LoseLease
      <3>4. PICK q \in Procs : PersistVideoIdentity(q)
        BY <3>1, <3>2, <3>3, Zenon
        DEF Next, Work, vars, Claim, Preflight, BeginIngestFingerprinting, Extract,
            Acquire, Prepare, Align, AbortVideoIdentity, Release, ConnectionError
      <3> QED
        BY <3>4, Zenon
        DEF PersistVideoIdentity, PersistExact, PersistPending, At, OnLockedConnection
    <2>2. q[1] \in Ingests
      BY Zenon, ProcLemma
    <2>3. Sha(q) = s
      BY <2>1, <2>2, Zenon DEF PersistNew, TypeOK, Sha
    <2>4. Forced(q) \/ Twins(s) \subseteq hidden[q]
      BY <2>1, <2>3, Zenon DEF PersistNew, LockedViewComplete
    <2> QED
      BY Zenon, <2>3, <2>4
  <1> QED
    BY <1>1, TypeCorrect, LockedView, PTL DEF Spec, InsertsOnlyNew

=============================================================================
