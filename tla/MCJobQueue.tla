------------------------------ MODULE MCJobQueue ------------------------------
(* Instances of JobQueue for TLC. *)
EXTENDS JobQueue, TLC

CONSTANTS j1, j2, j3, w1, w2

(* w2 has no Telegram token and lacks the handler of j2. *)
OnlyFirst(w, j) == w = w1 \/ j # j2

(* Jobs of several kinds, with budgets of their own. *)
Budgets == [j \in Jobs |-> IF j = j3 THEN 2 ELSE 1]
=============================================================================
