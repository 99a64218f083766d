---- MODULE MCThreadPool ----
(* Instances of ThreadPool for TLC. *)
EXTENDS ThreadPool, TLC

(* The tasks are interchangeable. *)
TaskSymmetry == Permutations(Task)
====
