------------------------ MODULE MCAnalysisPipeline ------------------------
(* Instances of AnalysisPipeline for TLC. *)
EXTENDS AnalysisPipeline, TLC

CONSTANTS a, b, c1, c2

(* No file includes another. *)
NoInclude == [u \in Uri |-> {}]

(* a includes b; b includes nothing. *)
OneInclude == [u \in Uri |-> IF u = a THEN {b} ELSE {}]
====
