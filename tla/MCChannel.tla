------------------------------ MODULE MCChannel ------------------------------
(* Channel on a small instance; the threads without a token are            *)
(* interchangeable, and so are the values.                                 *)
EXTENDS Channel, TLC

Symmetry == Permutations(HasToken) \cup Permutations(Thread \ HasToken)
              \cup Permutations(Value)
=============================================================================
