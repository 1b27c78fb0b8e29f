---------------------------- MODULE MCInterview ----------------------------
(* Model-checking instance of Interview: symmetry of the request ids.       *)
EXTENDS Interview, TLC

\* Requests of one kind are interchangeable: no definition orders them.
Symmetry == Permutations(Clients) \cup Permutations(Jobs)
=============================================================================
