------------------------------ MODULE MCFleet ------------------------------
(* Instances of Fleet for TLC. *)
EXTENDS Fleet, TLC

\* The ids of jobs are interchangeable, and so are those of resources.
Symmetry == Permutations(Job) \cup Permutations(Resource)

=============================================================================
