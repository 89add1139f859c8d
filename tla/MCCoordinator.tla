--------------------------- MODULE MCCoordinator ---------------------------
(* Instances of Coordinator for TLC. *)
EXTENDS Coordinator, TLC

\* The ids of jobs are interchangeable, and so are those of resources.
Symmetry == Permutations(Job) \cup Permutations(Resource)

\* No action reads the command queue (only Fleet delivers it), so two states
\* that differ in it alone have the same future.
WithoutCommands == <<jobs, resources, lostRetries>>

=============================================================================
