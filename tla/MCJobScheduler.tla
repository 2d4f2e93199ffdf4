--------------------------- MODULE MCJobScheduler ---------------------------
(* JobScheduler on small instances. *)
EXTENDS JobScheduler, TLC

\* Jobs are interchangeable, and so are dedupe keys.
Symmetry == Permutations(Jobs) \cup Permutations(Keys)
=============================================================================
