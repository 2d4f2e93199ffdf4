--------------------------- MODULE MCProjectSync ---------------------------
(* ProjectSync on small instances. *)
EXTENDS ProjectSync, TLC

\* Computers, projects and contents are interchangeable.
Symmetry == Permutations(Clients) \cup Permutations(Projects) \cup Permutations(Blobs)
=============================================================================
