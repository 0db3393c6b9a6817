-------------------------- MODULE MCWasmaticClient --------------------------
(***************************************************************************)
(* Instances of WasmaticClient for TLC.                                    *)
(***************************************************************************)
EXTENDS WasmaticClient, TLC

\* Endpoints and components are interchangeable: no definition looks at their
\* names.
Symmetry == Permutations(Endpoint) \cup Permutations(Digest)
=============================================================================
