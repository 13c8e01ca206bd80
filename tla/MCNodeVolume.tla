---------------------------- MODULE MCNodeVolume ----------------------------
(***************************************************************************)
(* Instances of NodeVolume for TLC.                                        *)
(***************************************************************************)
EXTENDS NodeVolume, TLC

\* Handlers are interchangeable, and so are the targets of pods.
Symmetry == Permutations(Handlers) \union Permutations(Targets)

=============================================================================
