--------------------------- MODULE MCVolumeAttach ---------------------------
(***************************************************************************)
(* Instances of VolumeAttach for TLC.                                      *)
(***************************************************************************)
EXTENDS VolumeAttach, TLC

\* Names of the same sort are interchangeable (safety runs only).
Symmetry == Permutations(Handlers) \union Permutations(Volumes)
              \union Permutations(Servers) \union Permutations(Slots)

=============================================================================
