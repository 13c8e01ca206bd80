---------------------------- MODULE MCSnapshots -----------------------------
(***************************************************************************)
(* Instances of Snapshots for TLC.                                         *)
(***************************************************************************)
EXTENDS Snapshots, TLC

\* Names of the same sort are interchangeable.
Symmetry == Permutations(Handlers) \union Permutations(Names)
              \union Permutations(Volumes) \union Permutations(Backups)

=============================================================================
